---------------------------- MODULE Whiteboard ----------------------------
(* The collaboration protocol of whiteboard_runtime.cpp.  The host of the  *)
(* meeting is the authority: it orders the commands, keeps a bounded log,  *)
(* and serves deltas and snapshots.  Every other participant keeps a       *)
(* replica, proposes commands and applies what is committed.  A replica    *)
(* may leave and join again with nothing, an end may lose its connection,  *)
(* and the sender's buffer is bounded: a message sent over it is dropped   *)
(* and the sender told so.                                                 *)
(*                                                                         *)
(* Messages between the authority and a replica travel in two FIFO links,  *)
(* the reliable data channel of the room.  Each action is one call of the  *)
(* Runtime, which the strand of the session runs to its end.  Silence (8 s)*)
(* may be noticed at any time.  A periodic message (2 s) is sent only when *)
(* the link it uses is empty, and with EagerTimers = FALSE only when the   *)
(* answers have come as well: the period is long compared with a round     *)
(* trip.  Safety is checked with eager timers, liveness without.           *)
(***************************************************************************)
EXTENDS WhiteboardDocument, FiniteSets

CONSTANTS Authority, Replicas,
          MaxLogEntries,    \* commits a delta can start from (512)
          MaxProposals,     \* proposals remembered by the authority (2048)
          MaxPending,       \* proposals a replica waits for (256)
          MaxDeltaEntries,  \* entries that fit in one message
          MaxBuffered,      \* messages in the buffer of a link
          EagerTimers,      \* timers may overtake an answer
          Kinds,            \* kinds of command each participant uses
          TextKinds,        \* what the text of an object may be
          Assets,           \* images of pages
          MaxIssued,        \* bound: commands of each participant
          MaxControls,      \* bound: changes of the lock and the writers
          MaxJoins,         \* bound: times a replica joins
          MaxFaults         \* bound: interruptions and silent periods

Participants == Replicas \cup {Authority}

ASSUME BoardAssumption ==
  /\ Authority \notin Replicas /\ IsFiniteSet(Replicas)
  /\ Kinds \in [Participants -> SUBSET CommandKinds] /\ TextKinds \subseteq BOOLEAN
  /\ MaxLogEntries \in Nat \ {0} /\ MaxProposals \in Nat \ {0}
  /\ MaxPending \in Nat \ {0} /\ MaxDeltaEntries \in Nat \ {0}
  /\ MaxBuffered \in Nat \ {0} /\ EagerTimers \in BOOLEAN
  /\ MaxIssued \in [Participants -> Nat] /\ MaxControls \in Nat
  /\ MaxJoins \in Nat /\ MaxFaults \in Nat

VARIABLES
  state,      \* "synchronizing", "ready", "readonly", "frozen", "retired"
  board,      \* document_, sequence_, locked_ and writersOpen_ of each
  transport,  \* transportReady_
  log,        \* log_ of the authority
  proposals,  \* proposals_ in the order of proposalOrder_
  pending,    \* pendingProposals_ of a replica
  assembly,   \* snapshot_ of a replica
  up, down,   \* links from and to each replica
  issued,     \* commands each participant has proposed
  controls, joins, faults,  \* what the bounds count
  commits,    \* history: every entry the authority committed
  past        \* history: what the authority showed at each sequence

authorityVars == <<log, proposals, commits, past>>
budgetVars == <<issued, controls, joins, faults>>
vars == <<state, board, transport, pending, assembly, up, down,
          authorityVars, budgetVars>>

NoAssembly == [base |-> 0, content |-> <<>>, access |-> <<>>, received |-> {}]
OpenAccess == [locked |-> FALSE, writersOpen |-> TRUE]

Doc(p) == board[p].doc
Sequence(p) == board[p].sequence
NewBoard == [doc |-> NewDocument(Authority), sequence |-> 0, access |-> OpenAccess]

\* What a board shows to a user: the content and who may write.
Shown(b) == [content |-> Content(b.doc), access |-> b.access]

InSession(p) == state[p] # "retired"
Listening(p) == transport[p] /\ state[p] \notin {"retired", "frozen"}

AllowedWriter(p) ==
  p = Authority \/ (~board[p].access.locked /\ board[p].access.writersOpen)

\* The authority judges the proposal of p by its own settings.
AllowedByAuthority(p) ==
  p = Authority \/ (~board[Authority].access.locked /\ board[Authority].access.writersOpen)

Init ==
  /\ state = [p \in Participants |-> IF p = Authority THEN "ready" ELSE "retired"]
  /\ board = [p \in Participants |-> NewBoard]
  /\ transport = [p \in Participants |-> TRUE]
  /\ log = <<>> /\ proposals = <<>>
  /\ pending = [r \in Replicas |-> {}]
  /\ assembly = [r \in Replicas |-> NoAssembly]
  /\ up = [r \in Replicas |-> <<>>] /\ down = [r \in Replicas |-> <<>>]
  /\ issued = [p \in Participants |-> 0]
  /\ controls = 0 /\ joins = 0 /\ faults = 0
  /\ commits = <<>>
  /\ past = <<Shown(NewBoard)>>

-----------------------------------------------------------------------------
(* Sending.                                                                *)

\* What fits in the buffer of the link, in order.
Buffer(link, messages) ==
  link \o SubSeq(messages, 1, IF Len(link) + Len(messages) <= MaxBuffered
                              THEN Len(messages) ELSE MaxBuffered - Len(link))

\* A message to an authority that has left goes nowhere.
SendUp(r, link, messages) ==
  IF transport[r] /\ InSession(Authority) THEN Buffer(link, messages) ELSE link

Broadcast(messages) ==
  down' = [r \in Replicas |-> IF transport[Authority] /\ InSession(r)
                              THEN Buffer(down[r], messages) ELSE down[r]]

Descriptor(b) == [kind |-> "Descriptor", sequence |-> b.sequence, shown |-> Shown(b)]
Commit(entry) == [kind |-> "Commit", entry |-> entry]
SyncRequest(b) == [kind |-> "SyncRequest", base |-> b.sequence]

Deltas(from) ==
  LET missing == Keep(log, {e \in Range(log) : e.sequence > from})
  IN  [i \in 1 .. (Len(missing) + MaxDeltaEntries - 1) \div MaxDeltaEntries |->
        LET first == (i - 1) * MaxDeltaEntries
            last == IF i * MaxDeltaEntries < Len(missing)
                    THEN i * MaxDeltaEntries ELSE Len(missing)
        IN  [kind |-> "Delta", base |-> from + first,
             entries |-> SubSeq(missing, first + 1, last)]]

\* The chunks up to the first that cannot be encoded: there sendSnapshot
\* throws, and the handler of the strand ends.
SnapshotChunks ==
  LET b == board[Authority]
      content == Content(b.doc)
      cut == {i \in 1 .. ChunkCount(content) : ~Encodable(content, i)}
      count == IF cut = {} THEN ChunkCount(content) ELSE Min(cut) - 1
  IN  [i \in 1 .. count |->
        [kind |-> "SnapshotChunk", base |-> b.sequence, content |-> content,
         access |-> b.access, index |-> i]]

\* sendRecovery.  A delta that does not fit would be followed by a snapshot
\* that does not fit either.
Recovery(from) ==
  CASE from = Sequence(Authority) -> <<>>
    [] from < Sequence(Authority) /\ log # <<>> /\ from + 1 >= Head(log).sequence ->
         Deltas(from)
    [] OTHER -> SnapshotChunks

-----------------------------------------------------------------------------
(* The authority commits.                                                  *)

\* Faulty variant: the oldest entry stays.
RememberAll(entries, e, bound) == Append(entries, e)

Remember(entries, e, bound) ==
  Append(IF Len(entries) = bound THEN Tail(entries) ELSE entries, e)

\* The commit of an entry, appendAndBroadcast included.
CommitEntry(e, newBoard) ==
  /\ board' = [board EXCEPT ![Authority] = newBoard]
  /\ log' = Remember(log, e, MaxLogEntries)
  /\ commits' = Append(commits, e)
  /\ past' = Append(past, Shown(newBoard))
  /\ Broadcast(<<Commit(e)>>)

Remembered(c) == SelectInSeq(proposals, LAMBDA e : e.command.id = c.id)

CommandEntry(c) == [sequence |-> Sequence(Authority) + 1, control |-> FALSE, command |-> c]

\* commitProposal, for a command that is neither known nor refused.
CommitCommand(c) ==
  LET result == Apply(Doc(Authority), c)
      e == CommandEntry(c)
  IN  /\ result.status = "Applied"
      /\ CommitEntry(e, [board[Authority] EXCEPT !.doc = result.doc, !.sequence = @ + 1])
      /\ proposals' = Remember(proposals, e, MaxProposals)

Targets(p, kind) ==
  CASE kind = "Erase" -> {Objects(Doc(p))[i].id : i \in DOMAIN Objects(Doc(p))}
    [] kind = "SelectPage" -> PageIds(Doc(p))
    [] OTHER -> {NoAsset}

\* The commands the panel of p can build on the board it shows.
CommandsOf(p) ==
  UNION {{[id |-> <<p, issued[p] + 1>>, actor |-> p, context |-> Context(Doc(p)),
           kind |-> kind, target |-> target, wide |-> wide, asset |-> asset,
           builtAt |-> Sequence(p)] :
            target \in Targets(p, kind),
            wide \in IF kind = "Add" THEN TextKinds ELSE {FALSE},
            asset \in IF kind \in {"SetBackground", "AddImagePage"}
                      THEN Assets ELSE {NoAsset}} : kind \in Kinds[p]}

CanPropose(p) ==
  /\ state[p] = "ready" /\ transport[p] /\ AllowedWriter(p)
  /\ issued[p] < MaxIssued[p]

\* A command that is not applied leaves no trace; the id is fresh.
ProposeLocally(c) ==
  /\ CanPropose(Authority)
  /\ issued' = [issued EXCEPT ![Authority] = @ + 1]
  /\ CommitCommand(c)
  /\ UNCHANGED <<state, transport, pending, assembly, up, controls, joins, faults>>

ProposeRemotely(r, c) ==
  LET sent == SendUp(r, up[r], <<[kind |-> "Propose", command |-> c]>>)
  IN  /\ CanPropose(r)
      /\ Cardinality(pending[r]) < MaxPending
      /\ issued' = [issued EXCEPT ![r] = @ + 1]
      /\ pending' = [pending EXCEPT ![r] = @ \cup {c}]
      /\ up' = [up EXCEPT ![r] = sent]
      /\ state' = [state EXCEPT ![r] =
           IF Len(up[r]) < MaxBuffered THEN "ready" ELSE "readonly"]
      /\ UNCHANGED <<board, transport, assembly, down, authorityVars,
                     controls, joins, faults>>

\* setLocked and setWriters.
ChangeAccess(access) ==
  LET b == board[Authority]
      e == [sequence |-> b.sequence + 1, control |-> TRUE, access |-> access]
  IN  /\ state[Authority] = "ready"
      /\ controls < MaxControls
      /\ access # b.access
      /\ controls' = controls + 1
      /\ CommitEntry(e, [b EXCEPT !.sequence = @ + 1, !.access = access,
                                  !.doc = AdvanceInteraction(@)])
      /\ UNCHANGED <<state, transport, proposals, pending, assembly, up,
                     issued, joins, faults>>

SetLocked == ChangeAccess([board[Authority].access EXCEPT !.locked = ~@])
SetWriters == ChangeAccess([board[Authority].access EXCEPT !.writersOpen = ~@])

-----------------------------------------------------------------------------
(* The authority receives.                                                 *)

\* The first message of r, taken by an authority that listens.
Receive(r, kind) ==
  /\ up[r] # <<>> /\ Head(up[r]).kind = kind
  /\ Listening(Authority)
  /\ up' = [up EXCEPT ![r] = Tail(@)]

Answer(r, messages) == down' = [down EXCEPT ![r] = Buffer(@, messages)]

\* A Discover is handled as a request from an empty board.
AuthoritySyncs(r) ==
  /\ Receive(r, "SyncRequest")
  /\ Answer(r, <<Descriptor(board[Authority])>> \o Recovery(Head(up[r]).base))
  /\ UNCHANGED <<state, board, transport, pending, assembly, authorityVars, budgetVars>>

\* A proposal committed before is answered with its commit.
AuthorityRepeats(r) ==
  LET c == Head(up[r]).command
  IN  /\ Receive(r, "Propose")
      /\ Remembered(c) # 0
      /\ Answer(r, <<Commit(proposals[Remembered(c)])>>)
      /\ UNCHANGED <<state, board, transport, pending, assembly, authorityVars,
                     budgetVars>>

AuthorityCommits(r) ==
  LET c == Head(up[r]).command
  IN  /\ Receive(r, "Propose")
      /\ Remembered(c) = 0
      /\ AllowedByAuthority(r)
      /\ CommitCommand(c)
      /\ UNCHANGED <<state, transport, pending, assembly, budgetVars>>

AuthorityRejects(r) ==
  LET c == Head(up[r]).command
  IN  /\ Receive(r, "Propose")
      /\ Remembered(c) = 0
      /\ ~AllowedByAuthority(r) \/ Apply(Doc(Authority), c).status # "Applied"
      /\ Answer(r, <<[kind |-> "Reject", id |-> c.id]>>)
      /\ UNCHANGED <<state, board, transport, pending, assembly, authorityVars,
                     budgetVars>>

-----------------------------------------------------------------------------
(* A replica receives.                                                     *)

\* Faulty variant: the sequence of the entry is not compared.
ApplyAnyEntry(a, e) ==
  LET result == Apply(a.board.doc, e.command)
  IN  IF e.control
      THEN [a EXCEPT !.board = [doc |-> AdvanceInteraction(a.board.doc),
                                sequence |-> e.sequence, access |-> e.access]]
      ELSE [a EXCEPT !.ok = result.status \in {"Applied", "Duplicate"},
                     !.board = [@ EXCEPT !.doc = result.doc, !.sequence = e.sequence]]

\* applyEntry: the next board, or the same board and a failure.
ApplyEntry(a, e) ==
  LET b == a.board
      result == Apply(b.doc, e.command)
  IN  CASE ~a.ok \/ e.sequence # b.sequence + 1 -> [a EXCEPT !.ok = FALSE]
        [] a.ok /\ e.sequence = b.sequence + 1 /\ e.control ->
             [a EXCEPT !.board = [doc |-> AdvanceInteraction(b.doc),
                                  sequence |-> e.sequence, access |-> e.access]]
        [] OTHER ->
             IF result.status \in {"Applied", "Duplicate"}
             THEN [a EXCEPT !.board = [b EXCEPT !.doc = result.doc, !.sequence = e.sequence]]
             ELSE [a EXCEPT !.ok = FALSE]

ApplyEntries(b, entries) == FoldLeft(ApplyEntry, [ok |-> TRUE, board |-> b], entries)

\* What r still waits for once it has seen these entries up to sequence n.
StillPending(r, entries, n) ==
  {c \in pending[r] : \A i \in DOMAIN entries :
     entries[i].sequence <= n /\ ~entries[i].control => entries[i].command.id # c.id}

Deliver(r, kind) ==
  /\ down[r] # <<>> /\ Head(down[r]).kind = kind
  /\ Listening(r)
  /\ down' = [down EXCEPT ![r] = Tail(@)]

\* requestSync, with the board that the handler leaves.
RequestSync(r, b) ==
  /\ up' = [up EXCEPT ![r] = SendUp(r, @, <<SyncRequest(b)>>)]
  /\ state' = [state EXCEPT ![r] = "synchronizing"]

IsReady(r) == state' = [state EXCEPT ![r] = "ready"] /\ UNCHANGED up

ReplicaDescriptor(r) ==
  LET m == Head(down[r])
  IN  /\ Deliver(r, "Descriptor")
      /\ IF m.sequence = Sequence(r) /\ m.shown.content = Content(Doc(r))
         THEN /\ board' = [board EXCEPT ![r].access = m.shown.access]
              /\ IsReady(r)
         ELSE RequestSync(r, board[r]) /\ UNCHANGED board
      /\ UNCHANGED <<transport, pending, assembly, authorityVars, budgetVars>>

\* A commit the replica already has only ends the proposal it answers.
ReplicaKnowsCommit(r) ==
  LET e == Head(down[r]).entry
  IN  /\ Deliver(r, "Commit")
      /\ e.sequence <= Sequence(r)
      /\ pending' = [pending EXCEPT ![r] = StillPending(r, <<e>>, Sequence(r))]
      /\ UNCHANGED <<state, board, transport, assembly, up, authorityVars, budgetVars>>

ReplicaCommit(r) ==
  LET e == Head(down[r]).entry
      a == ApplyEntries(board[r], <<e>>)
  IN  /\ Deliver(r, "Commit")
      /\ e.sequence > Sequence(r)
      /\ board' = [board EXCEPT ![r] = a.board]
      /\ pending' = [pending EXCEPT ![r] = StillPending(r, <<e>>, a.board.sequence)]
      /\ IF a.ok THEN IsReady(r) ELSE RequestSync(r, a.board)
      /\ UNCHANGED <<transport, assembly, authorityVars, budgetVars>>

\* The entries before the one that fails stay applied.
ReplicaDelta(r) ==
  LET m == Head(down[r])
      a == ApplyEntries(board[r], m.entries)
  IN  /\ Deliver(r, "Delta")
      /\ IF m.base # Sequence(r)
         THEN RequestSync(r, board[r]) /\ UNCHANGED <<board, pending>>
         ELSE /\ board' = [board EXCEPT ![r] = a.board]
              /\ pending' = [pending EXCEPT ![r] =
                               StillPending(r, m.entries, a.board.sequence)]
              /\ IF a.ok THEN IsReady(r) ELSE RequestSync(r, a.board)
      /\ UNCHANGED <<transport, assembly, authorityVars, budgetVars>>

Assembled(r, m) ==
  LET known == /\ assembly[r].base = m.base /\ assembly[r].content = m.content
               /\ assembly[r].received # {}
      old == IF known THEN assembly[r]
             ELSE [base |-> m.base, content |-> m.content, access |-> m.access,
                   received |-> {}]
  IN  [old EXCEPT !.received = @ \cup {m.index}]

\* receiveSnapshot.
ReplicaSnapshot(r) ==
  LET m == Head(down[r])
      s == Assembled(r, m)
  IN  /\ Deliver(r, "SnapshotChunk")
      /\ CASE m.base < Sequence(r) -> UNCHANGED <<state, board, assembly>>
           [] m.base >= Sequence(r) /\ Cardinality(s.received) # ChunkCount(s.content) ->
                assembly' = [assembly EXCEPT ![r] = s] /\ UNCHANGED <<state, board>>
           [] OTHER ->
                /\ assembly' = [assembly EXCEPT ![r] = NoAssembly]
                /\ board' = [board EXCEPT ![r] = [doc |-> Restore(s.content),
                               sequence |-> s.base, access |-> s.access]]
                /\ state' = [state EXCEPT ![r] = "ready"]
      /\ UNCHANGED <<transport, pending, up, authorityVars, budgetVars>>

\* Faulty variant: only a board that is behind asks.
ReplicaHeartbeatIfBehind(r) ==
  /\ Deliver(r, "Heartbeat")
  /\ IF Head(down[r]).sequence > Sequence(r)
     THEN RequestSync(r, board[r])
     ELSE UNCHANGED <<state, up>>
  /\ UNCHANGED <<board, transport, pending, assembly, authorityVars, budgetVars>>

ReplicaHeartbeat(r) ==
  /\ Deliver(r, "Heartbeat")
  /\ IF Head(down[r]).sequence > Sequence(r) \/ state[r] \in {"readonly", "synchronizing"}
     THEN RequestSync(r, board[r])
     ELSE UNCHANGED <<state, up>>
  /\ UNCHANGED <<board, transport, pending, assembly, authorityVars, budgetVars>>

\* Faulty variant: the proposal stays.
ReplicaRejectKeeping(r) ==
  /\ Deliver(r, "Reject")
  /\ UNCHANGED <<state, board, transport, pending, assembly, up, authorityVars,
                 budgetVars>>

ReplicaReject(r) ==
  /\ Deliver(r, "Reject")
  /\ pending' = [pending EXCEPT ![r] = {c \in @ : c.id # Head(down[r]).id}]
  /\ UNCHANGED <<state, board, transport, assembly, up, authorityVars, budgetVars>>

\* receive returns at once: the transport is down, or the board is frozen.
Drop(r) ==
  /\ \/ /\ down[r] # <<>> /\ ~Listening(r)
        /\ down' = [down EXCEPT ![r] = Tail(@)] /\ UNCHANGED up
     \/ /\ up[r] # <<>> /\ ~Listening(Authority)
        /\ up' = [up EXCEPT ![r] = Tail(@)] /\ UNCHANGED down
  /\ UNCHANGED <<state, board, transport, pending, assembly, authorityVars, budgetVars>>

-----------------------------------------------------------------------------
(* Timers.                                                                 *)

Heartbeat ==
  /\ Listening(Authority)
  /\ \A r \in Replicas : down[r] = <<>> /\ (EagerTimers \/ up[r] = <<>>)
  /\ Broadcast(<<[kind |-> "Heartbeat", sequence |-> Sequence(Authority)]>>)
  /\ UNCHANGED <<state, board, transport, pending, assembly, up, authorityVars,
                 budgetVars>>

\* The retries of tick; the order of the proposals is that of their ids.
Retry(r) ==
  /\ Listening(r) /\ up[r] = <<>> /\ (EagerTimers \/ down[r] = <<>>)
  /\ \/ /\ state[r] = "ready" /\ pending[r] # {}
        /\ \E ordered \in [1 .. Cardinality(pending[r]) -> pending[r]] :
             /\ \A i, j \in DOMAIN ordered : i < j => ordered[i].id[2] < ordered[j].id[2]
             /\ up' = [up EXCEPT ![r] = SendUp(r, <<>>, [i \in DOMAIN ordered |->
                         [kind |-> "Propose", command |-> ordered[i]]])]
        /\ state' = [state EXCEPT ![r] =
             IF Cardinality(pending[r]) <= MaxBuffered THEN "ready" ELSE "readonly"]
     \/ state[r] = "synchronizing" /\ RequestSync(r, board[r])
  /\ UNCHANGED <<board, transport, pending, assembly, down, authorityVars, budgetVars>>

\* The replica has heard nothing for AuthorityTimeoutMs.
AuthoritySilent(r) ==
  /\ Listening(r) /\ state[r] # "readonly"
  /\ faults < MaxFaults
  /\ faults' = faults + 1
  /\ state' = [state EXCEPT ![r] = "readonly"]
  /\ UNCHANGED <<board, transport, pending, assembly, up, down, authorityVars,
                 issued, controls, joins>>

-----------------------------------------------------------------------------
(* The room: participants come and go, connections break.                  *)

\* The constructor and start: Discover asks as SyncRequest does.
Join(r) ==
  /\ state[r] = "retired" /\ InSession(Authority)
  /\ joins < MaxJoins
  /\ joins' = joins + 1
  /\ state' = [state EXCEPT ![r] = "synchronizing"]
  /\ up' = [up EXCEPT ![r] = <<SyncRequest(NewBoard)>>]
  /\ UNCHANGED <<board, transport, pending, assembly, down, authorityVars, issued,
                 controls, faults>>

\* The session of a replica ends, by a crash or by leaving: retire.  What
\* is in flight is for a participant instance that is no longer current,
\* and the runtime of the next session starts from nothing.
Leave(r) ==
  /\ InSession(r)
  /\ state' = [state EXCEPT ![r] = "retired"]
  /\ board' = [board EXCEPT ![r] = NewBoard]
  /\ transport' = [transport EXCEPT ![r] = TRUE]
  /\ pending' = [pending EXCEPT ![r] = {}]
  /\ assembly' = [assembly EXCEPT ![r] = NoAssembly]
  /\ up' = [up EXCEPT ![r] = <<>>] /\ down' = [down EXCEPT ![r] = <<>>]
  /\ UNCHANGED <<authorityVars, budgetVars>>

AuthorityLeaves ==
  /\ InSession(Authority)
  /\ state' = [state EXCEPT ![Authority] = "retired"]
  /\ up' = [r \in Replicas |-> <<>>]
  /\ log' = <<>> /\ proposals' = <<>>
  /\ UNCHANGED <<board, transport, pending, assembly, down, commits, past, budgetVars>>

\* peerLeft, for the authority.
PeerLeft(r) ==
  /\ ~InSession(Authority)
  /\ state[r] \notin {"retired", "frozen"}
  /\ state' = [state EXCEPT ![r] = "frozen"]
  /\ UNCHANGED <<board, transport, pending, assembly, up, down, authorityVars,
                 budgetVars>>

\* setTransportReady(false); a full reconnect also loses what is in flight.
Interrupted(p) ==
  /\ InSession(p) /\ transport[p]
  /\ faults < MaxFaults
  /\ faults' = faults + 1
  /\ transport' = [transport EXCEPT ![p] = FALSE]
  /\ state' = [state EXCEPT ![p] = IF @ = "frozen" THEN @ ELSE "readonly"]
  /\ \/ UNCHANGED <<up, down>>
     \/ LET cut == IF p = Authority THEN Replicas ELSE {p}
        IN  /\ up' = [r \in Replicas |-> IF r \in cut THEN <<>> ELSE up[r]]
            /\ down' = [r \in Replicas |-> IF r \in cut THEN <<>> ELSE down[r]]
  /\ UNCHANGED <<board, pending, assembly, authorityVars, issued, controls, joins>>

\* setTransportReady(true).
AuthorityReconnected ==
  /\ InSession(Authority) /\ ~transport[Authority]
  /\ transport' = [transport EXCEPT ![Authority] = TRUE]
  /\ state' = [state EXCEPT ![Authority] = "ready"]
  /\ down' = [r \in Replicas |-> IF InSession(r)
       THEN Buffer(down[r], <<Descriptor(board[Authority])>>) ELSE down[r]]
  /\ UNCHANGED <<board, pending, assembly, up, authorityVars, budgetVars>>

ReplicaReconnected(r) ==
  /\ InSession(r) /\ ~transport[r]
  /\ transport' = [transport EXCEPT ![r] = TRUE]
  /\ IF state[r] = "frozen"
     THEN UNCHANGED <<state, up>>
     ELSE /\ state' = [state EXCEPT ![r] = "synchronizing"]
          /\ up' = [up EXCEPT ![r] = IF InSession(Authority)
                      THEN Buffer(@, <<SyncRequest(board[r])>>) ELSE @]
  /\ UNCHANGED <<board, pending, assembly, down, authorityVars, budgetVars>>

-----------------------------------------------------------------------------

AuthorityReceives(r) ==
  AuthoritySyncs(r) \/ AuthorityRepeats(r) \/ AuthorityCommits(r) \/ AuthorityRejects(r)

ReplicaReceives(r) ==
  \/ ReplicaDescriptor(r) \/ ReplicaKnowsCommit(r) \/ ReplicaCommit(r)
  \/ ReplicaDelta(r) \/ ReplicaSnapshot(r) \/ ReplicaHeartbeat(r) \/ ReplicaReject(r)

ReplicaNext(r) ==
  \/ \E c \in CommandsOf(r) : ProposeRemotely(r, c)
  \/ AuthorityReceives(r) \/ ReplicaReceives(r) \/ Drop(r)
  \/ Retry(r) \/ AuthoritySilent(r)
  \/ Join(r) \/ Leave(r) \/ PeerLeft(r) \/ ReplicaReconnected(r)

AuthorityNext ==
  \/ \E c \in CommandsOf(Authority) : ProposeLocally(c)
  \/ SetLocked \/ SetWriters \/ Heartbeat
  \/ AuthorityLeaves \/ AuthorityReconnected

Next ==
  \/ AuthorityNext
  \/ \E r \in Replicas : ReplicaNext(r)
  \/ \E p \in Participants : Interrupted(p)

Spec == Init /\ [][Next]_vars

\* What the strands, the timers and the room keep doing; users and faults
\* do as they like.  A timer whose link is idle again and again fires.
Fairness ==
  /\ SF_vars(Heartbeat) /\ WF_vars(AuthorityReconnected)
  /\ \A r \in Replicas :
       /\ WF_vars(AuthorityReceives(r)) /\ WF_vars(ReplicaReceives(r))
       /\ WF_vars(Drop(r)) /\ SF_vars(Retry(r))
       /\ WF_vars(PeerLeft(r)) /\ WF_vars(ReplicaReconnected(r))

FairSpec == Spec /\ Fairness

-----------------------------------------------------------------------------
(* Properties.                                                             *)

TypeOK ==
  /\ state \in [Participants ->
       {"synchronizing", "ready", "readonly", "frozen", "retired"}]
  /\ transport \in [Participants -> BOOLEAN]
  /\ \A p \in Participants : board[p].sequence \in Nat
  /\ Len(past) = Len(commits) + 1
  /\ Len(log) <= MaxLogEntries /\ Len(proposals) <= MaxProposals
  /\ \A r \in Replicas :
       Len(up[r]) <= MaxBuffered /\ Len(down[r]) <= MaxBuffered

\* Whatever was lost, repeated, reordered by a recovery or restored from a
\* snapshot, a board at sequence n shows exactly what the authority showed
\* at n: the same objects in the same order and the same permissions.
\* (applyEntry, receiveSnapshot, the Descriptor case of receive)
Agreement == \A p \in Participants : Shown(board[p]) = past[board[p].sequence + 1]

\* A proposal is committed at most once, however often it was sent, even
\* when the authority no longer remembers it.  (commitProposal, proposals_,
\* acceptedCommands_)
CommittedOnce ==
  \A m, n \in DOMAIN commits :
    (m # n /\ ~commits[m].control /\ ~commits[n].control)
      => commits[m].command.id # commits[n].command.id

IsBarrier(e) ==
  e.control \/ e.command.kind \in {"Clear", "SetBackground", "AddPage",
                                   "AddImagePage", "SelectPage"}

\* A command never crosses a change of the permissions, of the page or of
\* its contents: nothing of the kind was committed between the board it was
\* built on and its own commit.  (setLocked, setWriters, Document::apply)
BarrierRespected ==
  \A n \in DOMAIN commits : ~commits[n].control =>
    \A m \in DOMAIN commits :
      (commits[n].command.builtAt < m /\ m < n) => ~IsBarrier(commits[m])

\* The next entry undoes or redoes something the replica has no history of.
HistoryGap(r) ==
  LET next == commits[Sequence(r) + 1]
  IN  /\ Sequence(r) < Len(commits)
      /\ ~next.control /\ next.command.kind \in {"Undo", "Redo"}
      /\ Apply(Doc(r), next.command).status = "NoChange"

\* The snapshot of the authority cannot be sent.
SnapshotStuck ==
  LET content == Content(Doc(Authority))
  IN  \E i \in 1 .. ChunkCount(content) : ~Encodable(content, i)

InRoom(r) == InSession(Authority) /\ state[r] \notin {"retired", "frozen"}
UpToDate(r) == state[r] = "ready" /\ Sequence(r) = Sequence(Authority)

\* A replica that stays in the room with the authority ends up ready and up
\* to date, unless it is stopped for good by one of two known gaps.
\* (requestSync, sendRecovery, tick)
CatchesUpOrIsStuck ==
  \A r \in Replicas :
    <>[]InRoom(r) => <>[](UpToDate(r) \/ HistoryGap(r) \/ SnapshotStuck)

\* Such a replica always ends up ready and up to date.  The tests of the
\* collaboration require it of late joiners and after a lost commit.
LateJoinerCatchesUp ==
  \A r \in Replicas : <>[]InRoom(r) => <>[]UpToDate(r)

\* A proposal does not stay pending: it is committed or rejected, or its
\* replica is out of the room or stuck.  (tick, Reject, commitProposal)
ProposalEnds ==
  \A r \in Replicas : \A n \in 1 .. MaxIssued[r] :
    (\E c \in pending[r] : c.id = <<r, n>>)
      ~> (\/ \A c \in pending[r] : c.id # <<r, n>>
          \/ ~InRoom(r) \/ HistoryGap(r) \/ SnapshotStuck)

=============================================================================
