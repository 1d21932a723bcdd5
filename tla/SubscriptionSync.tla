--------------------------- MODULE SubscriptionSync ---------------------------
(* What the room wants of the remote tracks, and how the server learns of it *)
(* (room.cpp: remote publication controls, the media plan, the subscription  *)
(* drain, the barrier of a recovery).  An intent is what is wanted; a change *)
(* is queued as a pending update of its track, and one coroutine sends the   *)
(* updates while the room is Connected.  A Close raises the barrier and      *)
(* queues everything again; the SyncState of a resume carries the            *)
(* subscriptions, not the settings; a full restart joins a server that knows *)
(* neither.                                                                  *)
(*                                                                           *)
(* Everything runs under room_mutex_; each action is one such section, or    *)
(* what one coroutine does between two suspensions.                          *)
(*****************************************************************************)
EXTENDS Naturals, FiniteSets

CONSTANTS Tracks,        \* remote publications, there all the time
          Video,         \* those of video: only they have settings
          MaxRevision,   \* bound: revisions of an intent
          MaxFaults      \* bound: links that break, and ICE connections

ASSUME SubscriptionAssumption ==
  /\ Video \subseteq Tracks
  /\ MaxRevision \in Nat /\ MaxFaults \in Nat

VARIABLES
  room,       \* "Connected", "Reconnecting", "Restarting", or "Rejoined": the
              \* connect of a full restart has committed, the restart has not
  intents,    \* subscription_intents_
  pending,    \* pending_subscription_updates_
  barrier,    \* subscription_recovery_barrier_
  sender,     \* subscription_sender_active_
  drains,     \* coroutines of DrainSubscriptionUpdates, current or replaced
  plan,       \* remote_media_plan_active_
  recovering, \* remote_media_recovery_pending_
  snapshot,   \* the SyncState of the resume, and whether it was sent
  link,       \* the WebSocket: "open", "broken" and not noticed, or "down"
  server,     \* what the server does for each track
  synced,     \* the server has got the join or the SyncState of this link
  overtaken,  \* history: tracks whose update a replaced drain called sent
  faults      \* what MaxFaults counts

recoveryVars == <<room, plan, recovering, snapshot>>
serverVars == <<link, server, synced, faults>>
vars == <<recoveryVars, intents, pending, barrier, sender, drains, serverVars,
          overtaken>>

Settings == [enabled : BOOLEAN, quality : {"off", "high"}]
DefaultSettings == [enabled |-> TRUE, quality |-> "high"]
HeldEmpty == [enabled |-> FALSE, quality |-> "off"]

NoUpdate == [subscribed |-> FALSE, settings |-> HeldEmpty, revision |-> 0,
             subscriptionDirty |-> FALSE, settingsDirty |-> FALSE]
NoSnapshot == [phase |-> "none", wanted |-> [k \in Tracks |-> FALSE],
               revisions |-> [k \in Tracks |-> 0]]

\* EnsureSubscriptionIntentLocked with auto_subscribe.
DefaultIntent ==
  [subscribed |-> TRUE, settings |-> DefaultSettings, revision |-> 0,
   sent |-> TRUE, subscriptionDirty |-> FALSE, settingsDirty |-> FALSE]

Init ==
  /\ room = "Connected"
  /\ intents = [k \in Tracks |-> DefaultIntent]
  /\ pending = [k \in Tracks |-> NoUpdate]
  /\ barrier = FALSE /\ sender = FALSE /\ drains = {}
  /\ plan = FALSE /\ recovering = FALSE /\ snapshot = NoSnapshot
  /\ link = "open" /\ synced = TRUE
  /\ server = [k \in Tracks |-> [subscribed |-> TRUE, settings |-> DefaultSettings]]
  /\ overtaken = {} /\ faults = 0

-----------------------------------------------------------------------------
(* Queueing.                                                               *)

Dirty(intent) == intent.subscriptionDirty \/ intent.settingsDirty

UpdateOf(intent) ==
  [subscribed |-> intent.subscribed, settings |-> intent.settings,
   revision |-> intent.revision, subscriptionDirty |-> intent.subscriptionDirty,
   settingsDirty |-> intent.settingsDirty]

\* QueueSubscriptionUpdateLocked of the tracks in keys: one update per track,
\* the newest revision, with the flags of an older one of that revision kept.
Queued(keys, wanted) ==
  [k \in Tracks |->
     IF k \notin keys \/ ~Dirty(wanted[k]) THEN pending[k]
     ELSE IF pending[k] = NoUpdate \/ pending[k].revision # wanted[k].revision
     THEN UpdateOf(wanted[k])
     ELSE [pending[k] EXCEPT
             !.subscriptionDirty = @ \/ wanted[k].subscriptionDirty,
             !.settingsDirty = @ \/ wanted[k].settingsDirty]]

Drain(current) ==
  [pc |-> "ready", current |-> current, key |-> "none", update |-> NoUpdate,
   withSettings |-> FALSE]

\* A new operation number, or another session, makes every coroutine a
\* replaced one.
Replaced(tasks) == {[d EXCEPT !.current = FALSE] : d \in tasks}

\* ScheduleSubscriptionDrainLocked, in the state its caller leaves.
Schedule(updates, isConnected, barred, active, tasks) ==
  IF /\ ~active /\ ~barred /\ isConnected
     /\ \E k \in Tracks : updates[k] # NoUpdate
  THEN sender' = TRUE /\ drains' = Replaced(tasks) \cup {Drain(TRUE)}
  ELSE sender' = active /\ drains' = tasks

InSession == room \in {"Connected", "Rejoined"}

\* The intents change and those in keys are queued.
Change(keys, wanted) ==
  /\ intents' = wanted
  /\ pending' = Queued(keys, wanted)
  /\ Schedule(pending', InSession, barrier, sender, drains)
  /\ UNCHANGED overtaken

-----------------------------------------------------------------------------
(* What changes an intent.  Controls are rejected while the room restarts.   *)

MayChange(keys) ==
  /\ room # "Restarting"
  /\ \A k \in keys : intents[k].revision < MaxRevision

\* QueueRemotePublicationControl, a subscription.  The update it replaces is
\* cancelled first; it had an older revision.
SetSubscribed(k, subscribed) ==
  /\ MayChange({k})
  /\ Change({k}, [intents EXCEPT ![k] =
       [intents[k] EXCEPT !.subscribed = subscribed,
                          !.settings.enabled = IF k \in Video THEN subscribed ELSE @,
                          !.settingsDirty = @ \/ k \in Video,
                          !.subscriptionDirty = TRUE,
                          !.revision = @ + 1]])
  /\ UNCHANGED <<recoveryVars, barrier, serverVars>>

\* QueueRemotePublicationControl, settings.
SetSettings(k, settings) ==
  /\ k \in Video /\ MayChange({k})
  /\ Change({k}, [intents EXCEPT ![k] =
       [intents[k] EXCEPT !.settings = settings, !.settingsDirty = TRUE,
                          !.revision = @ + 1]])
  /\ UNCHANGED <<recoveryVars, barrier, serverVars>>

\* An intent under a plan that selects the track or not.
Planned(k, selected) ==
  LET old == intents[k]
      settings == CASE k \notin Video -> old.settings
                    [] k \in Video /\ selected -> DefaultSettings
                    [] OTHER -> HeldEmpty
  IN  IF selected = old.subscribed /\ settings = old.settings THEN old
      ELSE [subscribed |-> selected, settings |-> settings,
            revision |-> old.revision + 1, sent |-> old.sent,
            subscriptionDirty |-> selected # old.subscribed
                                  \/ old.subscriptionDirty \/ old.sent # selected,
            settingsDirty |-> settings # old.settings \/ old.settingsDirty]

\* ApplyRemoteMediaPlan: tracks that do not change are not queued.
ApplyRemoteMediaPlan(selection) ==
  LET wanted == [k \in Tracks |-> Planned(k, k \in selection)]
      changed == {k \in Tracks : wanted[k] # intents[k]}
  IN  /\ room # "Restarting"
      /\ \A k \in changed : intents[k].revision < MaxRevision
      /\ Change(changed, wanted)
  /\ plan' = TRUE /\ recovering' = FALSE
  /\ UNCHANGED <<room, snapshot, barrier, serverVars>>

\* OnIceConnected: under a plan the settings of subscribed video go out again.
OnIceConnected ==
  LET video == {k \in Video : intents[k].subscribed}
  IN  /\ room # "Restarting" /\ faults < MaxFaults
      /\ Change(video, [k \in Tracks |->
           [intents[k] EXCEPT !.settingsDirty = @ \/ (plan /\ k \in video)]])
  /\ faults' = faults + 1
  /\ UNCHANGED <<recoveryVars, barrier, link, server, synced>>

-----------------------------------------------------------------------------
(* The drain.                                                              *)

\* The order in which updates are sent: what is no longer wanted first, then
\* settings before the subscription they are for.
Phase(k) ==
  LET update == pending[k]
  IN  IF update.settingsDirty
      THEN IF ~update.subscribed THEN 0 ELSE IF intents[k].sent THEN 2 ELSE 3
      ELSE IF ~update.subscriptionDirty THEN 5 ELSE IF update.subscribed THEN 4 ELSE 1

Selected(k) ==
  /\ pending[k] # NoUpdate /\ Phase(k) # 5
  /\ \A other \in Tracks : pending[other] # NoUpdate => Phase(k) <= Phase(other)

\* Faulty variant: a coroutine that ends still counts as the sender.
DrainEndsActive(d) ==
  /\ d.pc = "ready"
  /\ ~d.current \/ ~sender \/ barrier \/ ~InSession \/ \A k \in Tracks : ~Selected(k)
  /\ drains' = drains \ {d}
  /\ UNCHANGED <<recoveryVars, intents, pending, barrier, sender, serverVars, overtaken>>

\* The round of a coroutine that has been replaced, or finds nothing to send.
DrainEnds(d) ==
  /\ d.pc = "ready"
  /\ \/ /\ ~d.current \/ ~sender \/ barrier
        /\ UNCHANGED sender
     \/ /\ d.current /\ sender /\ ~barrier
        /\ ~InSession \/ \A k \in Tracks : ~Selected(k)
        /\ sender' = FALSE
  /\ drains' = drains \ {d}
  /\ UNCHANGED <<recoveryVars, intents, pending, barrier, serverVars, overtaken>>

\* A round that sends: the update is in SendAsync, one hop to the strand of the
\* socket and back.
DrainSends(d, k) ==
  /\ d.pc = "ready" /\ d.current /\ sender /\ ~barrier /\ InSession
  /\ Selected(k) /\ link # "down"
  /\ drains' = (drains \ {d}) \cup
       {[d EXCEPT !.pc = "sending", !.key = k, !.update = pending[k],
                  !.withSettings = Phase(k) \in {0, 2, 3}]}
  /\ UNCHANGED <<recoveryVars, intents, pending, barrier, sender, serverVars, overtaken>>

\* SendAsync throws.  The update is queued anew while this coroutine still
\* counts as the sender: nobody is left to send it.
DrainThrows(d, k) ==
  /\ d.pc = "ready" /\ d.current /\ sender /\ ~barrier /\ InSession
  /\ Selected(k) /\ link = "down"
  /\ pending' = [pending EXCEPT ![k] =
                   IF Dirty(intents[k]) THEN UpdateOf(intents[k]) ELSE NoUpdate]
  /\ sender' = FALSE /\ drains' = drains \ {d}
  /\ UNCHANGED <<recoveryVars, intents, barrier, serverVars, overtaken>>

\* Faulty variant: any pending update of the track is taken for the one sent.
IsPendingAnyRevision(d) == pending[d.key] # NoUpdate

\* current_pending
IsPending(d) ==
  pending[d.key] # NoUpdate /\ pending[d.key].revision = d.update.revision

\* The intent and the update without the flag of what was sent.
Recorded(d, intent) ==
  IF intent.revision # d.update.revision THEN intent
  ELSE IF d.withSettings THEN [intent EXCEPT !.settingsDirty = FALSE]
  ELSE [intent EXCEPT !.subscriptionDirty = FALSE, !.sent = d.update.subscribed]

\* Faulty variant: the update stays although all of it is sent.
SentKeeping(d, update) ==
  IF d.withSettings THEN [update EXCEPT !.settingsDirty = FALSE]
  ELSE [update EXCEPT !.subscriptionDirty = FALSE]

Sent(d, update) ==
  LET rest == IF d.withSettings THEN [update EXCEPT !.settingsDirty = FALSE]
              ELSE [update EXCEPT !.subscriptionDirty = FALSE]
  IN  IF Dirty(rest) THEN rest ELSE NoUpdate

\* The frame is written, to the server or into a dead socket, and what was sent
\* is recorded without asking who the sender is now.
DrainSent(d) ==
  /\ d.pc = "sending"
  /\ server' =
       IF link # "open" THEN server
       ELSE IF d.withSettings
       THEN [server EXCEPT ![d.key].settings = d.update.settings]
       ELSE [server EXCEPT ![d.key].subscribed = d.update.subscribed]
  /\ IF IsPending(d)
     THEN /\ intents' = [intents EXCEPT ![d.key] = Recorded(d, @)]
          /\ pending' = [pending EXCEPT ![d.key] = Sent(d, @)]
          /\ overtaken' = IF d.current THEN overtaken ELSE overtaken \cup {d.key}
     ELSE UNCHANGED <<intents, pending, overtaken>>
  /\ drains' = (drains \ {d}) \cup {Drain(d.current)}
  /\ UNCHANGED <<recoveryVars, barrier, sender, link, synced, faults>>

-----------------------------------------------------------------------------
(* The connection.                                                         *)

LinkBreaks ==
  /\ link = "open" /\ faults < MaxFaults /\ room # "Rejoined"
  /\ link' = "broken" /\ faults' = faults + 1
  /\ UNCHANGED <<recoveryVars, intents, pending, barrier, sender, drains, server, synced,
                 overtaken>>

Paused(k) ==
  [intents[k] EXCEPT !.subscriptionDirty = TRUE, !.settingsDirty = @ \/ k \in Video]

\* A Close.  Of a Connected room it starts a recovery, with the barrier up and
\* everything queued again (PauseSubscriptionSendingLocked); otherwise it is
\* ignored.
Close ==
  /\ link = "broken" /\ room # "Rejoined"
  /\ link' = "down" /\ synced' = FALSE
  /\ IF room = "Connected"
     THEN /\ room' = "Reconnecting"
          /\ barrier' = TRUE /\ sender' = FALSE /\ drains' = Replaced(drains)
          /\ intents' = [k \in Tracks |-> Paused(k)]
          /\ pending' = Queued(Tracks, intents')
          /\ recovering' = plan
          /\ overtaken' = {}
     ELSE UNCHANGED <<room, barrier, sender, drains, intents, pending, recovering,
                      overtaken>>
  /\ UNCHANGED <<plan, snapshot, server, faults>>

\* WaitForRemoteMediaRecoveryHandshake: without a new plan in time the demand
\* for video is held empty.
HandshakeTimesOut ==
  LET held == {k \in Video : intents[k].subscribed \/ intents[k].settings # HeldEmpty}
  IN  /\ room = "Reconnecting" /\ recovering /\ snapshot = NoSnapshot
      /\ \A k \in held : intents[k].revision < MaxRevision
      /\ Change(held, [k \in Tracks |->
           IF k \notin held THEN intents[k]
           ELSE [subscribed |-> FALSE, settings |-> HeldEmpty,
                 revision |-> intents[k].revision + 1, sent |-> intents[k].sent,
                 subscriptionDirty |-> intents[k].subscriptionDirty \/ intents[k].sent,
                 settingsDirty |-> TRUE]])
  /\ recovering' = FALSE
  /\ UNCHANGED <<room, plan, snapshot, barrier, serverVars>>

\* The new stream is there and BuildSyncState has read the intents.  Coroutines
\* that were in a hop have run long before.
BuildSyncState ==
  /\ room = "Reconnecting" /\ ~recovering /\ snapshot = NoSnapshot
  /\ drains = {}
  /\ snapshot' = [phase |-> "taken",
                  wanted |-> [k \in Tracks |-> intents[k].subscribed],
                  revisions |-> [k \in Tracks |-> intents[k].revision]]
  /\ link' = "open"
  /\ UNCHANGED <<room, plan, recovering, intents, pending, barrier, sender, drains,
                 server, synced, overtaken, faults>>

\* The server takes every subscription from SyncState.
SendSyncState ==
  /\ room = "Reconnecting" /\ snapshot.phase = "taken"
  /\ snapshot' = [snapshot EXCEPT !.phase = "sent"]
  /\ IF link = "open"
     THEN /\ server' = [k \in Tracks |->
                          [server[k] EXCEPT !.subscribed = snapshot.wanted[k]]]
          /\ synced' = TRUE
     ELSE UNCHANGED <<server, synced>>
  /\ UNCHANGED <<room, plan, recovering, intents, pending, barrier, sender, drains, link,
                 overtaken, faults>>

\* What SyncState told the server, unless the intent has changed since.
SyncCovers(k) ==
  /\ pending[k] # NoUpdate
  /\ pending[k].revision = snapshot.revisions[k]
  /\ intents[k].revision = snapshot.revisions[k]

\* Faulty variant: SyncState is sent by a coroutine nobody waits for.
ResumeCommitsEarly ==
  /\ room = "Reconnecting" /\ snapshot.phase # "none"
  /\ room' = "Connected" /\ barrier' = FALSE /\ snapshot' = NoSnapshot
  /\ Schedule(pending, TRUE, FALSE, sender, drains)
  /\ UNCHANGED <<plan, recovering, intents, pending, serverVars, overtaken>>

\* The resume commits: FinishSubscriptionRecoveryLocked, and the drain starts.
ResumeCommits ==
  /\ room = "Reconnecting" /\ snapshot.phase = "sent"
  /\ room' = "Connected" /\ barrier' = FALSE /\ snapshot' = NoSnapshot
  /\ LET done == {k \in Tracks : SyncCovers(k) /\ pending[k].subscriptionDirty}
     IN  /\ intents' = [k \in Tracks |->
              IF k \notin done THEN intents[k]
              ELSE [intents[k] EXCEPT !.subscriptionDirty = FALSE, !.sent = intents[k].subscribed]]
         /\ pending' = [k \in Tracks |->
              IF ~SyncCovers(k) THEN pending[k]
              ELSE IF pending[k].settingsDirty
              THEN [pending[k] EXCEPT !.subscriptionDirty = FALSE] ELSE NoUpdate]
  /\ Schedule(pending', TRUE, FALSE, sender, drains)
  /\ UNCHANGED <<plan, recovering, serverVars, overtaken>>

\* The resume fails and a full restart takes the session down.
FullRestart ==
  /\ room = "Reconnecting"
  /\ room' = "Restarting" /\ snapshot' = NoSnapshot
  /\ link' = "down" /\ synced' = FALSE
  /\ UNCHANGED <<plan, recovering, intents, pending, barrier, sender, drains, server,
                 overtaken, faults>>

\* The connect of the restart.  A room with another sid has new intents; the
\* barrier stays up until the restart is done (ResetSubscriptionSessionLocked).
Rejoin(sameRoom) ==
  /\ room = "Restarting" /\ drains = {}
  /\ room' = "Rejoined" /\ link' = "open" /\ synced' = TRUE
  /\ server' = [k \in Tracks |-> [subscribed |-> TRUE, settings |-> DefaultSettings]]
  /\ IF sameRoom THEN UNCHANGED <<intents, pending, plan, recovering, overtaken>>
     ELSE /\ intents' = [k \in Tracks |-> DefaultIntent]
          /\ pending' = [k \in Tracks |-> NoUpdate]
          /\ plan' = FALSE /\ recovering' = FALSE /\ overtaken' = {}
  /\ UNCHANGED <<snapshot, barrier, sender, drains, faults>>

RestartCommits ==
  /\ room = "Rejoined"
  /\ room' = "Connected" /\ barrier' = FALSE
  /\ Schedule(pending, TRUE, FALSE, sender, drains)
  /\ UNCHANGED <<plan, recovering, snapshot, intents, pending, serverVars, overtaken>>

-----------------------------------------------------------------------------
DrainStep ==
  \E d \in drains : \/ DrainEnds(d) \/ DrainSent(d)
                    \/ \E k \in Tracks : DrainSends(d, k) \/ DrainThrows(d, k)

Next ==
  \/ \E k \in Tracks, subscribed \in BOOLEAN : SetSubscribed(k, subscribed)
  \/ \E k \in Tracks, settings \in Settings : SetSettings(k, settings)
  \/ \E selection \in SUBSET Tracks : ApplyRemoteMediaPlan(selection)
  \/ OnIceConnected
  \/ DrainStep
  \/ LinkBreaks \/ Close \/ HandshakeTimesOut
  \/ BuildSyncState \/ SendSyncState \/ ResumeCommits
  \/ FullRestart \/ \E sameRoom \in BOOLEAN : Rejoin(sameRoom)
  \/ RestartCommits

Spec == Init /\ [][Next]_vars

\* The I/O thread runs the coroutines that are ready.
Fairness == WF_vars(DrainStep)
FairSpec == Spec /\ Fairness

-----------------------------------------------------------------------------
(* Properties.                                                             *)

\* Types of all variables.
TypeOK ==
  /\ room \in {"Connected", "Reconnecting", "Restarting", "Rejoined"}
  /\ intents \in [Tracks -> [subscribed : BOOLEAN, settings : Settings, revision : Nat,
                             sent : BOOLEAN, subscriptionDirty : BOOLEAN,
                             settingsDirty : BOOLEAN]]
  /\ \A k \in Tracks : pending[k] # NoUpdate => Dirty(pending[k])
  /\ {barrier, sender, plan, recovering, synced} \subseteq BOOLEAN
  /\ link \in {"open", "broken", "down"}
  /\ server \in [Tracks -> [subscribed : BOOLEAN, settings : Settings]]
  /\ overtaken \subseteq Tracks /\ faults \in Nat

\* Nothing is left to send and nothing under way over an open connection.
Quiet ==
  /\ room = "Connected" /\ link = "open" /\ drains = {}
  /\ \A k \in Tracks : pending[k] = NoUpdate

Agrees(k) ==
  /\ server[k].subscribed = intents[k].subscribed
  /\ k \in Video /\ intents[k].subscribed => server[k].settings = intents[k].settings

\* When all is sent the server does what the room wants, whatever was changed,
\* lost, synced and sent again meanwhile; unless a replaced drain has called
\* sent what a dying socket lost.
ServerFollowsOrOvertaken == Quiet => \A k \in Tracks \ overtaken : Agrees(k)

\* When all is sent the server does what the room wants.
ServerFollowsIntent == Quiet => \A k \in Tracks : Agrees(k)

\* No update reaches a server that has not got the SyncState of this
\* connection: it would apply it to the session before the loss.
SyncBeforeUpdates == [][server' # server => synced']_vars

\* An update is sent, or the connection is lost.
UpdatesDrain ==
  \A k \in Tracks : pending[k] # NoUpdate
                      ~> (pending[k] = NoUpdate \/ room # "Connected" \/ link # "open")

=============================================================================
