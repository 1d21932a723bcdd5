----------------------- MODULE SubscriptionSync_proofs -----------------------
(* Proofs about SubscriptionSync, for any tracks and any bounds.             *)
EXTENDS SubscriptionSync, TLAPS

\* A session over an open link has got its join or its SyncState, and so has
\* one whose SyncState was sent over it.
SessionIsSynced ==
  link = "open" /\ (InSession \/ snapshot.phase = "sent") => synced

\* The link of a resume is open only after the coroutines of the old one have
\* gone, and a restart has none.
NoDrainIsBehind ==
  /\ room = "Reconnecting" /\ link = "open" => drains = {}
  /\ room = "Restarting" => link = "down"

SyncInv ==
  /\ room \in {"Connected", "Reconnecting", "Restarting", "Rejoined"}
  /\ SessionIsSynced /\ NoDrainIsBehind

-----------------------------------------------------------------------------

\* No drain starts outside of a session.
LEMMA NoneStarts ==
  ASSUME NEW updates, NEW barred, NEW running, NEW active, NEW tasks,
         Schedule(updates, running, barred, active, tasks), ~running
  PROVE  drains' = tasks
BY DEF Schedule

\* An intent that changes starts at most a drain of a session.
LEMMA ChangeKeeps ==
  ASSUME SyncInv, NEW keys, NEW wanted, Change(keys, wanted),
         UNCHANGED <<room, link, synced, snapshot>>
  PROVE  SyncInv'
<1>1. ~InSession => drains' = drains
  BY NoneStarts DEF Change
<1>2. InSession <=> room \notin {"Reconnecting", "Restarting"}
  BY DEF SyncInv, InSession
<1>3. QED
  BY <1>1, <1>2 DEF SyncInv, SessionIsSynced, NoDrainIsBehind, InSession

LEMMA DrainKeeps ==
  ASSUME SyncInv, NEW d \in drains,
         UNCHANGED <<room, link, synced, snapshot>>
  PROVE  SyncInv'
BY DEF SyncInv, SessionIsSynced, NoDrainIsBehind, InSession

LEMMA StepKeeps ==
  ASSUME SyncInv, [Next]_vars
  PROVE  SyncInv'
<1> USE DEF recoveryVars, serverVars
<1>1. CASE \E k \in Tracks, subscribed \in BOOLEAN : SetSubscribed(k, subscribed)
  BY <1>1, ChangeKeeps DEF SetSubscribed
<1>2. CASE \E k \in Tracks, settings \in Settings : SetSettings(k, settings)
  BY <1>2, ChangeKeeps DEF SetSettings
<1>3. CASE \E selection \in SUBSET Tracks : ApplyRemoteMediaPlan(selection)
  BY <1>3, ChangeKeeps DEF ApplyRemoteMediaPlan
<1>4. CASE OnIceConnected
  BY <1>4, ChangeKeeps DEF OnIceConnected
<1>5. CASE DrainStep
  BY <1>5, DrainKeeps DEF DrainStep, DrainEnds, DrainSends, DrainThrows, DrainSent
<1>6. CASE LinkBreaks
  BY <1>6 DEF LinkBreaks, SyncInv, SessionIsSynced, NoDrainIsBehind
<1>7. CASE Close
  BY <1>7 DEF Close, SyncInv, SessionIsSynced, NoDrainIsBehind
<1>8. CASE HandshakeTimesOut
  BY <1>8, ChangeKeeps DEF HandshakeTimesOut
<1>9. CASE BuildSyncState
  BY <1>9 DEF BuildSyncState, SyncInv, SessionIsSynced, NoDrainIsBehind, InSession
<1>10. CASE SendSyncState
  BY <1>10 DEF SendSyncState, SyncInv, SessionIsSynced, NoDrainIsBehind, InSession
<1>11. CASE ResumeCommits
  BY <1>11 DEF ResumeCommits, SyncInv, SessionIsSynced, NoDrainIsBehind, InSession
<1>12. CASE FullRestart
  BY <1>12 DEF FullRestart, SyncInv, SessionIsSynced, NoDrainIsBehind
<1>13. CASE \E sameRoom \in BOOLEAN : Rejoin(sameRoom)
  BY <1>13 DEF Rejoin, SyncInv, SessionIsSynced, NoDrainIsBehind
<1>14. CASE RestartCommits
  BY <1>14 DEF RestartCommits, SyncInv, SessionIsSynced, NoDrainIsBehind, InSession
<1>15. CASE UNCHANGED vars
  BY <1>15 DEF vars, SyncInv, SessionIsSynced, NoDrainIsBehind, InSession
<1>16. QED
  BY <1>1, <1>2, <1>3, <1>4, <1>5, <1>6, <1>7, <1>8, <1>9, <1>10, <1>11, <1>12, <1>13,
     <1>14, <1>15 DEF Next

\* Sessions over open links are synced, for any tracks, intents and faults.
THEOREM SyncInvariant == Spec => []SyncInv
<1>1. Init => SyncInv
  BY DEF Init, SyncInv, SessionIsSynced, NoDrainIsBehind
<1> QED BY <1>1, StepKeeps, PTL DEF Spec

\* Whatever coroutine writes it and however late, an update reaches the server
\* only over a link whose SyncState it has got (DrainSubscriptionUpdates,
\* BuildSyncState).
THEOREM NoUpdateIsEarly == Spec => SyncBeforeUpdates
<1>1. SyncInv /\ [Next]_vars => [server' # server => synced']_vars
  <2>1. SUFFICES ASSUME SyncInv, Next, server' # server
                 PROVE  synced'
    OBVIOUS
  <2>2. CASE \E d \in drains : DrainSent(d)
    BY <2>1, <2>2 DEF DrainSent, SyncInv, SessionIsSynced, NoDrainIsBehind, InSession
  <2>3. CASE SendSyncState
    BY <2>1, <2>3 DEF SendSyncState
  <2>4. CASE \E sameRoom \in BOOLEAN : Rejoin(sameRoom)
    BY <2>4 DEF Rejoin
  <2>5. QED
    BY <2>1, <2>2, <2>3, <2>4 DEF Next, serverVars, SetSubscribed, SetSettings,
       ApplyRemoteMediaPlan, OnIceConnected, DrainStep, DrainEnds, DrainSends, DrainThrows,
       LinkBreaks, Close, HandshakeTimesOut, BuildSyncState, ResumeCommits, FullRestart,
       RestartCommits
<1> QED BY <1>1, SyncInvariant, PTL DEF Spec, SyncBeforeUpdates

-----------------------------------------------------------------------------
(* The inductive invariant of the agreement with the server.                 *)

Intents == [subscribed : BOOLEAN, settings : Settings, revision : Nat, sent : BOOLEAN,
            subscriptionDirty : BOOLEAN, settingsDirty : BOOLEAN]
Updates == [subscribed : BOOLEAN, settings : Settings, revision : Nat,
            subscriptionDirty : BOOLEAN, settingsDirty : BOOLEAN]
Drains == [pc : {"ready", "sending"}, current : BOOLEAN, key : Tracks \cup {"none"},
           update : Updates, withSettings : BOOLEAN]
Snapshots == [phase : {"taken", "sent"}, wanted : [Tracks -> BOOLEAN],
              revisions : [Tracks -> Nat]]

Types ==
  /\ intents \in [Tracks -> Intents]
  /\ server \in [Tracks -> [subscribed : BOOLEAN, settings : Settings]]
  /\ barrier \in BOOLEAN /\ sender \in BOOLEAN /\ plan \in BOOLEAN
  /\ recovering \in BOOLEAN /\ synced \in BOOLEAN
  /\ link \in {"open", "broken", "down"}
  /\ overtaken \subseteq Tracks /\ faults \in Nat
  /\ snapshot = NoSnapshot \/ snapshot \in Snapshots
  /\ drains \subseteq Drains /\ \A d \in drains : d.pc = "sending" => d.key \in Tracks

\* What is pending is what the intents owe the server, no more and no less.
Owing(intent) == IF Dirty(intent) THEN UpdateOf(intent) ELSE NoUpdate
PendingIsOwed == pending = [k \in Tracks |-> Owing(intents[k])]

\* A connected room has at most one drain, the current one; any other room
\* has only those that it has replaced, and none behind a new link.
OneDrain ==
  /\ room = "Connected" => \A d \in drains : d.current /\ sender /\ drains = {d}
  /\ room # "Connected" => barrier /\ ~sender /\ \A d \in drains : ~d.current
  /\ room = "Rejoined" \/ snapshot # NoSnapshot => drains = {}
  /\ room # "Reconnecting" => snapshot = NoSnapshot

\* What a drain sends was the intent of its revision; the flag is there until
\* the current one has recorded it.
InFlight ==
  \A d \in drains : d.pc = "sending" =>
    /\ d.update.revision <= intents[d.key].revision
    /\ d.update.revision = intents[d.key].revision =>
         /\ d.update.subscribed = intents[d.key].subscribed
         /\ d.update.settings = intents[d.key].settings
    /\ d.current /\ d.withSettings => intents[d.key].settingsDirty
    /\ d.current /\ ~d.withSettings => intents[d.key].subscriptionDirty

\* So was what SyncState says.
SnapshotIsOfIntents ==
  snapshot # NoSnapshot => \A k \in Tracks :
    /\ snapshot.revisions[k] <= intents[k].revision
    /\ snapshot.revisions[k] = intents[k].revision =>
         snapshot.wanted[k] = intents[k].subscribed
    /\ snapshot.phase = "sent" /\ link = "open" =>
         server[k].subscribed = snapshot.wanted[k]

\* Until a session is there all has to be sent again.
AllIsOwed ==
  room \in {"Reconnecting", "Restarting"} => \A k \in Tracks \ overtaken :
    intents[k].subscriptionDirty /\ (k \in Video => intents[k].settingsDirty)

\* A session does what is not owed to it.
ServerHasTheRest ==
  InSession /\ link = "open" => \A k \in Tracks \ overtaken :
    /\ ~intents[k].subscriptionDirty => server[k].subscribed = intents[k].subscribed
    /\ k \in Video /\ ~intents[k].settingsDirty => server[k].settings = intents[k].settings

FollowInv ==
  /\ SyncInv /\ Types /\ PendingIsOwed /\ OneDrain
  /\ InFlight /\ SnapshotIsOfIntents /\ AllIsOwed /\ ServerHasTheRest

-----------------------------------------------------------------------------
(* Queueing.                                                                 *)

LEMMA NoUpdateTyped == NoUpdate \in Updates /\ ~Dirty(NoUpdate) /\ HeldEmpty \in Settings
BY DEF NoUpdate, Updates, HeldEmpty, Settings, Dirty

\* An intent of a later revision, or the same with more to send.
Follows(new, old) ==
  /\ new \in Intents
  /\ old.revision <= new.revision
  /\ new.revision = old.revision => new.subscribed = old.subscribed /\ new.settings = old.settings
  /\ old.subscriptionDirty => new.subscriptionDirty
  /\ old.settingsDirty => new.settingsDirty

\* What differs from what the server was told is to be sent.
Honest(k, new, old) ==
  /\ new.subscribed # old.subscribed => new.subscriptionDirty
  /\ k \in Video /\ new.settings # old.settings => new.settingsDirty

LEMMA QueueIsOwed ==
  ASSUME Types, PendingIsOwed, NEW keys, NEW wanted \in [Tracks -> Intents],
         \A k \in Tracks : Follows(wanted[k], intents[k]),
         \A k \in Tracks : k \notin keys => wanted[k] = intents[k]
  PROVE  Queued(keys, wanted) = [k \in Tracks |-> Owing(wanted[k])]
<1> DEFINE queued(k) ==
       IF k \notin keys \/ ~Dirty(wanted[k]) THEN pending[k]
       ELSE IF pending[k] = NoUpdate \/ pending[k].revision # wanted[k].revision
       THEN UpdateOf(wanted[k])
       ELSE [pending[k] EXCEPT
               !.subscriptionDirty = @ \/ wanted[k].subscriptionDirty,
               !.settingsDirty = @ \/ wanted[k].settingsDirty]
<1>1. SUFFICES ASSUME NEW k \in Tracks PROVE queued(k) = Owing(wanted[k])
  BY DEF Queued
<1>2. /\ pending[k] = Owing(intents[k]) /\ intents[k] \in Intents /\ wanted[k] \in Intents
      /\ Follows(wanted[k], intents[k])
  BY DEF PendingIsOwed, Types
<1>3. CASE k \notin keys \/ ~Dirty(wanted[k])
  BY <1>2, <1>3 DEF Owing, Dirty, Follows
<1>4. CASE k \in keys /\ Dirty(wanted[k]) /\ pending[k] # NoUpdate
           /\ pending[k].revision = wanted[k].revision
  <2>1. pending[k] = UpdateOf(intents[k]) /\ intents[k].revision = wanted[k].revision
    BY <1>2, <1>4 DEF Owing, UpdateOf
  <2>2. /\ intents[k].subscribed = wanted[k].subscribed
        /\ intents[k].settings = wanted[k].settings
        /\ (intents[k].subscriptionDirty \/ wanted[k].subscriptionDirty) = wanted[k].subscriptionDirty
        /\ (intents[k].settingsDirty \/ wanted[k].settingsDirty) = wanted[k].settingsDirty
    BY <1>2, <2>1 DEF Follows, Intents
  <2>3. queued(k) = [UpdateOf(intents[k]) EXCEPT
                       !.subscriptionDirty = intents[k].subscriptionDirty \/ wanted[k].subscriptionDirty,
                       !.settingsDirty = intents[k].settingsDirty \/ wanted[k].settingsDirty]
    BY <1>4, <2>1 DEF UpdateOf
  <2>4. queued(k) = UpdateOf(wanted[k])
    BY <2>1, <2>2, <2>3 DEF UpdateOf
  <2>5. QED
    BY <1>4, <2>4 DEF Owing
<1>5. QED
  BY <1>3, <1>4 DEF Owing

LEMMA FollowsItself ==
  ASSUME Types, NEW k \in Tracks
  PROVE  Follows(intents[k], intents[k]) /\ Honest(k, intents[k], intents[k])
BY DEF Types, Follows, Honest, Intents

\* A drain starts in a session that has none.
LEMMA DrainStarts ==
  ASSUME NEW updates, NEW running, NEW barred,
         Schedule(updates, running, barred, sender, drains),
         running /\ ~barred /\ ~sender => drains = {}
  PROVE  \/ drains' = drains /\ sender' = sender
         \/ running /\ ~barred /\ drains' = {Drain(TRUE)} /\ sender' = TRUE
BY DEF Schedule, Replaced

LEMMA DrainTyped == \A current \in BOOLEAN :
  Drain(current) \in Drains /\ Drain(current).pc = "ready" /\ Drain(current).current = current
BY NoUpdateTyped DEF Drain, Drains

-----------------------------------------------------------------------------
(* The intents that the steps leave.                                         *)

\* The next intent of a track.
Later(old, subscribed, settings, subscriptionDirty, settingsDirty) ==
  [subscribed |-> subscribed, settings |-> settings, revision |-> old.revision + 1,
   sent |-> old.sent, subscriptionDirty |-> subscriptionDirty, settingsDirty |-> settingsDirty]

LEMMA IntentFields ==
  ASSUME NEW i \in Intents
  PROVE  /\ i.subscribed \in BOOLEAN /\ i.settings \in Settings /\ i.revision \in Nat
         /\ i.revision + 1 \in Nat /\ i.sent \in BOOLEAN
         /\ i.subscriptionDirty \in BOOLEAN /\ i.settingsDirty \in BOOLEAN
BY DEF Intents

\* The intents of SetSubscribed and SetSettings.
Subscribed(old, subscribed, video) ==
  [old EXCEPT !.subscribed = subscribed,
              !.settings.enabled = IF video THEN subscribed ELSE @,
              !.settingsDirty = @ \/ video,
              !.subscriptionDirty = TRUE,
              !.revision = @ + 1]
Set(old, settings) ==
  [old EXCEPT !.settings = settings, !.settingsDirty = TRUE, !.revision = @ + 1]

LEMMA SubscribedIntent ==
  ASSUME NEW old \in Intents, NEW subscribed \in BOOLEAN, NEW video \in BOOLEAN
  PROVE  LET later == Subscribed(old, subscribed, video)
         IN  /\ later \in Intents /\ later.revision = old.revision + 1
             /\ later.subscriptionDirty /\ (old.settingsDirty \/ video => later.settingsDirty)
             /\ ~video => later.settings = old.settings
<1>1. PICK settings : settings = [old.settings EXCEPT !.enabled = IF video THEN subscribed ELSE @]
  OBVIOUS
<1>2. PICK dirty : dirty = (old.settingsDirty \/ video)
  OBVIOUS
<1>3. Subscribed(old, subscribed, video) =
        [old EXCEPT !.subscribed = subscribed, !.settings = settings,
                    !.settingsDirty = @ \/ video, !.subscriptionDirty = TRUE,
                    !.revision = @ + 1]
  BY <1>1 DEF Intents, Subscribed
<1>4. Subscribed(old, subscribed, video) = Later(old, subscribed, settings, TRUE, dirty)
  BY <1>2, <1>3 DEF Intents, Later
<1>5. settings \in Settings /\ (~video => settings = old.settings)
  BY <1>1, IntentFields DEF Settings
<1>6. dirty \in BOOLEAN /\ (old.settingsDirty \/ video => dirty)
  BY <1>2, IntentFields
<1>7. PICK i : i = Later(old, subscribed, settings, TRUE, dirty)
  OBVIOUS
<1>8. /\ i \in Intents /\ i.settings = settings /\ i.revision = old.revision + 1
      /\ i.subscriptionDirty = TRUE /\ i.settingsDirty = dirty
  BY <1>5, <1>6, <1>7 DEF Intents, Later
<1>9. QED
  BY <1>4, <1>5, <1>6, <1>7, <1>8

LEMMA SettingsIntent ==
  ASSUME NEW old \in Intents, NEW settings \in Settings
  PROVE  LET later == Set(old, settings)
         IN  /\ later \in Intents /\ later.revision = old.revision + 1 /\ later.settingsDirty
             /\ later.subscriptionDirty = old.subscriptionDirty
             /\ later.subscribed = old.subscribed
<1>1. PICK later, revision : later = Set(old, settings) /\ revision = old.revision + 1
  OBVIOUS
<1>2. revision \in Nat
  BY <1>1, IntentFields
<1>3. later = [old EXCEPT !.settings = settings, !.settingsDirty = TRUE, !.revision = revision]
  BY <1>1 DEF Set
<1>4. /\ later \in Intents /\ later.revision = revision /\ later.settingsDirty
      /\ later.subscriptionDirty = old.subscriptionDirty
      /\ later.subscribed = old.subscribed
  BY <1>2, <1>3 DEF Intents
<1>5. QED
  BY <1>1, <1>4

-----------------------------------------------------------------------------
(* The steps.                                                                *)

LEMMA ChangeFollows ==
  ASSUME FollowInv, NEW keys, NEW wanted \in [Tracks -> Intents], Change(keys, wanted),
         \A k \in Tracks : Follows(wanted[k], intents[k]),
         \A k \in Tracks : k \notin keys => wanted[k] = intents[k],
         \A k \in Tracks \ overtaken : Honest(k, wanted[k], intents[k]),
         UNCHANGED <<room, barrier, link, server, synced, snapshot>>,
         plan' \in BOOLEAN, recovering' \in BOOLEAN, faults' \in Nat
  PROVE  FollowInv'
<1>1. SyncInv'
  BY ChangeKeeps DEF FollowInv
<1>2. intents' = wanted /\ overtaken' = overtaken
  BY DEF Change
<1>3. PendingIsOwed'
  BY <1>2, QueueIsOwed DEF FollowInv, Change, PendingIsOwed
<1>4. \/ drains' = drains /\ sender' = sender
      \/ room = "Connected" /\ ~barrier /\ drains' = {Drain(TRUE)} /\ sender' = TRUE
  BY DrainStarts DEF Change, FollowInv, OneDrain
<1>5. Types'
  <2>1. drains' \subseteq Drains /\ \A d \in drains' : d.pc = "sending" => d.key \in Tracks
    BY <1>4, DrainTyped DEF FollowInv, Types
  <2>2. sender' \in BOOLEAN /\ (snapshot = NoSnapshot => snapshot' = NoSnapshot')
    BY <1>4 DEF FollowInv, Types, NoSnapshot
  <2>3. QED
    BY <1>2, <2>1, <2>2 DEF FollowInv, Types
<1>6. OneDrain'
  <2>1. CASE drains' = drains /\ sender' = sender
    BY <2>1 DEF FollowInv, OneDrain, NoSnapshot
  <2>2. CASE room = "Connected" /\ drains' = {Drain(TRUE)} /\ sender' = TRUE
    <3>1. snapshot' = NoSnapshot' /\ Drain(TRUE).current
      BY <2>2, DrainTyped DEF FollowInv, OneDrain, NoSnapshot
    <3>2. QED
      BY <2>2, <3>1 DEF OneDrain
  <2>3. QED
    BY <1>4, <2>1, <2>2
<1>7. InFlight'
  <2>1. SUFFICES ASSUME NEW d \in drains', d.pc = "sending"
                 PROVE  /\ d.update.revision <= wanted[d.key].revision
                        /\ d.update.revision = wanted[d.key].revision =>
                             /\ d.update.subscribed = wanted[d.key].subscribed
                             /\ d.update.settings = wanted[d.key].settings
                        /\ d.current /\ d.withSettings => wanted[d.key].settingsDirty
                        /\ d.current /\ ~d.withSettings => wanted[d.key].subscriptionDirty
    BY <1>2 DEF InFlight
  <2>2. d \in drains /\ d \in Drains /\ d.key \in Tracks /\ d.update.revision \in Nat
    <3>1. d \in drains
      BY <1>4, <2>1, DrainTyped
    <3>2. QED
      BY <2>1, <3>1 DEF FollowInv, Types, Drains, Updates
  <2>3. Follows(wanted[d.key], intents[d.key]) /\ intents[d.key] \in Intents
    BY <2>2 DEF FollowInv, Types
  <2>4. intents[d.key].revision \in Nat /\ wanted[d.key].revision \in Nat
    BY <2>3 DEF Follows, Intents
  <2>5. QED
    BY <2>1, <2>2, <2>3, <2>4 DEF FollowInv, InFlight, Follows
<1>8. SnapshotIsOfIntents'
  <2>1. SUFFICES ASSUME snapshot # NoSnapshot, NEW k \in Tracks
                 PROVE  /\ snapshot.revisions[k] <= wanted[k].revision
                        /\ snapshot.revisions[k] = wanted[k].revision =>
                             snapshot.wanted[k] = wanted[k].subscribed
                        /\ snapshot.phase = "sent" /\ link = "open" =>
                             server[k].subscribed = snapshot.wanted[k]
    <3>1. NoSnapshot' = NoSnapshot
      BY DEF NoSnapshot
    <3>2. QED
      BY <1>2, <3>1 DEF SnapshotIsOfIntents
  <2>2. /\ snapshot.revisions[k] \in Nat /\ intents[k].revision \in Nat
        /\ Follows(wanted[k], intents[k]) /\ wanted[k].revision \in Nat
    BY <2>1 DEF FollowInv, Types, Snapshots, Intents
  <2>3. QED
    BY <2>1, <2>2 DEF FollowInv, SnapshotIsOfIntents, Follows
<1>9. AllIsOwed'
  BY <1>2 DEF FollowInv, AllIsOwed, Follows
<1>10. ServerHasTheRest'
  BY <1>2 DEF FollowInv, ServerHasTheRest, Follows, Honest, InSession
<1>11. QED
  BY <1>1, <1>3, <1>5, <1>6, <1>7, <1>8, <1>9, <1>10 DEF FollowInv

LEMMA OneFollows ==
  ASSUME FollowInv, NEW k \in Tracks, NEW later \in Intents, NEW wanted,
         wanted = [intents EXCEPT ![k] = later], Change({k}, wanted),
         Follows(later, intents[k]), Honest(k, later, intents[k]),
         UNCHANGED <<room, barrier, link, server, synced, snapshot, plan, recovering, faults>>
  PROVE  FollowInv'
<1>1. /\ wanted \in [Tracks -> Intents] /\ wanted[k] = later
      /\ \A other \in Tracks : other # k => wanted[other] = intents[other]
  BY DEF FollowInv, Types
<1>2. \A other \in Tracks : /\ Follows(wanted[other], intents[other])
                            /\ Honest(other, wanted[other], intents[other])
  BY <1>1, FollowsItself DEF FollowInv
<1>3. plan' \in BOOLEAN /\ recovering' \in BOOLEAN /\ faults' \in Nat
  BY DEF FollowInv, Types
<1>4. \A other \in Tracks : other \notin {k} => wanted[other] = intents[other]
  BY <1>1
<1>5. QED
  BY <1>1, <1>2, <1>3, <1>4, ChangeFollows

LEMMA SetSubscribedFollows ==
  ASSUME FollowInv, NEW k \in Tracks, NEW subscribed \in BOOLEAN, SetSubscribed(k, subscribed)
  PROVE  FollowInv'
<1> DEFINE later == Subscribed(intents[k], subscribed, k \in Video)
<1>1. Change({k}, [intents EXCEPT ![k] = later])
  BY Zenon DEF SetSubscribed, Subscribed
<1>2. intents[k] \in Intents /\ (k \in Video) \in BOOLEAN
  BY DEF FollowInv, Types
<1>3. /\ later \in Intents /\ later.revision = intents[k].revision + 1
      /\ later.subscriptionDirty
      /\ intents[k].settingsDirty \/ k \in Video => later.settingsDirty
      /\ k \notin Video => later.settings = intents[k].settings
  BY <1>2, SubscribedIntent
<1>4. Follows(later, intents[k]) /\ Honest(k, later, intents[k])
  BY <1>2, <1>3 DEF Follows, Honest, Intents
<1>5. UNCHANGED <<room, barrier, link, server, synced, snapshot, plan, recovering, faults>>
  BY DEF SetSubscribed, recoveryVars, serverVars
<1> HIDE DEF later
<1>6. QED
  BY <1>1, <1>3, <1>4, <1>5, OneFollows

LEMMA SetSettingsFollows ==
  ASSUME FollowInv, NEW k \in Tracks, NEW settings \in Settings, SetSettings(k, settings)
  PROVE  FollowInv'
<1> DEFINE later == Set(intents[k], settings)
<1>1. Change({k}, [intents EXCEPT ![k] = later])
  BY Zenon DEF SetSettings, Set
<1>2. intents[k] \in Intents
  BY DEF FollowInv, Types
<1>3. /\ later \in Intents /\ later.revision = intents[k].revision + 1 /\ later.settingsDirty
      /\ later.subscriptionDirty = intents[k].subscriptionDirty
      /\ later.subscribed = intents[k].subscribed
  BY <1>2, SettingsIntent
<1>4. Follows(later, intents[k]) /\ Honest(k, later, intents[k])
  BY <1>2, <1>3 DEF Follows, Honest, Intents
<1>5. UNCHANGED <<room, barrier, link, server, synced, snapshot, plan, recovering, faults>>
  BY DEF SetSettings, recoveryVars, serverVars
<1> HIDE DEF later
<1>6. QED
  BY <1>1, <1>3, <1>4, <1>5, OneFollows

LEMMA PlannedFollows ==
  ASSUME FollowInv, NEW k \in Tracks, NEW selected \in BOOLEAN
  PROVE  /\ Planned(k, selected) \in Intents /\ Follows(Planned(k, selected), intents[k])
         /\ Honest(k, Planned(k, selected), intents[k])
<1>1. PICK old : old = intents[k]
  OBVIOUS
<1>2. PICK settings : settings = IF k \notin Video THEN old.settings
                                 ELSE IF selected THEN DefaultSettings ELSE HeldEmpty
  OBVIOUS
<1>3. PICK sd, td :
        /\ sd = (selected # old.subscribed \/ old.subscriptionDirty \/ old.sent # selected)
        /\ td = (settings # old.settings \/ old.settingsDirty)
  OBVIOUS
<1>4. PICK later : later = Later(old, selected, settings, sd, td)
  OBVIOUS
<1>5. Planned(k, selected) = IF selected = old.subscribed /\ settings = old.settings THEN old
                             ELSE later
  <2>1. CASE k \notin Video
    BY <1>1, <1>2, <1>3, <1>4, <2>1 DEF Planned, Later
  <2>2. CASE k \in Video /\ selected
    BY <1>1, <1>2, <1>3, <1>4, <2>2 DEF Planned, Later
  <2>3. CASE k \in Video /\ ~selected
    BY <1>1, <1>2, <1>3, <1>4, <2>3 DEF Planned, Later
  <2>4. QED
    BY <2>1, <2>2, <2>3
<1>6. old \in Intents /\ sd \in BOOLEAN /\ td \in BOOLEAN
  BY <1>1, <1>3 DEF FollowInv, Types
<1>7. settings \in Settings
  BY <1>2, <1>6, IntentFields DEF DefaultSettings, HeldEmpty, Settings
<1>8. /\ later \in Intents /\ later.revision = old.revision + 1
      /\ later.subscribed = selected /\ later.settings = settings
      /\ later.subscriptionDirty = sd /\ later.settingsDirty = td
  BY <1>4, <1>6, <1>7 DEF Intents, Later
<1>9. Follows(later, old) /\ Honest(k, later, old)
  BY <1>3, <1>6, <1>8 DEF Follows, Honest, Intents
<1>10. Follows(old, old) /\ Honest(k, old, old)
  BY <1>1, FollowsItself DEF FollowInv
<1>11. QED
  BY <1>1, <1>5, <1>6, <1>8, <1>9, <1>10

LEMMA PlanFollows ==
  ASSUME FollowInv, NEW selection \in SUBSET Tracks, ApplyRemoteMediaPlan(selection)
  PROVE  FollowInv'
<1> DEFINE wanted == [k \in Tracks |-> Planned(k, k \in selection)]
           changed == {k \in Tracks : wanted[k] # intents[k]}
<1>1. Change(changed, wanted) /\ plan' = TRUE /\ recovering' = FALSE
      /\ UNCHANGED <<room, barrier, link, server, synced, snapshot, faults>>
  BY DEF ApplyRemoteMediaPlan, serverVars
<1>2. ASSUME NEW k \in Tracks
      PROVE  /\ wanted[k] \in Intents /\ Follows(wanted[k], intents[k])
             /\ Honest(k, wanted[k], intents[k])
  <2>1. (k \in selection) \in BOOLEAN
    OBVIOUS
  <2>2. QED
    BY <2>1, PlannedFollows
<1>3. wanted \in [Tracks -> Intents]
  BY <1>2
<1>4. \A k \in Tracks : k \notin changed => wanted[k] = intents[k]
  OBVIOUS
<1> HIDE DEF wanted, changed
<1>5. faults' \in Nat /\ plan' \in BOOLEAN /\ recovering' \in BOOLEAN
  BY <1>1 DEF FollowInv, Types
<1>6. QED
  BY <1>1, <1>2, <1>3, <1>4, <1>5, ChangeFollows

LEMMA IceFollows ==
  ASSUME FollowInv, OnIceConnected
  PROVE  FollowInv'
<1> DEFINE video == {k \in Video : intents[k].subscribed}
           later(k) == [intents[k] EXCEPT !.settingsDirty = @ \/ (plan /\ k \in video)]
           wanted == [k \in Tracks |-> later(k)]
<1>1. Change(video, wanted) /\ faults' = faults + 1 /\ faults \in Nat
      /\ UNCHANGED <<room, barrier, link, server, synced, snapshot, plan, recovering>>
  BY DEF OnIceConnected, recoveryVars, FollowInv, Types
<1>2. ASSUME NEW k \in Tracks
      PROVE  /\ later(k) \in Intents /\ Follows(later(k), intents[k])
             /\ Honest(k, later(k), intents[k]) /\ (k \notin video => later(k) = intents[k])
  <2>1. intents[k] \in Intents
    BY DEF FollowInv, Types
  <2>2. /\ later(k) \in Intents /\ later(k).revision = intents[k].revision
        /\ later(k).subscribed = intents[k].subscribed /\ later(k).settings = intents[k].settings
        /\ later(k).subscriptionDirty = intents[k].subscriptionDirty
        /\ intents[k].settingsDirty => later(k).settingsDirty
    BY <2>1 DEF Intents, FollowInv, Types
  <2>3. k \notin video => later(k) = intents[k]
    BY <2>1 DEF Intents
  <2>4. QED
    BY <2>1, <2>2, <2>3 DEF Follows, Honest, Intents
<1>3. wanted \in [Tracks -> Intents]
  BY <1>2
<1>4. \A k \in Tracks : /\ Follows(wanted[k], intents[k]) /\ Honest(k, wanted[k], intents[k])
                        /\ k \notin video => wanted[k] = intents[k]
  BY <1>2
<1> HIDE DEF wanted, video
<1>5. faults' \in Nat /\ plan' \in BOOLEAN /\ recovering' \in BOOLEAN
  BY <1>1 DEF FollowInv, Types
<1>6. QED
  BY <1>1, <1>3, <1>4, <1>5, ChangeFollows

LEMMA HandshakeFollows ==
  ASSUME FollowInv, HandshakeTimesOut
  PROVE  FollowInv'
<1> DEFINE held == {k \in Video : intents[k].subscribed \/ intents[k].settings # HeldEmpty}
           later(k) == [subscribed |-> FALSE, settings |-> HeldEmpty,
                 revision |-> intents[k].revision + 1, sent |-> intents[k].sent,
                 subscriptionDirty |-> intents[k].subscriptionDirty \/ intents[k].sent,
                 settingsDirty |-> TRUE]
           wanted == [k \in Tracks |-> IF k \notin held THEN intents[k] ELSE later(k)]
<1>1. Change(held, wanted) /\ recovering' = FALSE /\ room = "Reconnecting"
      /\ UNCHANGED <<room, barrier, link, server, synced, snapshot, plan, faults>>
  BY DEF HandshakeTimesOut, serverVars
<1>2. ASSUME NEW k \in Tracks
      PROVE  /\ later(k) \in Intents /\ Follows(later(k), intents[k])
             /\ k \notin overtaken => Honest(k, later(k), intents[k])
  <2>1. PICK old, sd : old = intents[k] /\ sd = (old.subscriptionDirty \/ old.sent)
    OBVIOUS
  <2>2. PICK r : r = Later(old, FALSE, HeldEmpty, sd, TRUE)
    OBVIOUS
  <2>3. later(k) = r
    BY <2>1, <2>2 DEF Later
  <2>4. old \in Intents /\ sd \in BOOLEAN /\ (k \notin overtaken => old.subscriptionDirty)
    BY <1>1, <2>1 DEF FollowInv, Types, AllIsOwed
  <2>5. /\ r \in Intents /\ r.revision = old.revision + 1
        /\ r.settingsDirty = TRUE /\ r.subscriptionDirty = sd
    BY <2>2, <2>4, NoUpdateTyped DEF Intents, Later
  <2>6. Follows(r, old) /\ (k \notin overtaken => Honest(k, r, old))
    BY <2>1, <2>4, <2>5 DEF Follows, Honest, Intents
  <2>7. QED
    BY <2>1, <2>3, <2>5, <2>6
<1>3. wanted \in [Tracks -> Intents]
  BY <1>2 DEF FollowInv, Types
<1>4. \A k \in Tracks : /\ Follows(wanted[k], intents[k])
                        /\ k \notin overtaken => Honest(k, wanted[k], intents[k])
                        /\ k \notin held => wanted[k] = intents[k]
  BY <1>2, FollowsItself DEF FollowInv
<1> HIDE DEF wanted, held
<1>5. faults' \in Nat /\ plan' \in BOOLEAN /\ recovering' \in BOOLEAN
  BY <1>1 DEF FollowInv, Types
<1>6. QED
  BY <1>1, <1>3, <1>4, <1>5, ChangeFollows

-----------------------------------------------------------------------------
(* What a drain does.                                                        *)

LEMMA NoSnapshotIsConstant == NoSnapshot' = NoSnapshot
BY DEF NoSnapshot

LEMMA OwingTyped ==
  ASSUME NEW i \in Intents
  PROVE  /\ Owing(i) \in Updates
         /\ Owing(i) # NoUpdate <=> Dirty(i)
         /\ Owing(i) # NoUpdate => Owing(i) = UpdateOf(i)
<1>1. UpdateOf(i) \in Updates
  BY DEF UpdateOf, Intents, Updates
<1>2. Dirty(i) => UpdateOf(i) # NoUpdate
  BY DEF UpdateOf, Dirty, NoUpdate, Intents
<1>3. QED
  BY <1>1, <1>2, NoUpdateTyped DEF Owing

\* The current drain is alone, in a connected room.
LEMMA CurrentIsAlone ==
  ASSUME FollowInv, NEW d \in drains
  PROVE  /\ d \in Drains /\ (d.pc = "sending" => d.key \in Tracks)
         /\ d.current <=> room = "Connected"
         /\ d.current => sender /\ drains = {d}
         /\ snapshot = NoSnapshot /\ room # "Rejoined"
BY DEF FollowInv, OneDrain, Types

LEMMA DrainEndsFollows ==
  ASSUME FollowInv, SyncInv', NEW d \in drains, DrainEnds(d)
  PROVE  FollowInv'
<1>1. /\ drains' = drains \ {d}
      /\ UNCHANGED <<room, plan, recovering, snapshot, intents, pending, barrier, link, server,
                     synced, faults, overtaken>>
      /\ sender' \in BOOLEAN /\ (room # "Connected" => ~sender')
  <2>1. /\ d.current <=> room = "Connected"
        /\ sender \in BOOLEAN /\ (room # "Connected" => ~sender)
    BY CurrentIsAlone DEF FollowInv, Types, OneDrain
  <2>2. sender' = sender \/ sender' = FALSE
    BY DEF DrainEnds
  <2>3. sender' \in BOOLEAN /\ (room # "Connected" => ~sender')
    <3>1. CASE sender' = sender
      BY <2>1, <3>1
    <3>2. CASE sender' = FALSE
      BY <3>2, Zenon
    <3>3. QED
      BY <2>2, <3>1, <3>2
  <2>4. QED
    BY <2>3, Zenon DEF DrainEnds, recoveryVars, serverVars
<1>2. Types' /\ PendingIsOwed'
  BY <1>1, NoSnapshotIsConstant DEF FollowInv, Types, PendingIsOwed
<1>3. OneDrain'
  BY <1>1, CurrentIsAlone, NoSnapshotIsConstant DEF FollowInv, OneDrain
<1>4. InFlight' /\ SnapshotIsOfIntents' /\ AllIsOwed' /\ ServerHasTheRest'
  BY <1>1, NoSnapshotIsConstant
  DEF FollowInv, InFlight, SnapshotIsOfIntents, AllIsOwed, ServerHasTheRest, InSession
<1>5. QED
  BY <1>2, <1>3, <1>4 DEF FollowInv

LEMMA DrainSendsFollows ==
  ASSUME FollowInv, SyncInv', NEW d \in drains, NEW k \in Tracks, DrainSends(d, k)
  PROVE  FollowInv'
<1>1. PICK e : e = [d EXCEPT !.pc = "sending", !.key = k, !.update = pending[k],
                             !.withSettings = Phase(k) \in {0, 2, 3}]
  OBVIOUS
<1>2. /\ drains' = {e} /\ room = "Connected" /\ sender
      /\ UNCHANGED <<room, plan, recovering, snapshot, intents, pending, barrier, sender, link,
                     server, synced, faults, overtaken>>
  BY <1>1, CurrentIsAlone DEF DrainSends, recoveryVars, serverVars
<1>3. /\ intents[k] \in Intents /\ pending[k] = UpdateOf(intents[k]) /\ pending[k] \in Updates
      /\ Phase(k) # 5
  <2>1. intents[k] \in Intents /\ pending[k] = Owing(intents[k]) /\ pending[k] # NoUpdate
    BY DEF FollowInv, Types, PendingIsOwed, DrainSends, Selected
  <2>2. QED
    BY <2>1, OwingTyped DEF DrainSends, Selected
<1>4. (Phase(k) \in {0, 2, 3}) <=> intents[k].settingsDirty
  BY <1>3 DEF Phase, UpdateOf
<1>5. ~(Phase(k) \in {0, 2, 3}) => intents[k].subscriptionDirty
  BY <1>3 DEF Phase, UpdateOf
<1>6. /\ e \in Drains /\ e.pc = "sending" /\ e.key = k /\ e.update = pending[k]
      /\ e.withSettings = (Phase(k) \in {0, 2, 3}) /\ e.current /\ e.withSettings \in BOOLEAN
  <2>1. d \in Drains /\ d.current
    BY CurrentIsAlone DEF DrainSends
  <2> DEFINE w == Phase(k) \in {0, 2, 3}
  <2>2. w \in BOOLEAN
    OBVIOUS
  <2>3. e = [d EXCEPT !.pc = "sending", !.key = k, !.update = pending[k], !.withSettings = w]
    BY <1>1
  <2> HIDE DEF w
  <2>4. e \in Drains /\ e.pc = "sending" /\ e.key = k /\ e.update = pending[k]
        /\ e.withSettings = w /\ e.current
    BY <1>3, <2>1, <2>2, <2>3 DEF Drains
  <2>5. QED
    BY <2>2, <2>4 DEF w
<1>7. Types' /\ PendingIsOwed'
  BY <1>2, <1>6, NoSnapshotIsConstant DEF FollowInv, Types, PendingIsOwed
<1>8. OneDrain'
  BY <1>2, <1>6, NoSnapshotIsConstant DEF FollowInv, OneDrain
<1>9. InFlight'
  <2>1. /\ e.update.revision = intents[k].revision /\ e.update.subscribed = intents[k].subscribed
        /\ e.update.settings = intents[k].settings /\ intents[k].revision \in Nat
    BY <1>3, <1>6, IntentFields DEF UpdateOf
  <2>2. (e.withSettings => intents[k].settingsDirty)
        /\ (~e.withSettings => intents[k].subscriptionDirty)
    BY <1>4, <1>5, <1>6
  <2>3. e.update.revision <= intents[k].revision
    BY <2>1
  <2>4. QED
    BY <1>2, <1>6, <2>1, <2>2, <2>3 DEF InFlight
<1>10. SnapshotIsOfIntents' /\ AllIsOwed' /\ ServerHasTheRest'
  BY <1>2, NoSnapshotIsConstant
  DEF FollowInv, SnapshotIsOfIntents, AllIsOwed, ServerHasTheRest, InSession
<1>11. QED
  BY <1>7, <1>8, <1>9, <1>10 DEF FollowInv

LEMMA DrainThrowsFollows ==
  ASSUME FollowInv, SyncInv', NEW d \in drains, NEW k \in Tracks, DrainThrows(d, k)
  PROVE  FollowInv'
<1>1. /\ drains' = {} /\ room = "Connected" /\ sender' = FALSE
      /\ UNCHANGED <<room, plan, recovering, snapshot, intents, barrier, link, server, synced,
                     faults, overtaken>>
  BY CurrentIsAlone DEF DrainThrows, recoveryVars, serverVars
<1>2. pending' = pending
  BY DEF DrainThrows, FollowInv, PendingIsOwed, Owing
<1>3. Types' /\ PendingIsOwed'
  BY <1>1, <1>2, NoSnapshotIsConstant DEF FollowInv, Types, PendingIsOwed
<1>4. OneDrain' /\ InFlight'
  BY <1>1, NoSnapshotIsConstant DEF FollowInv, OneDrain, InFlight
<1>5. SnapshotIsOfIntents' /\ AllIsOwed' /\ ServerHasTheRest'
  BY <1>1, NoSnapshotIsConstant
  DEF FollowInv, SnapshotIsOfIntents, AllIsOwed, ServerHasTheRest, InSession
<1>6. QED
  BY <1>3, <1>4, <1>5 DEF FollowInv

\* What is recorded of an intent, and what is then owed.
LEMMA RecordedIntent ==
  ASSUME NEW d \in Drains, NEW i \in Intents, d.update.revision = i.revision,
         d.update.subscribed = i.subscribed
  PROVE  LET r == Recorded(d, i)
         IN  /\ r \in Intents /\ r.revision = i.revision /\ r.subscribed = i.subscribed
             /\ r.settings = i.settings
             /\ d.withSettings => /\ r.subscriptionDirty = i.subscriptionDirty
                                  /\ ~r.settingsDirty
             /\ ~d.withSettings => /\ r.settingsDirty = i.settingsDirty
                                   /\ ~r.subscriptionDirty
             /\ Sent(d, UpdateOf(i)) = Owing(r)
<1>1. CASE d.withSettings
  <2>1. PICK no : no = FALSE
    OBVIOUS
  <2>2. PICK r : r = [i EXCEPT !.settingsDirty = no]
    OBVIOUS
  <2>3. Recorded(d, i) = r
    BY <1>1, <2>1, <2>2 DEF Recorded
  <2>4. /\ r \in Intents /\ r.revision = i.revision /\ r.subscribed = i.subscribed
        /\ r.settings = i.settings /\ r.subscriptionDirty = i.subscriptionDirty
        /\ r.settingsDirty = no
    BY <2>1, <2>2 DEF Intents
  <2>5. UpdateOf(r) = [UpdateOf(i) EXCEPT !.settingsDirty = no]
    BY <2>4 DEF UpdateOf
  <2>6. Dirty(UpdateOf(r)) = Dirty(r)
    BY DEF UpdateOf, Dirty
  <2>7. Sent(d, UpdateOf(i)) = Owing(r)
    BY <1>1, <2>1, <2>5, <2>6 DEF Sent, Owing
  <2>8. QED
    BY <1>1, <2>1, <2>3, <2>4, <2>7
<1>2. CASE ~d.withSettings
  <2>1. PICK no : no = FALSE
    OBVIOUS
  <2>2. PICK r : r = [i EXCEPT !.subscriptionDirty = no, !.sent = d.update.subscribed]
    OBVIOUS
  <2>3. Recorded(d, i) = r
    BY <1>2, <2>1, <2>2 DEF Recorded
  <2>4. /\ r \in Intents /\ r.revision = i.revision /\ r.subscribed = i.subscribed
        /\ r.settings = i.settings /\ r.settingsDirty = i.settingsDirty
        /\ r.subscriptionDirty = no
    BY <2>1, <2>2 DEF Intents
  <2>5. UpdateOf(r) = [UpdateOf(i) EXCEPT !.subscriptionDirty = no]
    BY <2>4 DEF UpdateOf
  <2>6. Dirty(UpdateOf(r)) = Dirty(r)
    BY DEF UpdateOf, Dirty
  <2>7. Sent(d, UpdateOf(i)) = Owing(r)
    BY <1>2, <2>1, <2>5, <2>6 DEF Sent, Owing
  <2>8. QED
    BY <1>2, <2>1, <2>3, <2>4, <2>7
<1>3. QED
  BY <1>1, <1>2

\* What DrainSent does to the server, for one track.
LEMMA ServerOfSent ==
  ASSUME FollowInv, NEW d \in drains, DrainSent(d)
  PROVE  /\ server' \in [Tracks -> [subscribed : BOOLEAN, settings : Settings]]
         /\ \A k \in Tracks : k # d.key => server'[k] = server[k]
         /\ link = "open" /\ d.withSettings =>
              /\ server'[d.key].settings = d.update.settings
              /\ server'[d.key].subscribed = server[d.key].subscribed
         /\ link = "open" /\ ~d.withSettings =>
              /\ server'[d.key].subscribed = d.update.subscribed
              /\ server'[d.key].settings = server[d.key].settings
<1>1. /\ server \in [Tracks -> [subscribed : BOOLEAN, settings : Settings]]
      /\ d.key \in Tracks /\ d.update.settings \in Settings /\ d.update.subscribed \in BOOLEAN
  BY CurrentIsAlone DEF FollowInv, Types, DrainSent, Drains, Updates
<1>2. CASE link # "open"
  BY <1>1, <1>2 DEF DrainSent
<1>3. CASE link = "open" /\ d.withSettings
  <2>1. server' = [server EXCEPT ![d.key].settings = d.update.settings]
    BY <1>3 DEF DrainSent
  <2>2. QED
    BY <1>1, <1>3, <2>1
<1>4. CASE link = "open" /\ ~d.withSettings
  <2>1. server' = [server EXCEPT ![d.key].subscribed = d.update.subscribed]
    BY <1>4 DEF DrainSent
  <2>2. QED
    BY <1>1, <1>4, <2>1
<1>5. QED
  BY <1>2, <1>3, <1>4

LEMMA DrainSentFollows ==
  ASSUME FollowInv, SyncInv', NEW d \in drains, DrainSent(d)
  PROVE  FollowInv'
<1> DEFINE k == d.key
           i == intents[k]
<1>1. /\ d \in Drains /\ d.pc = "sending" /\ k \in Tracks /\ i \in Intents
      /\ d.current <=> room = "Connected"
      /\ d.current => sender /\ drains = {d}
      /\ snapshot = NoSnapshot /\ room # "Rejoined"
  BY CurrentIsAlone DEF DrainSent, FollowInv, Types
<1>2. UNCHANGED <<room, plan, recovering, snapshot, barrier, sender, link, synced, faults>>
  BY DEF DrainSent, recoveryVars
<1>3. /\ drains' = (drains \ {d}) \cup {Drain(d.current)}
      /\ d.current \in BOOLEAN /\ Drain(d.current) \in Drains
      /\ Drain(d.current).pc = "ready" /\ Drain(d.current).current = d.current
  BY <1>1, DrainTyped DEF DrainSent, Drains
<1>4. /\ d.update.revision <= i.revision
      /\ d.update.revision = i.revision =>
           d.update.subscribed = i.subscribed /\ d.update.settings = i.settings
      /\ d.current /\ d.withSettings => i.settingsDirty
      /\ d.current /\ ~d.withSettings => i.subscriptionDirty
  BY <1>1 DEF FollowInv, InFlight
<1>5. OneDrain'
  BY <1>1, <1>2, <1>3, NoSnapshotIsConstant DEF FollowInv, OneDrain
<1>6. SnapshotIsOfIntents'
  BY <1>1, <1>2, NoSnapshotIsConstant DEF SnapshotIsOfIntents
<1>7. CASE IsPending(d)
  <2>1. /\ intents' = [intents EXCEPT ![k] = Recorded(d, i)]
        /\ pending' = [pending EXCEPT ![k] = Sent(d, pending[k])]
        /\ overtaken' = IF d.current THEN overtaken ELSE overtaken \cup {k}
    BY <1>7 DEF DrainSent
  <2>2. pending[k] = UpdateOf(i) /\ d.update.revision = i.revision
    <3>1. pending[k] = Owing(i) /\ pending[k] # NoUpdate
      BY <1>1, <1>7 DEF IsPending, FollowInv, PendingIsOwed
    <3>2. pending[k] = UpdateOf(i)
      BY <1>1, <3>1, OwingTyped
    <3>3. QED
      BY <1>7, <3>2 DEF IsPending, UpdateOf
  <2>3. /\ Recorded(d, i) \in Intents /\ Recorded(d, i).revision = i.revision
        /\ Recorded(d, i).subscribed = i.subscribed /\ Recorded(d, i).settings = i.settings
        /\ d.withSettings => /\ Recorded(d, i).subscriptionDirty = i.subscriptionDirty
                             /\ ~Recorded(d, i).settingsDirty
        /\ ~d.withSettings => /\ Recorded(d, i).settingsDirty = i.settingsDirty
                              /\ ~Recorded(d, i).subscriptionDirty
        /\ Sent(d, UpdateOf(i)) = Owing(Recorded(d, i))
    BY <1>1, <1>4, <2>2, RecordedIntent
  <2>4. PICK r : r = Recorded(d, i)
    OBVIOUS
  <2>5. /\ intents' \in [Tracks -> Intents] /\ intents'[k] = r
        /\ \A other \in Tracks : other # k => intents'[other] = intents[other]
    BY <1>1, <2>1, <2>3, <2>4 DEF FollowInv, Types
  <2>6. Types'
    <3>1. overtaken' \subseteq Tracks
      BY <1>1, <2>1 DEF FollowInv, Types
    <3>2. drains' \subseteq Drains /\ \A e \in drains' : e.pc = "sending" => e.key \in Tracks
      BY <1>3 DEF FollowInv, Types
    <3>3. QED
      BY <1>2, <2>5, <3>1, <3>2, ServerOfSent, NoSnapshotIsConstant DEF FollowInv, Types
  <2>7. PendingIsOwed'
    <3>1. pending = [other \in Tracks |-> Owing(intents[other])]
      BY DEF FollowInv, PendingIsOwed
    <3>2. pending' = [pending EXCEPT ![k] = Owing(r)]
      BY <2>1, <2>2, <2>3, <2>4
    <3>3. pending' = [other \in Tracks |-> Owing(intents'[other])]
      BY <1>1, <2>5, <3>1, <3>2
    <3>4. QED
      BY <3>3 DEF PendingIsOwed, Owing, Dirty, UpdateOf, NoUpdate, HeldEmpty
  <2>8. InFlight'
    <3>1. SUFFICES ASSUME NEW e \in drains', e.pc = "sending"
                   PROVE  /\ e.update.revision <= intents'[e.key].revision
                          /\ e.update.revision = intents'[e.key].revision =>
                               /\ e.update.subscribed = intents'[e.key].subscribed
                               /\ e.update.settings = intents'[e.key].settings
                          /\ ~e.current
      BY DEF InFlight
    <3>2. e \in drains /\ ~e.current /\ e.key \in Tracks
      BY <1>1, <1>3, <3>1, CurrentIsAlone
    <3>3. /\ e.update.revision <= intents[e.key].revision
          /\ e.update.revision = intents[e.key].revision =>
               /\ e.update.subscribed = intents[e.key].subscribed
               /\ e.update.settings = intents[e.key].settings
      BY <3>1, <3>2 DEF FollowInv, InFlight
    <3>4. /\ intents'[e.key].revision = intents[e.key].revision
          /\ intents'[e.key].subscribed = intents[e.key].subscribed
          /\ intents'[e.key].settings = intents[e.key].settings
      BY <2>3, <2>4, <2>5, <3>2
    <3>5. QED
      BY <3>2, <3>3, <3>4
  <2>9. AllIsOwed'
    BY <1>1, <1>2, <2>1, <2>5 DEF FollowInv, AllIsOwed
  <2>10. ServerHasTheRest'
    <3>1. SUFFICES ASSUME InSession, link = "open", NEW other \in Tracks \ overtaken'
                   PROVE  /\ ~intents'[other].subscriptionDirty =>
                               server'[other].subscribed = intents'[other].subscribed
                          /\ other \in Video /\ ~intents'[other].settingsDirty =>
                               server'[other].settings = intents'[other].settings
      BY <1>2 DEF ServerHasTheRest, InSession
    <3>2. d.current /\ overtaken' = overtaken
      BY <1>1, <2>1, <3>1 DEF InSession
    <3>3. /\ ~intents[other].subscriptionDirty =>
               server[other].subscribed = intents[other].subscribed
          /\ other \in Video /\ ~intents[other].settingsDirty =>
               server[other].settings = intents[other].settings
      BY <3>1, <3>2 DEF FollowInv, ServerHasTheRest
    <3>4. CASE other # k
      BY <2>5, <3>1, <3>3, <3>4, ServerOfSent
    <3>5. CASE other = k /\ d.withSettings
      BY <1>4, <2>2, <2>3, <2>4, <2>5, <3>1, <3>3, <3>5, ServerOfSent
    <3>6. CASE other = k /\ ~d.withSettings
      BY <1>4, <2>2, <2>3, <2>4, <2>5, <3>1, <3>3, <3>6, ServerOfSent
    <3>7. QED
      BY <3>4, <3>5, <3>6
  <2>11. QED
    BY <1>5, <1>6, <2>6, <2>7, <2>8, <2>9, <2>10 DEF FollowInv
<1>8. CASE ~IsPending(d)
  <2>1. UNCHANGED <<intents, pending, overtaken>>
    BY <1>8 DEF DrainSent
  <2>2. Types'
    <3>1. drains' \subseteq Drains /\ \A e \in drains' : e.pc = "sending" => e.key \in Tracks
      BY <1>3 DEF FollowInv, Types
    <3>2. QED
      BY <1>2, <2>1, <3>1, ServerOfSent, NoSnapshotIsConstant DEF FollowInv, Types
  <2>3. PendingIsOwed' /\ AllIsOwed'
    BY <1>2, <2>1 DEF FollowInv, PendingIsOwed, AllIsOwed
  <2>4. InFlight'
    BY <1>3, <2>1 DEF FollowInv, InFlight
  <2>5. ServerHasTheRest'
    <3>1. SUFFICES ASSUME InSession, link = "open", NEW other \in Tracks \ overtaken
                   PROVE  /\ ~intents[other].subscriptionDirty =>
                               server'[other].subscribed = intents[other].subscribed
                          /\ other \in Video /\ ~intents[other].settingsDirty =>
                               server'[other].settings = intents[other].settings
      BY <1>2, <2>1 DEF ServerHasTheRest, InSession
    <3>2. d.current
      BY <1>1, <3>1 DEF InSession
    <3>3. /\ ~intents[other].subscriptionDirty =>
               server[other].subscribed = intents[other].subscribed
          /\ other \in Video /\ ~intents[other].settingsDirty =>
               server[other].settings = intents[other].settings
      BY <3>1 DEF FollowInv, ServerHasTheRest
    <3>4. CASE other # k
      BY <3>1, <3>3, <3>4, ServerOfSent
    <3>5. CASE other = k
      BY <1>4, <3>1, <3>2, <3>3, <3>5, ServerOfSent
    <3>6. QED
      BY <3>4, <3>5
  <2>6. QED
    BY <1>5, <1>6, <2>2, <2>3, <2>4, <2>5 DEF FollowInv
<1>9. QED
  BY <1>7, <1>8

-----------------------------------------------------------------------------
(* The connection.                                                           *)

LEMMA LinkBreaksFollows ==
  ASSUME FollowInv, SyncInv', LinkBreaks
  PROVE  FollowInv'
BY NoSnapshotIsConstant
DEF LinkBreaks, recoveryVars, FollowInv, Types, PendingIsOwed, OneDrain, InFlight,
    SnapshotIsOfIntents, AllIsOwed, ServerHasTheRest, InSession

LEMMA PausedIntent ==
  ASSUME FollowInv, NEW k \in Tracks
  PROVE  /\ Paused(k) \in Intents /\ Follows(Paused(k), intents[k])
         /\ Paused(k).revision = intents[k].revision
         /\ Paused(k).subscribed = intents[k].subscribed
         /\ Paused(k).settings = intents[k].settings
         /\ Paused(k).subscriptionDirty /\ (k \in Video => Paused(k).settingsDirty)
<1>1. PICK i, yes, dirty : i = intents[k] /\ yes = TRUE /\ dirty = (i.settingsDirty \/ k \in Video)
  OBVIOUS
<1>2. i \in Intents /\ yes \in BOOLEAN /\ dirty \in BOOLEAN
  BY <1>1 DEF FollowInv, Types
<1>3. Paused(k) = [i EXCEPT !.subscriptionDirty = yes, !.settingsDirty = dirty]
  BY <1>1, <1>2 DEF Paused, Intents
<1>4. PICK r : r = Paused(k)
  OBVIOUS
<1>5. /\ r \in Intents /\ r.revision = i.revision /\ r.subscribed = i.subscribed
      /\ r.settings = i.settings /\ r.subscriptionDirty = yes /\ r.settingsDirty = dirty
  BY <1>2, <1>3, <1>4 DEF Intents
<1>6. Follows(r, i)
  BY <1>1, <1>2, <1>5 DEF Follows, Intents
<1>7. QED
  BY <1>1, <1>4, <1>5, <1>6

LEMMA ReplacedDrain ==
  ASSUME NEW tasks \in SUBSET Drains, NEW e \in Replaced(tasks)
  PROVE  /\ e \in Drains /\ ~e.current
         /\ \E d \in tasks : /\ e.pc = d.pc /\ e.key = d.key /\ e.update = d.update
                             /\ e.withSettings = d.withSettings
<1>1. PICK d \in tasks : e = [d EXCEPT !.current = FALSE]
  BY DEF Replaced
<1>2. d \in Drains
  BY <1>1
<1>3. /\ e \in Drains /\ ~e.current /\ e.pc = d.pc /\ e.key = d.key /\ e.update = d.update
      /\ e.withSettings = d.withSettings
  BY <1>1, <1>2 DEF Drains
<1>4. QED
  BY <1>1, <1>3

LEMMA CloseFollows ==
  ASSUME FollowInv, SyncInv', Close
  PROVE  FollowInv'
<1>1. /\ UNCHANGED <<plan, snapshot, server, faults>> /\ link' = "down" /\ synced' = FALSE
      /\ room # "Rejoined"
  BY DEF Close
<1>2. CASE room = "Connected"
  <2> DEFINE wanted == [k \in Tracks |-> Paused(k)]
  <2>1. /\ room' = "Reconnecting" /\ barrier' = TRUE /\ sender' = FALSE
        /\ drains' = Replaced(drains) /\ intents' = wanted
        /\ pending' = Queued(Tracks, wanted) /\ recovering' = plan /\ overtaken' = {}
    BY <1>2, Zenon DEF Close
  <2>2. wanted \in [Tracks -> Intents] /\ \A k \in Tracks : Follows(wanted[k], intents[k])
    BY PausedIntent
  <2>3. \A k \in Tracks :
          /\ intents'[k].revision = intents[k].revision
          /\ intents'[k].subscribed = intents[k].subscribed
          /\ intents'[k].settings = intents[k].settings
          /\ intents'[k].subscriptionDirty /\ (k \in Video => intents'[k].settingsDirty)
    BY <2>1, PausedIntent
  <2> HIDE DEF wanted
  <2>4. PendingIsOwed'
    <3>1. Queued(Tracks, wanted) = [k \in Tracks |-> Owing(wanted[k])]
      BY <2>2, QueueIsOwed DEF FollowInv
    <3>2. pending' = [k \in Tracks |-> Owing(intents'[k])]
      BY <2>1, <3>1
    <3>3. QED
      BY <3>2 DEF PendingIsOwed, Owing, Dirty, UpdateOf, NoUpdate, HeldEmpty
  <2>5. /\ drains \in SUBSET Drains /\ \A d \in drains : d.pc = "sending" => d.key \in Tracks
        /\ snapshot = NoSnapshot
    BY <1>2 DEF FollowInv, Types, OneDrain
  <2>6. ASSUME NEW e \in drains'
        PROVE  /\ e \in Drains /\ ~e.current
               /\ \E d \in drains : /\ e.pc = d.pc /\ e.key = d.key /\ e.update = d.update
                                    /\ e.withSettings = d.withSettings
    BY <2>1, <2>5, ReplacedDrain
  <2>7. Types'
    <3>1. drains' \subseteq Drains /\ \A e \in drains' : e.pc = "sending" => e.key \in Tracks
      BY <2>5, <2>6
    <3>2. QED
      BY <1>1, <2>1, <2>2, <3>1, NoSnapshotIsConstant DEF FollowInv, Types
  <2>8. OneDrain'
    BY <1>1, <2>1, <2>5, <2>6, NoSnapshotIsConstant DEF OneDrain
  <2>9. InFlight'
    <3>1. SUFFICES ASSUME NEW e \in drains', e.pc = "sending"
                   PROVE  /\ e.update.revision <= intents'[e.key].revision
                          /\ e.update.revision = intents'[e.key].revision =>
                               /\ e.update.subscribed = intents'[e.key].subscribed
                               /\ e.update.settings = intents'[e.key].settings
                          /\ ~e.current
      BY DEF InFlight
    <3>2. PICK d \in drains : e.pc = d.pc /\ e.key = d.key /\ e.update = d.update
      BY <2>6
    <3>3. QED
      BY <2>3, <2>5, <2>6, <3>1, <3>2 DEF FollowInv, InFlight
  <2>10. SnapshotIsOfIntents' /\ ServerHasTheRest'
    BY <1>1, <2>1, <2>5, NoSnapshotIsConstant
    DEF SnapshotIsOfIntents, ServerHasTheRest, InSession
  <2>11. AllIsOwed'
    BY <2>3 DEF AllIsOwed
  <2>12. QED
    BY <2>4, <2>7, <2>8, <2>9, <2>10, <2>11 DEF FollowInv
<1>3. CASE room # "Connected"
  <2>1. UNCHANGED <<room, barrier, sender, drains, intents, pending, recovering, overtaken>>
    BY <1>3 DEF Close
  <2>2. QED
    BY <1>1, <2>1, NoSnapshotIsConstant
    DEF FollowInv, Types, PendingIsOwed, OneDrain, InFlight, SnapshotIsOfIntents, AllIsOwed,
        ServerHasTheRest, InSession
<1>4. QED
  BY <1>2, <1>3

LEMMA BuildSyncStateFollows ==
  ASSUME FollowInv, SyncInv', BuildSyncState
  PROVE  FollowInv'
<1>1. /\ room = "Reconnecting" /\ drains = {} /\ link' = "open"
      /\ snapshot' = [phase |-> "taken",
                      wanted |-> [k \in Tracks |-> intents[k].subscribed],
                      revisions |-> [k \in Tracks |-> intents[k].revision]]
      /\ UNCHANGED <<room, plan, recovering, intents, pending, barrier, sender, drains,
                     server, synced, overtaken, faults>>
  BY DEF BuildSyncState
<1>2. /\ snapshot' \in Snapshots /\ snapshot'.phase = "taken"
      /\ \A k \in Tracks : /\ snapshot'.revisions[k] = intents[k].revision
                           /\ snapshot'.wanted[k] = intents[k].subscribed
                           /\ intents[k].revision \in Nat
  <2>1. \A k \in Tracks : intents[k].subscribed \in BOOLEAN /\ intents[k].revision \in Nat
    BY DEF FollowInv, Types, Intents
  <2>2. QED
    BY <1>1, <2>1 DEF Snapshots
<1>3. Types'
  <2>1. snapshot' \in Snapshots' /\ Drains' = Drains
    BY <1>2 DEF Snapshots, Drains, Updates, Settings
  <2>2. QED
    BY <1>1, <2>1 DEF FollowInv, Types
<1>4. PendingIsOwed' /\ OneDrain' /\ InFlight'
  BY <1>1 DEF FollowInv, PendingIsOwed, OneDrain, InFlight
<1>5. SnapshotIsOfIntents'
  <2>1. \A k \in Tracks :
          /\ snapshot'.revisions[k] <= intents'[k].revision
          /\ snapshot'.wanted[k] = intents'[k].subscribed
    BY <1>1, <1>2
  <2>2. QED
    BY <1>2, <2>1 DEF SnapshotIsOfIntents
<1>6. AllIsOwed' /\ ServerHasTheRest'
  BY <1>1 DEF FollowInv, AllIsOwed, ServerHasTheRest, InSession
<1>7. QED
  BY <1>3, <1>4, <1>5, <1>6 DEF FollowInv

LEMMA SendSyncStateFollows ==
  ASSUME FollowInv, SyncInv', SendSyncState
  PROVE  FollowInv'
<1>1. /\ room = "Reconnecting" /\ snapshot \in Snapshots /\ snapshot # NoSnapshot
      /\ drains = {}
  BY DEF SendSyncState, NoSnapshot, FollowInv, Types, OneDrain
<1>2. /\ snapshot' = [snapshot EXCEPT !.phase = "sent"]
      /\ UNCHANGED <<room, plan, recovering, intents, pending, barrier, sender, drains, link,
                     overtaken, faults>>
  BY DEF SendSyncState
<1>3. /\ snapshot' \in Snapshots /\ snapshot'.wanted = snapshot.wanted
      /\ snapshot'.revisions = snapshot.revisions
  BY <1>1, <1>2 DEF Snapshots
<1>4. /\ server' \in [Tracks -> [subscribed : BOOLEAN, settings : Settings]]
      /\ synced' \in BOOLEAN
      /\ link = "open" => \A k \in Tracks : server'[k].subscribed = snapshot.wanted[k]
  <2>1. CASE link = "open"
    <3>1. /\ server' = [k \in Tracks |-> [server[k] EXCEPT !.subscribed = snapshot.wanted[k]]]
          /\ synced' = TRUE
      BY <2>1 DEF SendSyncState
    <3>2. ASSUME NEW k \in Tracks
          PROVE  /\ [server[k] EXCEPT !.subscribed = snapshot.wanted[k]]
                      \in [subscribed : BOOLEAN, settings : Settings]
                 /\ [server[k] EXCEPT !.subscribed = snapshot.wanted[k]].subscribed
                      = snapshot.wanted[k]
      <4>1. server[k] \in [subscribed : BOOLEAN, settings : Settings]
            /\ snapshot.wanted[k] \in BOOLEAN
        BY <1>1 DEF FollowInv, Types, Snapshots
      <4>2. QED
        BY <4>1
    <3>3. QED
      BY <3>1, <3>2
  <2>2. CASE link # "open"
    BY <2>2 DEF SendSyncState, FollowInv, Types
  <2>3. QED
    BY <2>1, <2>2
<1>5. Types'
  <2>1. snapshot' \in Snapshots'
    BY <1>3 DEF Snapshots
  <2>2. QED
    BY <1>2, <1>4, <2>1 DEF FollowInv, Types
<1>6. PendingIsOwed' /\ OneDrain' /\ InFlight' /\ AllIsOwed'
  BY <1>1, <1>2 DEF FollowInv, PendingIsOwed, OneDrain, InFlight, AllIsOwed
<1>7. SnapshotIsOfIntents' /\ ServerHasTheRest'
  BY <1>1, <1>2, <1>3, <1>4
  DEF FollowInv, SnapshotIsOfIntents, ServerHasTheRest, InSession
<1>8. QED
  BY <1>5, <1>6, <1>7 DEF FollowInv

\* What FinishSubscriptionRecoveryLocked leaves of one intent and its update.
LEMMA CoveredIntent ==
  ASSUME NEW i \in Intents, i.subscriptionDirty
  PROVE  LET left == [i EXCEPT !.subscriptionDirty = FALSE, !.sent = i.subscribed]
         IN  /\ left \in Intents /\ left.revision = i.revision /\ left.subscribed = i.subscribed
             /\ left.settings = i.settings /\ left.settingsDirty = i.settingsDirty
             /\ Owing(left) = IF i.settingsDirty
                              THEN [UpdateOf(i) EXCEPT !.subscriptionDirty = FALSE]
                              ELSE NoUpdate
<1>1. PICK no : no = FALSE
  OBVIOUS
<1>2. PICK left : left = [i EXCEPT !.subscriptionDirty = no, !.sent = i.subscribed]
  OBVIOUS
<1>3. /\ left \in Intents /\ left.revision = i.revision /\ left.subscribed = i.subscribed
      /\ left.settings = i.settings /\ left.settingsDirty = i.settingsDirty
      /\ left.subscriptionDirty = no
  BY <1>1, <1>2 DEF Intents
<1>4. UpdateOf(left) = [UpdateOf(i) EXCEPT !.subscriptionDirty = no]
  BY <1>3 DEF UpdateOf
<1>5. Dirty(left) <=> i.settingsDirty
  BY <1>1, <1>3 DEF Dirty
<1>6. QED
  BY <1>1, <1>2, <1>3, <1>4, <1>5 DEF Owing

LEMMA ResumeCommitsFollows ==
  ASSUME FollowInv, SyncInv', ResumeCommits
  PROVE  FollowInv'
<1> DEFINE done == {k \in Tracks : SyncCovers(k) /\ pending[k].subscriptionDirty}
           left(k) == IF k \notin done THEN intents[k]
                      ELSE [intents[k] EXCEPT !.subscriptionDirty = FALSE,
                                              !.sent = intents[k].subscribed]
           rest(k) == IF ~SyncCovers(k) THEN pending[k]
                      ELSE IF pending[k].settingsDirty
                      THEN [pending[k] EXCEPT !.subscriptionDirty = FALSE] ELSE NoUpdate
<1>1. /\ room = "Reconnecting" /\ room' = "Connected" /\ barrier' = FALSE
      /\ snapshot' = NoSnapshot /\ snapshot.phase = "sent"
      /\ intents' = [k \in Tracks |-> left(k)] /\ pending' = [k \in Tracks |-> rest(k)]
      /\ UNCHANGED <<plan, recovering, link, server, synced, faults, overtaken>>
  BY DEF ResumeCommits, serverVars
<1>2. snapshot \in Snapshots /\ snapshot # NoSnapshot /\ drains = {} /\ ~sender
  <2>1. NoSnapshot.phase = "none"
    BY DEF NoSnapshot
  <2>2. QED
    BY <1>1, <2>1 DEF FollowInv, Types, OneDrain
<1>3. \/ drains' = {} /\ sender' = sender
      \/ drains' = {Drain(TRUE)} /\ sender' = TRUE
  BY <1>2, DrainStarts DEF ResumeCommits
<1>4. ASSUME NEW k \in Tracks
      PROVE  /\ left(k) \in Intents /\ rest(k) = Owing(left(k))
             /\ left(k).subscribed = intents[k].subscribed
             /\ left(k).settings = intents[k].settings
             /\ left(k).settingsDirty = intents[k].settingsDirty
             /\ k \in done => snapshot.revisions[k] = intents[k].revision
             /\ k \notin done => left(k) = intents[k]
  <2>1. /\ intents[k] \in Intents /\ pending[k] = Owing(intents[k])
        /\ (pending[k] # NoUpdate <=> Dirty(intents[k]))
        /\ (pending[k] # NoUpdate => pending[k] = UpdateOf(intents[k]))
    BY OwingTyped DEF FollowInv, Types, PendingIsOwed
  <2>2. CASE k \in done
    <3>1. pending[k] = UpdateOf(intents[k]) /\ SyncCovers(k) /\ pending[k].subscriptionDirty
      BY <2>1, <2>2 DEF SyncCovers
    <3>2. intents[k].subscriptionDirty /\ pending[k].settingsDirty = intents[k].settingsDirty
      BY <3>1 DEF UpdateOf
    <3>3. rest(k) = IF intents[k].settingsDirty
                    THEN [UpdateOf(intents[k]) EXCEPT !.subscriptionDirty = FALSE]
                    ELSE NoUpdate
      BY <3>1, <3>2
    <3>4. left(k) = [intents[k] EXCEPT !.subscriptionDirty = FALSE,
                                       !.sent = intents[k].subscribed]
      BY <2>2
    <3>5. snapshot.revisions[k] = intents[k].revision
      BY <3>1 DEF SyncCovers
    <3> HIDE DEF done, left, rest
    <3>6. QED
      BY <2>1, <2>2, <3>2, <3>3, <3>4, <3>5, CoveredIntent
  <2>3. CASE k \notin done
    <3>1. left(k) = intents[k]
      BY <2>3
    <3>2. rest(k) = pending[k]
      <4>1. CASE ~SyncCovers(k)
        BY <4>1
      <4>2. CASE SyncCovers(k)
        <5>1. pending[k] = UpdateOf(intents[k]) /\ Dirty(intents[k])
              /\ ~pending[k].subscriptionDirty
          BY <2>1, <2>3, <4>2 DEF SyncCovers
        <5>2. /\ pending[k].settingsDirty /\ pending[k].subscriptionDirty \in BOOLEAN
              /\ pending[k] \in Updates
          BY <2>1, <5>1, OwingTyped DEF UpdateOf, Dirty, Intents
        <5>3. [pending[k] EXCEPT !.subscriptionDirty = FALSE] = pending[k]
          BY <5>1, <5>2 DEF Updates
        <5>4. QED
          BY <4>2, <5>2, <5>3
      <4>3. QED
        BY <4>1, <4>2
    <3>3. QED
      BY <2>1, <2>3, <3>1, <3>2
  <2>4. QED
    BY <2>2, <2>3
<1>5. /\ intents' \in [Tracks -> Intents]
      /\ \A k \in Tracks : intents'[k] = left(k) /\ pending'[k] = Owing(intents'[k])
      /\ pending' = [k \in Tracks |-> Owing(intents'[k])]
  BY <1>1, <1>4
<1> HIDE DEF left, rest
<1>6. Types'
  <2>1. drains' \subseteq Drains /\ \A e \in drains' : e.pc = "sending" => e.key \in Tracks
    BY <1>3, DrainTyped
  <2>2. sender' \in BOOLEAN
    BY <1>2, <1>3 DEF FollowInv, Types
  <2>3. QED
    BY <1>1, <1>5, <2>1, <2>2, NoSnapshotIsConstant DEF FollowInv, Types
<1>7. PendingIsOwed'
  BY <1>5 DEF PendingIsOwed, Owing, Dirty, UpdateOf, NoUpdate, HeldEmpty
<1>8. OneDrain'
  BY <1>1, <1>3, DrainTyped, NoSnapshotIsConstant DEF OneDrain
<1>9. InFlight'
  BY <1>3, DrainTyped DEF InFlight
<1>10. SnapshotIsOfIntents' /\ AllIsOwed'
  BY <1>1, NoSnapshotIsConstant DEF SnapshotIsOfIntents, AllIsOwed
<1>11. ServerHasTheRest'
  <2>1. SUFFICES ASSUME link = "open", NEW k \in Tracks \ overtaken
                 PROVE  /\ ~left(k).subscriptionDirty => server[k].subscribed = left(k).subscribed
                        /\ k \in Video /\ ~left(k).settingsDirty =>
                             server[k].settings = left(k).settings
    BY <1>1, <1>5 DEF ServerHasTheRest
  <2>2. intents[k].subscriptionDirty /\ (k \in Video => intents[k].settingsDirty)
    BY <1>1 DEF FollowInv, AllIsOwed
  <2>3. k \in done => server[k].subscribed = intents[k].subscribed
    BY <1>1, <1>2, <1>4, <2>1 DEF FollowInv, SnapshotIsOfIntents
  <2>4. QED
    BY <1>4, <2>1, <2>2, <2>3
<1>12. QED
  BY <1>6, <1>7, <1>8, <1>9, <1>10, <1>11 DEF FollowInv

LEMMA FullRestartFollows ==
  ASSUME FollowInv, SyncInv', FullRestart
  PROVE  FollowInv'
BY NoSnapshotIsConstant
DEF FullRestart, FollowInv, Types, PendingIsOwed, OneDrain, InFlight, SnapshotIsOfIntents,
    AllIsOwed, ServerHasTheRest, InSession

LEMMA DefaultIsClean ==
  /\ DefaultIntent \in Intents /\ DefaultSettings \in Settings
  /\ Owing(DefaultIntent) = NoUpdate
  /\ DefaultIntent.subscribed = TRUE /\ DefaultIntent.settings = DefaultSettings
BY DEF DefaultIntent, DefaultSettings, Intents, Settings, Owing, Dirty

LEMMA RejoinFollows ==
  ASSUME FollowInv, SyncInv', NEW sameRoom \in BOOLEAN, Rejoin(sameRoom)
  PROVE  FollowInv'
<1>1. /\ room = "Restarting" /\ room' = "Rejoined" /\ drains = {} /\ snapshot = NoSnapshot
      /\ link' = "open" /\ synced' = TRUE
      /\ server' = [k \in Tracks |-> [subscribed |-> TRUE, settings |-> DefaultSettings]]
      /\ UNCHANGED <<snapshot, barrier, sender, drains, faults>>
  BY DEF Rejoin, FollowInv, OneDrain
<1>2. server' \in [Tracks -> [subscribed : BOOLEAN, settings : Settings]]
  BY <1>1, DefaultIsClean
<1>3. OneDrain' /\ InFlight' /\ SnapshotIsOfIntents' /\ AllIsOwed'
  BY <1>1, NoSnapshotIsConstant
  DEF FollowInv, OneDrain, InFlight, SnapshotIsOfIntents, AllIsOwed
<1>4. CASE sameRoom
  <2>1. UNCHANGED <<intents, pending, plan, recovering, overtaken>>
    BY <1>4 DEF Rejoin
  <2>2. Types' /\ PendingIsOwed'
    BY <1>1, <1>2, <2>1, NoSnapshotIsConstant DEF FollowInv, Types, PendingIsOwed
  <2>3. ServerHasTheRest'
    BY <1>1, <2>1 DEF FollowInv, AllIsOwed, ServerHasTheRest
  <2>4. QED
    BY <1>3, <2>2, <2>3 DEF FollowInv
<1>5. CASE ~sameRoom
  <2>1. /\ intents' = [k \in Tracks |-> DefaultIntent] /\ pending' = [k \in Tracks |-> NoUpdate]
        /\ plan' = FALSE /\ recovering' = FALSE /\ overtaken' = {}
    BY <1>5 DEF Rejoin
  <2>2. Types'
    BY <1>1, <1>2, <2>1, DefaultIsClean, NoSnapshotIsConstant DEF FollowInv, Types
  <2>3. PendingIsOwed'
    <3>1. pending' = [k \in Tracks |-> Owing(intents'[k])]
      BY <2>1, DefaultIsClean
    <3>2. QED
      BY <3>1 DEF PendingIsOwed, Owing, Dirty, UpdateOf, NoUpdate, HeldEmpty
  <2>4. ServerHasTheRest'
    BY <1>1, <2>1, DefaultIsClean DEF ServerHasTheRest
  <2>5. QED
    BY <1>3, <2>2, <2>3, <2>4 DEF FollowInv
<1>6. QED
  BY <1>4, <1>5

LEMMA RestartCommitsFollows ==
  ASSUME FollowInv, SyncInv', RestartCommits
  PROVE  FollowInv'
<1>1. /\ room = "Rejoined" /\ room' = "Connected" /\ barrier' = FALSE
      /\ UNCHANGED <<plan, recovering, snapshot, intents, pending, link, server, synced, faults,
                     overtaken>>
  BY DEF RestartCommits, serverVars
<1>2. snapshot = NoSnapshot /\ drains = {} /\ ~sender
  BY <1>1 DEF FollowInv, OneDrain
<1>3. \/ drains' = {} /\ sender' = sender
      \/ drains' = {Drain(TRUE)} /\ sender' = TRUE
  BY <1>2, DrainStarts DEF RestartCommits
<1>4. Types'
  <2>1. drains' \subseteq Drains /\ \A e \in drains' : e.pc = "sending" => e.key \in Tracks
    BY <1>3, DrainTyped
  <2>2. sender' \in BOOLEAN
    BY <1>2, <1>3 DEF FollowInv, Types
  <2>3. QED
    BY <1>1, <2>1, <2>2, NoSnapshotIsConstant DEF FollowInv, Types
<1>5. OneDrain'
  BY <1>1, <1>2, <1>3, DrainTyped, NoSnapshotIsConstant DEF OneDrain
<1>6. InFlight'
  BY <1>3, DrainTyped DEF InFlight
<1>7. PendingIsOwed' /\ SnapshotIsOfIntents' /\ AllIsOwed' /\ ServerHasTheRest'
  BY <1>1, <1>2, NoSnapshotIsConstant
  DEF FollowInv, PendingIsOwed, SnapshotIsOfIntents, AllIsOwed, ServerHasTheRest, InSession
<1>8. QED
  BY <1>4, <1>5, <1>6, <1>7 DEF FollowInv

-----------------------------------------------------------------------------

LEMMA InitFollows ==
  ASSUME Init
  PROVE  FollowInv
<1>1. SyncInv
  BY DEF Init, SyncInv, SessionIsSynced, NoDrainIsBehind
<1>2. Types
  BY DefaultIsClean DEF Init, Types
<1>3. PendingIsOwed
  BY DefaultIsClean DEF Init, PendingIsOwed
<1>4. OneDrain /\ InFlight /\ SnapshotIsOfIntents /\ AllIsOwed
  BY DEF Init, OneDrain, InFlight, SnapshotIsOfIntents, AllIsOwed
<1>5. ServerHasTheRest
  BY DefaultIsClean DEF Init, ServerHasTheRest
<1>6. QED
  BY <1>1, <1>2, <1>3, <1>4, <1>5 DEF FollowInv

LEMMA StepFollows ==
  ASSUME FollowInv, [Next]_vars
  PROVE  FollowInv'
<1>1. SyncInv'
  BY StepKeeps DEF FollowInv
<1>2. CASE \E k \in Tracks, subscribed \in BOOLEAN : SetSubscribed(k, subscribed)
  BY <1>2, SetSubscribedFollows
<1>3. CASE \E k \in Tracks, settings \in Settings : SetSettings(k, settings)
  BY <1>3, SetSettingsFollows
<1>4. CASE \E selection \in SUBSET Tracks : ApplyRemoteMediaPlan(selection)
  BY <1>4, PlanFollows
<1>5. CASE OnIceConnected
  BY <1>5, IceFollows
<1>6. CASE DrainStep
  BY <1>1, <1>6, DrainEndsFollows, DrainSentFollows, DrainSendsFollows, DrainThrowsFollows
  DEF DrainStep
<1>7. CASE LinkBreaks \/ Close
  BY <1>1, <1>7, LinkBreaksFollows, CloseFollows
<1>8. CASE HandshakeTimesOut
  BY <1>8, HandshakeFollows
<1>9. CASE BuildSyncState \/ SendSyncState \/ ResumeCommits
  BY <1>1, <1>9, BuildSyncStateFollows, SendSyncStateFollows, ResumeCommitsFollows
<1>10. CASE FullRestart \/ RestartCommits
  BY <1>1, <1>10, FullRestartFollows, RestartCommitsFollows
<1>11. CASE \E sameRoom \in BOOLEAN : Rejoin(sameRoom)
  BY <1>1, <1>11, RejoinFollows
<1>12. CASE UNCHANGED vars
  <2>1. UNCHANGED <<room, plan, recovering, snapshot, intents, pending, barrier, sender, drains,
                    link, server, synced, faults, overtaken>>
    BY <1>12 DEF vars, recoveryVars, serverVars
  <2>2. QED
    BY <1>1, <2>1, NoSnapshotIsConstant
    DEF FollowInv, Types, PendingIsOwed, OneDrain, InFlight, SnapshotIsOfIntents, AllIsOwed,
        ServerHasTheRest, InSession
<1>13. QED
  BY <1>2, <1>3, <1>4, <1>5, <1>6, <1>7, <1>8, <1>9, <1>10, <1>11, <1>12 DEF Next

\* What is pending, what is under way and what the server was told fit together
\* through every change, loss, resume and restart.
THEOREM FollowInvariant == Spec => []FollowInv
BY InitFollows, StepFollows, PTL DEF Spec

\* Types of all variables, for any tracks and bounds.
THEOREM TypesHold == Spec => []TypeOK
<1>1. FollowInv => TypeOK
  <2>1. SUFFICES ASSUME FollowInv PROVE TypeOK
    OBVIOUS
  <2>2. \A k \in Tracks : pending[k] # NoUpdate => Dirty(pending[k])
    <3>1. SUFFICES ASSUME NEW k \in Tracks, pending[k] # NoUpdate PROVE Dirty(pending[k])
      OBVIOUS
    <3>2. pending[k] = Owing(intents[k]) /\ intents[k] \in Intents
      BY <2>1 DEF FollowInv, Types, PendingIsOwed
    <3>3. pending[k] = UpdateOf(intents[k]) /\ Dirty(intents[k])
      BY <3>1, <3>2, OwingTyped
    <3>4. QED
      BY <3>3 DEF Dirty, UpdateOf
  <2>3. {barrier, sender, plan, recovering, synced} \subseteq BOOLEAN
    BY <2>1 DEF FollowInv, Types
  <2>4. QED
    BY <2>1, <2>2, <2>3 DEF FollowInv, SyncInv, Types, TypeOK, Intents
<1> QED BY <1>1, FollowInvariant, PTL

\* When nothing is left to send the server does what the room wants of every
\* track, unless a replaced drain has called sent what a dying socket lost
\* (DrainSubscriptionUpdates, FinishSubscriptionRecoveryLocked).
THEOREM QuietServerFollows == Spec => []ServerFollowsOrOvertaken
<1>1. FollowInv => ServerFollowsOrOvertaken
  <2>1. SUFFICES ASSUME FollowInv, Quiet, NEW k \in Tracks \ overtaken PROVE Agrees(k)
    BY DEF ServerFollowsOrOvertaken
  <2>2. ~Dirty(intents[k])
    BY <2>1, OwingTyped DEF FollowInv, Types, PendingIsOwed, Quiet
  <2>3. QED
    BY <2>1, <2>2 DEF FollowInv, ServerHasTheRest, Quiet, InSession, Agrees, Dirty
<1> QED BY <1>1, FollowInvariant, PTL

=============================================================================
