------------------------- MODULE SyncTargets_proofs -------------------------
(***************************************************************************)
(* No SyncTarget is left ready unwatched, for every set of targets and     *)
(* shards, every threshold and every sequence of events; and once all      *)
(* controllers are done the URLs, readiness, labels and the count of the   *)
(* location are right.                                                     *)
(*                                                                         *)
(* Settled is the inductive invariant of the second: one conjunct for each *)
(* controller, saying that what its pass would still change has a key in   *)
(* the queue, an event on its way or a timer running.  UidsAreOld and      *)
(* PatchIsRight are what it needs to know of a patch that was made from    *)
(* the copy of a target that has since been deleted and created again.     *)
(***************************************************************************)
EXTENDS SyncTargets, FiniteSetTheorems, TLAPS

HeartbeatInv == TargetsTyped /\ SeenIsWatched

-----------------------------------------------------------------------------
(* Steps that leave the heartbeat controller's state alone, and change the  *)
(* stored targets in nothing that it looks at.                              *)
Watching == <<seen, beats, checks>>

(* Where a target is ready after such a step it was so before.              *)
LEMMA UntouchedIsWatched ==
    ASSUME SeenIsWatched, UNCHANGED Watching,
           \A t \in Targets : Ready(target'[t]) => Ready(target[t])
    PROVE  SeenIsWatched'
  BY DEF SeenIsWatched, Watching, Ready

(* Time passes for a copy, stored or cached: it keeps its type, and its     *)
(* heartbeat grows by at most one.                                          *)
LEMMA OlderKeeps ==
    ASSUME NEW s \in [Targets -> SyncTarget \cup {None}]
    PROVE  /\ Older(s) \in [Targets -> SyncTarget \cup {None}]
           /\ \A t \in Targets : Ready(Older(s)[t]) =>
                 /\ Ready(s[t])
                 /\ s[t].hb <= Threshold => Older(s)[t].hb = s[t].hb + 1
  <1>1. ASSUME NEW t \in Targets
        PROVE  /\ Older(s)[t] \in SyncTarget \cup {None}
               /\ Ready(Older(s)[t]) =>
                    /\ Ready(s[t])
                    /\ s[t].hb <= Threshold => Older(s)[t].hb = s[t].hb + 1
    <2>1. CASE s[t] = None
      BY <2>1 DEF Older, Ready
    <2>2. CASE s[t] # None
      BY <2>2, Constants DEF Older, Ready, SyncTarget, Ages
    <2> QED BY <2>1, <2>2
  <1> QED BY <1>1 DEF Older

-----------------------------------------------------------------------------
LEMMA InitWatched == Init => HeartbeatInv
  BY Constants DEF Init, HeartbeatInv, TargetsTyped, SeenIsWatched, Ready

(* The heartbeat controller sets a timer that ends no later than the        *)
(* heartbeat does, or keeps the key.                                        *)
LEMMA HeartbeatKeeps ==
    ASSUME HeartbeatInv, NEW t \in Targets, HeartbeatProcess(t)
    PROVE  HeartbeatInv'
  <1> USE DEF HeartbeatInv
  <1>1. CASE seen[t] = None
    <2>1. UNCHANGED <<target, seen, checks, shards, shardsSeen, patch, events>> /\ beats' = beats \ {t}
      BY <1>1 DEF HeartbeatProcess, caches
    <2>2. SeenIsWatched'
      BY <1>1, <2>1 DEF SeenIsWatched, Ready
    <2> QED BY <2>1, <2>2 DEF TargetsTyped
  <1>2. CASE seen[t] # None
    <2> DEFINE ready == IF Healthy(seen[t]) THEN "true" ELSE "false"
               conflict == ready # seen[t].ready /\ seen[t] # target[t]
    <2>1. /\ checks' = IF Healthy(seen[t]) THEN CheckAfter(t, seen[t].hb) ELSE checks
          /\ beats' = IF conflict \/ seen[t].hb = Threshold THEN beats ELSE beats \ {t}
          /\ target' = IF conflict \/ ready = seen[t].ready THEN target
                       ELSE [target EXCEPT ![t].ready = ready]
          /\ UNCHANGED <<seen, shards, shardsSeen, patch, events>>
          /\ t \in beats
      BY <1>2 DEF HeartbeatProcess, caches
    <2>2. seen[t] \in SyncTarget /\ seen[t].hb \in 0 .. Threshold + 1
      BY <1>2 DEF TargetsTyped, SyncTarget, Ages
    <2>3. /\ checks' \in [Targets -> 1 .. Threshold \cup {None}]
          /\ \A u \in Targets : u # t => checks'[u] = checks[u]
          /\ Healthy(seen[t]) /\ seen[t].hb # Threshold =>
                checks'[t] # None /\ checks'[t] <= Threshold - seen[t].hb
      BY <2>1, <2>2, Constants DEF CheckAfter, TargetsTyped, Healthy
    <2>4. /\ target' \in [Targets -> SyncTarget \cup {None}]
          /\ \A u \in Targets : u # t => target'[u] = target[u]
      <3>1. CASE conflict \/ ready = seen[t].ready
        BY <2>1, <3>1 DEF TargetsTyped
      <3>2. CASE ~(conflict \/ ready = seen[t].ready)
        <4>1. target[t] \in SyncTarget
          BY <3>2, <1>2, <2>2
        <4>2. ready \in {"unknown", "true", "false"}
          OBVIOUS
        <4> HIDE DEF ready
        <4>3. [target[t] EXCEPT !.ready = ready] \in SyncTarget
          BY <4>1, <4>2 DEF SyncTarget
        <4> QED BY <2>1, <3>2, <4>3 DEF TargetsTyped
      <3> QED BY <3>1, <3>2
    <2>5. TargetsTyped'
      BY <2>1, <2>3, <2>4 DEF TargetsTyped
    <2>6. ASSUME NEW u \in Targets, Ready(seen'[u]), Ready(target'[u])
          PROVE  u \in beats' \/ (checks'[u] # None /\ checks'[u] <= Threshold - seen'[u].hb)
      <3>1. CASE u # t
        BY <2>1, <2>3, <2>4, <2>6, <3>1 DEF SeenIsWatched
      <3>2. CASE u = t
        <4>1. CASE Healthy(seen[t])
          BY <2>1, <2>3, <3>2, <4>1
        <4>2. CASE ~Healthy(seen[t])
          <5>1. ready = "false" /\ seen[t].ready = "true"
            BY <2>1, <2>6, <3>2, <4>2 DEF Ready
          <5>2. conflict
            <6>1. SUFFICES ASSUME ~conflict PROVE FALSE
              OBVIOUS
            <6>2. target' = [target EXCEPT ![t].ready = "false"]
              BY <2>1, <5>1, <6>1
            <6>3. target[t] \in SyncTarget
              BY <1>2, <2>2, <5>1, <6>1
            <6>4. target'[t].ready = "false"
              BY <6>2, <6>3 DEF TargetsTyped, SyncTarget
            <6> QED BY <6>4, <2>6, <3>2 DEF Ready
          <5> QED BY <2>1, <5>2, <3>2
        <4> QED BY <4>1, <4>2
      <3> QED BY <3>1, <3>2
    <2> QED BY <2>5, <2>6 DEF SeenIsWatched
  <1> QED BY <1>1, <1>2

(* A timer that does not run out is one nearer to its end, like the         *)
(* heartbeat that it waits for.                                             *)
LEMMA TickKeeps ==
    ASSUME HeartbeatInv, Tick
    PROVE  HeartbeatInv'
  <1> USE DEF HeartbeatInv
  <1>1. /\ target' = Older(target) /\ seen' = Older(seen)
        /\ beats' = beats \cup {t \in Targets : checks[t] = 1}
        /\ checks' = [t \in Targets |-> IF checks[t] \in {None, 1} THEN None ELSE checks[t] - 1]
        /\ UNCHANGED <<shards, shardsSeen, patch, events>>
    BY DEF Tick
  <1>2. checks' \in [Targets -> 1 .. Threshold \cup {None}]
    <2>1. ASSUME NEW t \in Targets, checks[t] \notin {None, 1}
          PROVE  checks[t] - 1 \in 1 .. Threshold
      BY <2>1, Constants DEF TargetsTyped
    <2> QED BY <1>1, <2>1
  <1>3. TargetsTyped'
    BY <1>1, <1>2, OlderKeeps DEF TargetsTyped
  <1>4. ASSUME NEW t \in Targets, Ready(seen'[t]), Ready(target'[t])
        PROVE  t \in beats' \/ (checks'[t] # None /\ checks'[t] <= Threshold - seen'[t].hb)
    <2>1. Ready(seen[t]) /\ Ready(target[t])
      BY <1>1, <1>4, OlderKeeps DEF TargetsTyped
    <2>2. CASE t \in beats \/ checks[t] = 1
      BY <1>1, <2>2
    <2>3. CASE t \notin beats /\ checks[t] # 1
      <3>1. checks[t] # None /\ checks[t] <= Threshold - seen[t].hb
        BY <2>1, <2>3 DEF SeenIsWatched
      <3>2. checks[t] \in 1 .. Threshold /\ seen[t].hb \in 0 .. Threshold + 1
        BY <3>1, <2>1 DEF TargetsTyped, Ready, SyncTarget, Ages
      <3>3. seen'[t].hb = seen[t].hb + 1
        BY <1>1, <1>4, <3>1, <3>2, OlderKeeps, Constants DEF TargetsTyped
      <3>4. checks'[t] = checks[t] - 1
        BY <1>1, <2>3, <3>1
      <3>5. checks'[t] # None
        BY <3>2, <3>4, Constants
      <3> QED BY <3>1, <3>2, <3>3, <3>4, <3>5, Constants
    <2> QED BY <2>2, <2>3
  <1> QED BY <1>3, <1>4 DEF SeenIsWatched

-----------------------------------------------------------------------------
(* The other controllers and the environment.                               *)
LEMMA SeeTargetKeeps ==
    ASSUME HeartbeatInv, NEW t \in Targets, SeeTarget(t)
    PROVE  HeartbeatInv'
  <1> USE DEF HeartbeatInv
  <1>1. PICK new \in NextSeen(t) :
          seen' = [seen EXCEPT ![t] = new] /\ beats' = beats \cup Added(t, new)
    BY DEF SeeTarget, NotifyHeartbeat
  <1>2. UNCHANGED <<target, shards, shardsSeen, checks, patch, events>>
    BY DEF SeeTarget, stored
  <1>3. new \in SyncTarget \cup {None}
    BY DEF NextSeen, TargetsTyped
  <1>4. TargetsTyped'
    BY <1>1, <1>2, <1>3 DEF TargetsTyped, Added
  <1>5. SeenIsWatched'
    BY <1>1, <1>2 DEF SeenIsWatched, Ready, TargetsTyped, Added
  <1> QED BY <1>4, <1>5

LEMMA RestartKeeps ==
    ASSUME HeartbeatInv, Restart
    PROVE  HeartbeatInv'
  BY Constants DEF HeartbeatInv, Restart, Event, TargetsTyped, SeenIsWatched, Ready, Existing

(* A write to a stored target that is there, which neither makes it ready   *)
(* nor gives a field a value of another type.                               *)
LEMMA WriteKeeps ==
    ASSUME HeartbeatInv, NEW t \in Targets, NEW new \in SyncTarget \cup {None},
           target' = [target EXCEPT ![t] = new],
           Ready(new) => Ready(target[t]),
           UNCHANGED <<seen, shardsSeen, beats, checks>>,
           shards' \subseteq Shards, patch' \in [Targets -> URLs \cup {None}], events' \in Nat
    PROVE  HeartbeatInv'
  <1>1. SeenIsWatched'
    BY UntouchedIsWatched DEF HeartbeatInv, Watching, TargetsTyped
  <1> QED BY <1>1 DEF HeartbeatInv, TargetsTyped

LEMMA PatchKeeps ==
    ASSUME HeartbeatInv, NEW t \in Targets, PatchSyncTarget(t)
    PROVE  HeartbeatInv'
  <1>1. UNCHANGED <<seen, shards, shardsSeen, beats, checks, events>>
    BY DEF PatchSyncTarget, caches
  <1>2. DesiredURLs(seen[t]) \in URLs \/ seen[t] = None
    BY DEF HeartbeatInv, TargetsTyped, SyncTarget, DesiredURLs, URLs
  <1>3. patch' \in [Targets -> URLs \cup {None}]
    BY <1>2 DEF PatchSyncTarget, HeartbeatInv, TargetsTyped
  <1>4. CASE target' = target
    BY <1>1, <1>3, <1>4, UntouchedIsWatched DEF HeartbeatInv, TargetsTyped, Watching
  <1>5. CASE target' # target
    <2>1. /\ seen[t] # None /\ target[t] # None
          /\ \E u \in {target[t].urls, DesiredURLs(seen[t])} :
               target' = [target EXCEPT ![t].key = TRUE, ![t].urls = u]
      BY <1>5 DEF PatchSyncTarget
    <2>2. PICK u \in {target[t].urls, DesiredURLs(seen[t])} :
             target' = [target EXCEPT ![t].key = TRUE, ![t].urls = u]
      BY <2>1
    <2> DEFINE new == [target[t] EXCEPT !.key = TRUE, !.urls = u]
    <2>3. target[t] \in SyncTarget /\ target' = [target EXCEPT ![t] = new]
      BY <2>1, <2>2 DEF HeartbeatInv, TargetsTyped
    <2>4. new \in SyncTarget /\ new.ready = target[t].ready
      BY <1>2, <2>1, <2>2, <2>3 DEF SyncTarget
    <2>5. Ready(new) => Ready(target[t])
      BY <2>1, <2>4 DEF Ready
    <2> HIDE DEF new
    <2> QED BY <1>1, <1>3, <2>3, <2>4, <2>5, WriteKeeps DEF HeartbeatInv, TargetsTyped
  <1> QED BY <1>4, <1>5

LEMMA PatchStatusKeeps ==
    ASSUME HeartbeatInv, NEW t \in Targets, PatchSyncTargetStatus(t)
    PROVE  HeartbeatInv'
  <1>1. UNCHANGED <<seen, shards, shardsSeen, beats, checks, events>>
    BY DEF PatchSyncTargetStatus, caches
  <1>2. patch[t] \in URLs /\ patch' \in [Targets -> URLs \cup {None}]
    BY DEF PatchSyncTargetStatus, HeartbeatInv, TargetsTyped
  <1>3. CASE target[t] = None
    BY <1>1, <1>2, <1>3, UntouchedIsWatched
       DEF PatchSyncTargetStatus, HeartbeatInv, TargetsTyped, Watching
  <1>4. CASE target[t] # None
    <2> DEFINE new == [target[t] EXCEPT !.urls = patch[t]]
    <2>1. target' = [target EXCEPT ![t] = new]
      BY <1>4 DEF PatchSyncTargetStatus, HeartbeatInv, TargetsTyped
    <2>2. new \in SyncTarget /\ new.ready = target[t].ready
      BY <1>2, <1>4 DEF HeartbeatInv, TargetsTyped, SyncTarget
    <2>3. Ready(new) => Ready(target[t])
      BY <1>4, <2>2 DEF Ready
    <2> HIDE DEF new
    <2> QED BY <1>1, <1>2, <2>1, <2>2, <2>3, WriteKeeps DEF HeartbeatInv, TargetsTyped
  <1> QED BY <1>3, <1>4

LEMMA BeatKeeps ==
    ASSUME HeartbeatInv, NEW t \in Targets, Beat(t)
    PROVE  HeartbeatInv'
  <1> DEFINE new == [target[t] EXCEPT !.hb = 0]
  <1>1. /\ target[t] \in SyncTarget /\ target[t] # None
        /\ target' = [target EXCEPT ![t] = new]
        /\ UNCHANGED <<seen, shards, shardsSeen, beats, checks, patch, events>>
    BY DEF Beat, HeartbeatInv, TargetsTyped, queues
  <1>2. new \in SyncTarget /\ new.ready = target[t].ready
    BY <1>1, Constants DEF SyncTarget, Ages
  <1>3. Ready(new) => Ready(target[t])
    BY <1>1, <1>2 DEF Ready
  <1> HIDE DEF new
  <1> QED BY <1>1, <1>2, <1>3, WriteKeeps DEF HeartbeatInv, TargetsTyped

LEMMA TargetEventKeeps ==
    ASSUME HeartbeatInv, NEW t \in Targets, CreateTarget(t) \/ DeleteTarget(t) \/ Cordon(t)
    PROVE  HeartbeatInv'
  <1>1. /\ events' \in Nat
        /\ UNCHANGED <<seen, shards, shardsSeen, beats, checks, patch>>
    BY DEF CreateTarget, DeleteTarget, Cordon, Event, caches, queues, HeartbeatInv, TargetsTyped
  <1>2. CASE CreateTarget(t)
    <2> DEFINE new == [uid |-> events + 1, hb |-> Threshold + 1, ready |-> "unknown",
                       unschedulable |-> FALSE, key |-> FALSE, urls |-> NoURLs]
    <2>1. target' = [target EXCEPT ![t] = new]
      BY <1>2 DEF CreateTarget
    <2>2. new \in SyncTarget /\ ~Ready(new)
      BY Constants DEF HeartbeatInv, TargetsTyped, SyncTarget, Ages, URLs, NoURLs, Ready
    <2> HIDE DEF new
    <2> QED BY <1>1, <2>1, <2>2, WriteKeeps DEF HeartbeatInv, TargetsTyped
  <1>3. CASE DeleteTarget(t)
    <2>1. target' = [target EXCEPT ![t] = None] /\ ~Ready(None)
      BY <1>3 DEF DeleteTarget, Ready
    <2> QED BY <1>1, <2>1, WriteKeeps DEF HeartbeatInv, TargetsTyped
  <1>4. CASE Cordon(t)
    <2> DEFINE new == [target[t] EXCEPT !.unschedulable = ~@]
    <2>1. /\ target[t] \in SyncTarget /\ target[t] # None
          /\ target' = [target EXCEPT ![t] = new]
      BY <1>4 DEF Cordon, HeartbeatInv, TargetsTyped
    <2>2. new \in SyncTarget /\ new.ready = target[t].ready
      BY <2>1 DEF SyncTarget
    <2>3. Ready(new) => Ready(target[t])
      BY <2>1, <2>2 DEF Ready
    <2> HIDE DEF new
    <2> QED BY <1>1, <2>1, <2>2, <2>3, WriteKeeps DEF HeartbeatInv, TargetsTyped
  <1> QED BY <1>2, <1>3, <1>4

(* What does not write SyncTargets at all.                                  *)
LEMMA ElsewhereKeeps ==
    ASSUME HeartbeatInv,
           UNCHANGED <<target, seen, beats, checks>>,
           shards' \subseteq Shards, shardsSeen' \subseteq Shards,
           patch' \in [Targets -> URLs \cup {None}], events' \in Nat
    PROVE  HeartbeatInv'
  BY UntouchedIsWatched DEF HeartbeatInv, TargetsTyped, Watching

-----------------------------------------------------------------------------
LEMMA StepKeeps ==
    ASSUME HeartbeatInv, [Next]_vars
    PROVE  HeartbeatInv'
  <1> USE DEF HeartbeatInv
  <1>1. CASE CreateDefaultLocation \/ LocationProcess \/ LabelLogicalCluster
    BY <1>1, ElsewhereKeeps
       DEF CreateDefaultLocation, LocationProcess, LabelLogicalCluster, caches, TargetsTyped
  <1>2. ASSUME NEW t \in Targets,
               HeartbeatProcess(t) \/ PatchSyncTarget(t) \/ PatchSyncTargetStatus(t)
        PROVE  HeartbeatInv'
    BY <1>2, HeartbeatKeeps, PatchKeeps, PatchStatusKeeps
  <1>3. CASE SeeShards \/ SeeLocation
    BY <1>3, ElsewhereKeeps DEF SeeShards, SeeLocation, stored, TargetsTyped
  <1>4. ASSUME NEW t \in Targets, SeeTarget(t)
        PROVE  HeartbeatInv'
    BY <1>4, SeeTargetKeeps
  <1>5. CASE Tick
    BY <1>5, TickKeeps
  <1>6. CASE LabelLocation \/ DeleteLocation
    BY <1>6, ElsewhereKeeps DEF LabelLocation, DeleteLocation, Event, caches, queues, TargetsTyped
  <1>7. CASE ShardChanges
    BY <1>7, ElsewhereKeeps DEF ShardChanges, Event, caches, queues, TargetsTyped
  <1>8. CASE Restart
    BY <1>8, RestartKeeps
  <1>9. ASSUME NEW t \in Targets,
               CreateTarget(t) \/ DeleteTarget(t) \/ Cordon(t)
        PROVE  HeartbeatInv'
    BY <1>9, TargetEventKeeps
  <1>10. ASSUME NEW t \in Targets, SyncerStartsOrStops(t)
         PROVE  HeartbeatInv'
    BY <1>10, ElsewhereKeeps DEF SyncerStartsOrStops, Event, stored, caches, queues, TargetsTyped
  <1>11. ASSUME NEW t \in Targets, RequestFails(t)
         PROVE  HeartbeatInv'
    BY <1>11, ElsewhereKeeps DEF RequestFails, Event, stored, caches, TargetsTyped
  <1>12. ASSUME NEW t \in Targets, Beat(t)
         PROVE  HeartbeatInv'
    BY <1>12, BeatKeeps
  <1>13. CASE UNCHANGED vars
    BY <1>13, ElsewhereKeeps DEF vars, TargetsTyped
  <1> QED
    BY <1>1, <1>2, <1>3, <1>4, <1>5, <1>6, <1>7, <1>8, <1>9, <1>10, <1>11, <1>12, <1>13
       DEF Next, Controllers, Locations, Informers, Environment

(* The cached copy of a ready target is watched, always.                    *)
THEOREM Watched == Spec => []HeartbeatInv
  <1>1. Init => HeartbeatInv
    BY InitWatched
  <1>2. HeartbeatInv /\ [Next]_vars => HeartbeatInv'
    BY StepKeeps
  <1> QED BY <1>1, <1>2, PTL DEF Spec

(* No SyncTarget is left ready unwatched: the heartbeat controller looks at *)
(* it no later than when its heartbeat gets too old, for every threshold    *)
(* and however its cache lags behind.                                       *)
THEOREM NoneUnwatched == Spec => []ReadyIsWatched
  <1>1. HeartbeatInv => ReadyIsWatched
    BY DEF HeartbeatInv, SeenIsWatched, ReadyIsWatched, Ready, Existing
  <1> QED BY <1>1, Watched, PTL

-----------------------------------------------------------------------------
(* Nothing is left to do when the queues are empty.  The proof goes over     *)
(* one target at a time, and then over the location and the label.           *)

(* UidsAreOld, PatchIsRight, UrlsSettled and ReadySettled, of one target.    *)
KeyOK(t) ==
    /\ seen[t] # None => seen[t].uid <= events
    /\ target[t] # None => target[t].uid <= events
    /\ seen[t] # None /\ t \notin urlQueue /\ patch[t] # None =>
         patch[t] = DesiredURLs(seen[t]) /\ seen[t].urls # patch[t]
    /\ /\ seen[t] # None /\ target[t] # None /\ t \notin urlQueue /\ patch[t] = None
       /\ seen[t].uid = target[t].uid
       /\ seen[t].key = target[t].key /\ seen[t].urls = target[t].urls
       => seen[t].key /\ seen[t].urls = DesiredURLs(seen[t])
    /\ /\ seen[t] # None /\ target[t] # None /\ t \notin beats
       /\ seen[t].uid = target[t].uid /\ seen[t].ready = target[t].ready
       => seen[t].ready = IF Healthy(seen[t]) THEN "true" ELSE "false"

KeysOK == \A t \in Targets : KeyOK(t)
PlaceOK == LocationSettled /\ DefaultSettled /\ LabelSettled

SettledInv == HeartbeatInv /\ TypeOK /\ KeysOK /\ PlaceOK

LEMMA KeysAreSettled ==
    KeysOK => UidsAreOld /\ PatchIsRight /\ UrlsSettled /\ ReadySettled
  BY DEF KeysOK, KeyOK, UidsAreOld, PatchIsRight, UrlsSettled, ReadySettled, Existing

(* A target that a step does not touch.                                      *)
LEMMA KeyFrame ==
    ASSUME HeartbeatInv, NEW u \in Targets, KeyOK(u),
           seen'[u] = seen[u], target'[u] = target[u], patch'[u] = patch[u],
           shardsSeen' = shardsSeen, u \in urlQueue => u \in urlQueue',
           u \in beats => u \in beats', events' \in Nat, events <= events'
    PROVE  KeyOK(u)'
  <1>1. /\ seen[u] # None => seen[u].uid \in Nat
        /\ target[u] # None => target[u].uid \in Nat
        /\ events \in Nat
    BY DEF HeartbeatInv, TargetsTyped, SyncTarget
  <1>2. DesiredURLs(seen[u])' = DesiredURLs(seen[u])
    BY DEF DesiredURLs
  <1>3. (seen'[u] # None => seen'[u].uid <= events') /\ (target'[u] # None => target'[u].uid <= events')
    BY <1>1 DEF KeyOK
  <1> QED BY <1>2, <1>3 DEF KeyOK, Healthy

(* The stored target changes, in what the URLs and the conditions do not     *)
(* depend on.                                                                *)
LEMMA KeySameFields ==
    ASSUME HeartbeatInv, NEW u \in Targets, KeyOK(u),
           seen'[u] = seen[u], target[u] # None, target'[u] # None, patch'[u] = patch[u],
           target'[u].uid = target[u].uid, target'[u].key = target[u].key,
           target'[u].urls = target[u].urls, target'[u].ready = target[u].ready,
           shardsSeen' = shardsSeen, u \in urlQueue => u \in urlQueue',
           u \in beats => u \in beats', events' \in Nat, events <= events'
    PROVE  KeyOK(u)'
  <1>1. /\ seen[u] # None => seen[u].uid \in Nat
        /\ target[u].uid \in Nat
        /\ events \in Nat
    BY DEF HeartbeatInv, TargetsTyped, SyncTarget
  <1>2. DesiredURLs(seen[u])' = DesiredURLs(seen[u])
    BY DEF DesiredURLs
  <1>3. (seen'[u] # None => seen'[u].uid <= events') /\ (target'[u] # None => target'[u].uid <= events')
    BY <1>1 DEF KeyOK
  <1> QED BY <1>2, <1>3 DEF KeyOK, Healthy

LEMMA HeartbeatSettles ==
    ASSUME HeartbeatInv, KeysOK, NEW t \in Targets, HeartbeatProcess(t)
    PROVE  KeysOK'
  <1>1. /\ UNCHANGED <<seen, shardsSeen, urlQueue, patch, events>>
        /\ \A u \in Targets : u # t => (u \in beats => u \in beats') /\ target'[u] = target[u]
        /\ events \in Nat
    BY DEF HeartbeatProcess, caches, HeartbeatInv, TargetsTyped
  <1>2. ASSUME NEW u \in Targets, u # t
        PROVE  KeyOK(u)'
    BY <1>1, <1>2, KeyFrame DEF KeysOK
  <1>3. KeyOK(t)'
    <2>1. CASE seen[t] = None
      BY <2>1, <1>1 DEF HeartbeatProcess, KeysOK, KeyOK
    <2>2. CASE seen[t] # None
      <3> DEFINE ready == IF Healthy(seen[t]) THEN "true" ELSE "false"
                 conflict == ready # seen[t].ready /\ seen[t] # target[t]
      <3>1. /\ beats' = IF conflict \/ seen[t].hb = Threshold THEN beats ELSE beats \ {t}
            /\ target' = IF conflict \/ ready = seen[t].ready THEN target
                         ELSE [target EXCEPT ![t].ready = ready]
            /\ t \in beats
        BY <2>2 DEF HeartbeatProcess
      <3>2. KeyOK(t)
        BY DEF KeysOK
      <3>3. DesiredURLs(seen[t])' = DesiredURLs(seen[t]) /\ Healthy(seen[t])' = Healthy(seen[t])
        BY <1>1 DEF DesiredURLs, Healthy
      <3>4. CASE conflict
        BY <3>1, <3>4, <1>1, KeyFrame DEF KeysOK
      <3>5. CASE ready = seen[t].ready
        <4>1. target' = target
          BY <3>1, <3>5
        <4> QED BY <4>1, <3>2, <3>3, <3>5, <1>1 DEF KeyOK
      <3>6. CASE ~conflict /\ ready # seen[t].ready
        <4>1. target[t] = seen[t] /\ target[t] \in SyncTarget
          BY <3>6, <2>2 DEF HeartbeatInv, TargetsTyped
        <4>2. target'[t] = [target[t] EXCEPT !.ready = ready]
          BY <3>1, <3>6 DEF HeartbeatInv, TargetsTyped
        <4>3. /\ target'[t].uid = target[t].uid /\ target'[t].key = target[t].key
              /\ target'[t].urls = target[t].urls /\ target'[t].ready = ready
          <5> HIDE DEF ready
          <5> QED BY <4>1, <4>2 DEF SyncTarget
        <4> HIDE DEF ready, conflict
        <4> QED BY <4>1, <4>3, <3>2, <3>3, <3>6, <1>1, <2>2 DEF KeyOK
      <3> QED BY <3>4, <3>5, <3>6
    <2> QED BY <2>1, <2>2
  <1> QED BY <1>2, <1>3 DEF KeysOK

(* Time: only a target that is watched gets too old unnoticed by the cache.  *)
LEMMA TickSettles ==
    ASSUME HeartbeatInv, KeysOK, Tick
    PROVE  KeysOK'
  <1>1. /\ target' = Older(target) /\ seen' = Older(seen)
        /\ beats' = beats \cup {t \in Targets : checks[t] = 1}
        /\ UNCHANGED <<shardsSeen, urlQueue, patch, events>>
    BY DEF Tick
  <1>2. SUFFICES ASSUME NEW t \in Targets PROVE KeyOK(t)'
    BY DEF KeysOK
  <1>3. KeyOK(t)
    BY DEF KeysOK
  <1>4. /\ seen'[t] # None => seen[t] # None
        /\ target'[t] # None => target[t] # None
    BY <1>1 DEF Older
  <1>5. CASE seen[t] = None
    <2>1. seen'[t] = None
      BY <1>5, <1>1 DEF Older
    <2>2. target[t] # None => target'[t].uid = target[t].uid
      BY <1>1, Constants DEF Older, HeartbeatInv, TargetsTyped, SyncTarget
    <2> QED BY <1>1, <1>3, <1>4, <2>1, <2>2 DEF KeyOK
  <1>6. CASE seen[t] # None /\ target[t] = None
    <2>1. target'[t] = None
      BY <1>6, <1>1 DEF Older
    <2>2. /\ seen'[t].uid = seen[t].uid /\ seen'[t].urls = seen[t].urls
      BY <1>6, <1>1, Constants DEF Older, HeartbeatInv, TargetsTyped, SyncTarget
    <2>3. DesiredURLs(seen[t])' = DesiredURLs(seen[t])
      BY <1>1, <2>2 DEF DesiredURLs
    <2> QED BY <1>1, <1>3, <1>4, <2>1, <2>2, <2>3 DEF KeyOK
  <1>7. CASE seen[t] # None /\ target[t] # None
    <2>1. /\ seen'[t].uid = seen[t].uid /\ seen'[t].urls = seen[t].urls
          /\ seen'[t].key = seen[t].key /\ seen'[t].ready = seen[t].ready
          /\ seen'[t].hb = IF seen[t].hb > Threshold THEN seen[t].hb ELSE seen[t].hb + 1
          /\ seen[t].hb \in 0 .. Threshold + 1
      BY <1>7, <1>1, Constants DEF Older, HeartbeatInv, TargetsTyped, SyncTarget, Ages
    <2>2. /\ target'[t].uid = target[t].uid /\ target'[t].urls = target[t].urls
          /\ target'[t].key = target[t].key /\ target'[t].ready = target[t].ready
      BY <1>7, <1>1, Constants DEF Older, HeartbeatInv, TargetsTyped, SyncTarget, Ages
    <2>3. DesiredURLs(seen[t])' = DesiredURLs(seen[t])
      BY <1>1, <2>1 DEF DesiredURLs
    <2>4. ASSUME t \notin beats', seen[t].uid = target[t].uid, seen[t].ready = target[t].ready
          PROVE  seen'[t].ready = IF Healthy(seen[t])' THEN "true" ELSE "false"
      <3>1. t \notin beats
        BY <1>1, <2>4
      <3>2. seen[t].ready = IF Healthy(seen[t]) THEN "true" ELSE "false"
        BY <1>3, <1>7, <2>4, <3>1 DEF KeyOK
      <3>3. CASE seen[t].hb # Threshold
        BY <2>1, <3>2, <3>3, Constants DEF Healthy
      <3>4. CASE seen[t].hb = Threshold
        <4>1. seen[t].ready = "true" /\ target[t].ready = "true"
          BY <2>4, <3>2, <3>4, Constants DEF Healthy
        <4>2. checks[t] # None /\ checks[t] <= Threshold - seen[t].hb
          BY <4>1, <3>1, <1>7 DEF HeartbeatInv, SeenIsWatched, Ready
        <4>3. checks[t] \in 1 .. Threshold
          BY <4>2 DEF HeartbeatInv, TargetsTyped
        <4> QED BY <4>2, <4>3, <3>4, Constants
      <3> QED BY <3>3, <3>4
    <2> QED BY <1>1, <1>3, <1>7, <2>1, <2>2, <2>3, <2>4 DEF KeyOK
  <1> QED BY <1>5, <1>6, <1>7

(* The first patch leaves the second one behind, or a key label that is not  *)
(* in the cache, or there was nothing to do.                                 *)
LEMMA PatchSettles ==
    ASSUME HeartbeatInv, KeysOK, NEW t \in Targets, PatchSyncTarget(t)
    PROVE  KeysOK'
  <1>1. /\ UNCHANGED <<seen, shardsSeen, beats, events>>
        /\ t \in urlQueue /\ urlQueue' \in {urlQueue, urlQueue \ {t}} /\ patch[t] = None
        /\ \A u \in Targets : u # t => target'[u] = target[u] /\ patch'[u] = patch[u]
        /\ events \in Nat
    BY DEF PatchSyncTarget, caches, HeartbeatInv, TargetsTyped
  <1>2. ASSUME NEW u \in Targets, u # t
        PROVE  KeyOK(u)'
    BY <1>1, <1>2, KeyFrame DEF KeysOK
  <1>3. KeyOK(t)'
    <2>1. CASE seen[t] = None
      BY <2>1, <1>1 DEF PatchSyncTarget, KeysOK, KeyOK
    <2>2. CASE seen[t] # None /\ ~seen[t].key /\ target[t] = None
      <3>1. urlQueue' = urlQueue /\ target' = target /\ patch' = patch
        BY <2>2 DEF PatchSyncTarget
      <3> QED BY <1>1, <3>1, KeyFrame DEF KeysOK
    <2>3. CASE seen[t] # None /\ (seen[t].key \/ target[t] # None)
      <3> DEFINE urls == DesiredURLs(seen[t])
      <3>1. /\ urlQueue' = urlQueue \ {t}
            /\ IF seen[t].key THEN target' = target
               ELSE \E u \in {target[t].urls, urls} :
                      target' = [target EXCEPT ![t].key = TRUE, ![t].urls = u]
            /\ patch' = IF urls = seen[t].urls THEN patch ELSE [patch EXCEPT ![t] = urls]
        BY <2>3 DEF PatchSyncTarget
      <3>2. urls \in URLs /\ urls # None
        BY <2>3, NoneIsNoObject DEF HeartbeatInv, TargetsTyped, SyncTarget, DesiredURLs, URLs
      <3>3. DesiredURLs(seen[t])' = urls /\ Healthy(seen[t])' = Healthy(seen[t])
        BY <1>1 DEF DesiredURLs, Healthy
      <3>4. patch'[t] = IF urls = seen[t].urls THEN None ELSE urls
        BY <3>1, <1>1 DEF HeartbeatInv, TargetsTyped
      <3>5. /\ target'[t] = None <=> target[t] = None
            /\ target[t] # None => /\ target'[t].uid = target[t].uid
                                   /\ target'[t].ready = target[t].ready
            /\ target[t] # None /\ ~seen[t].key => target'[t].key = TRUE
        <4>1. CASE seen[t].key
          BY <3>1, <4>1
        <4>2. CASE ~seen[t].key
          <5>1. target[t] \in SyncTarget
            BY <2>3, <4>2 DEF HeartbeatInv, TargetsTyped
          <5>2. PICK u \in {target[t].urls, urls} :
                   target' = [target EXCEPT ![t].key = TRUE, ![t].urls = u]
            BY <3>1, <4>2
          <5>3. /\ target'[t] \in SyncTarget /\ target'[t].uid = target[t].uid
                /\ target'[t].ready = target[t].ready /\ target'[t].key = TRUE
            BY <3>2, <5>1, <5>2 DEF HeartbeatInv, TargetsTyped, SyncTarget
          <5> QED BY <5>1, <5>3, NoneIsNoObject
        <4> QED BY <4>1, <4>2
      <3>6. KeyOK(t) /\ seen[t].key \in BOOLEAN
        BY <2>3 DEF KeysOK, HeartbeatInv, TargetsTyped, SyncTarget
      <3> HIDE DEF urls
      <3>7. target[t] # None /\ seen[t].key = target'[t].key => seen[t].key
        BY <3>5, <3>6
      <3> QED BY <1>1, <2>3, <3>1, <3>2, <3>3, <3>4, <3>5, <3>6, <3>7 DEF KeyOK
    <2> QED BY <2>1, <2>2, <2>3
  <1> QED BY <1>2, <1>3 DEF KeysOK

(* The second patch writes what the cache does not have.                     *)
LEMMA PatchStatusSettles ==
    ASSUME HeartbeatInv, KeysOK, NEW t \in Targets, PatchSyncTargetStatus(t)
    PROVE  KeysOK'
  <1>1. /\ UNCHANGED <<seen, shardsSeen, beats, events>>
        /\ urlQueue \subseteq urlQueue' /\ patch[t] # None /\ patch'[t] = None
        /\ \A u \in Targets : u # t => target'[u] = target[u] /\ patch'[u] = patch[u]
        /\ events \in Nat
    BY DEF PatchSyncTargetStatus, caches, HeartbeatInv, TargetsTyped
  <1>2. ASSUME NEW u \in Targets, u # t
        PROVE  KeyOK(u)'
    BY <1>1, <1>2, KeyFrame DEF KeysOK
  <1>3. KeyOK(t)'
    <2>1. CASE target[t] = None
      <3>1. target' = target /\ t \in urlQueue'
        BY <2>1 DEF PatchSyncTargetStatus
      <3> QED BY <2>1, <1>1, <3>1 DEF KeysOK, KeyOK
    <2>2. CASE target[t] # None
      <3>1. target[t] \in SyncTarget /\ patch[t] \in URLs
        BY <2>2, <1>1 DEF HeartbeatInv, TargetsTyped
      <3>2. target'[t] = [target[t] EXCEPT !.urls = patch[t]] /\ urlQueue' = urlQueue
        BY <2>2 DEF PatchSyncTargetStatus, HeartbeatInv, TargetsTyped
      <3>3. /\ target'[t].uid = target[t].uid /\ target'[t].ready = target[t].ready
            /\ target'[t].urls = patch[t]
        BY <3>1, <3>2 DEF SyncTarget
      <3>4. KeyOK(t) /\ Healthy(seen[t])' = Healthy(seen[t])
        BY <1>1 DEF KeysOK, Healthy
      <3> QED BY <1>1, <2>2, <3>2, <3>3, <3>4 DEF KeyOK
    <2> QED BY <2>1, <2>2
  <1> QED BY <1>2, <1>3 DEF KeysOK

(* What is seen is queued.                                                   *)
LEMMA SeeTargetSettles ==
    ASSUME HeartbeatInv, KeysOK, NEW t \in Targets, SeeTarget(t)
    PROVE  KeysOK'
  <1>1. PICK new \in NextSeen(t) :
          /\ seen' = [seen EXCEPT ![t] = new] /\ beats' = beats \cup Added(t, new)
          /\ urlQueue' = urlQueue \cup Added(t, new)
    BY DEF SeeTarget, NotifyHeartbeat, NotifySyncTarget
  <1>2. UNCHANGED <<target, shardsSeen, patch, events>> /\ events \in Nat
    BY DEF SeeTarget, stored, HeartbeatInv, TargetsTyped
  <1>3. ASSUME NEW u \in Targets, u # t
        PROVE  KeyOK(u)'
    BY <1>1, <1>2, <1>3, KeyFrame DEF KeysOK, HeartbeatInv, TargetsTyped
  <1>4. seen'[t] = new /\ (new = None \/ new = target[t])
    BY <1>1 DEF NextSeen, HeartbeatInv, TargetsTyped
  <1>5. KeyOK(t)'
    BY <1>1, <1>2, <1>4 DEF KeysOK, KeyOK, Added
  <1> QED BY <1>3, <1>5 DEF KeysOK

LEMMA SeeShardsSettles ==
    ASSUME HeartbeatInv, KeysOK, SeeShards
    PROVE  KeysOK'
  <1>1. UNCHANGED <<target, seen, patch, beats, events>> /\ urlQueue' = urlQueue \cup Existing(seen)
    BY DEF SeeShards, stored
  <1>2. SUFFICES ASSUME NEW t \in Targets PROVE KeyOK(t)'
    BY DEF KeysOK
  <1>3. Healthy(seen[t])' = Healthy(seen[t])
    BY <1>1 DEF Healthy
  <1> QED BY <1>1, <1>3 DEF KeysOK, KeyOK, Existing

LEMMA RestartSettles ==
    ASSUME HeartbeatInv, KeysOK, Restart
    PROVE  KeysOK'
  <1>1. /\ UNCHANGED target /\ seen' = target /\ events' = events + 1
        /\ beats' = Existing(target) /\ urlQueue' = Existing(target)
    BY DEF Restart, Event
  <1>2. SUFFICES ASSUME NEW t \in Targets PROVE KeyOK(t)'
    BY DEF KeysOK
  <1>3. target[t] # None => target[t].uid \in Nat /\ target[t].uid <= events /\ events \in Nat
    BY DEF KeysOK, KeyOK, HeartbeatInv, TargetsTyped, SyncTarget
  <1> QED BY <1>1, <1>3 DEF KeyOK, Existing

(* A new target has a uid that no copy of an older one has.                  *)
LEMMA TargetEventSettles ==
    ASSUME HeartbeatInv, KeysOK, NEW t \in Targets,
           CreateTarget(t) \/ DeleteTarget(t) \/ Cordon(t) \/ Beat(t)
    PROVE  KeysOK'
  <1>1. /\ events' \in Nat /\ events \in Nat /\ events <= events'
        /\ UNCHANGED <<seen, shardsSeen, beats, patch, urlQueue>>
        /\ \A u \in Targets : u # t => target'[u] = target[u]
    BY DEF CreateTarget, DeleteTarget, Cordon, Beat, Event, caches, queues, HeartbeatInv, TargetsTyped
  <1>2. ASSUME NEW u \in Targets, u # t
        PROVE  KeyOK(u)'
    BY <1>1, <1>2, KeyFrame DEF KeysOK
  <1>3. KeyOK(t) /\ (seen[t] # None => seen[t].uid \in Nat)
    BY DEF KeysOK, HeartbeatInv, TargetsTyped, SyncTarget
  <1>4. DesiredURLs(seen[t])' = DesiredURLs(seen[t]) /\ Healthy(seen[t])' = Healthy(seen[t])
    BY <1>1 DEF DesiredURLs, Healthy
  <1>5. KeyOK(t)'
    <2>1. CASE CreateTarget(t)
      <3>1. target'[t].uid = events + 1 /\ events' = events + 1
        BY <2>1 DEF CreateTarget, Event, HeartbeatInv, TargetsTyped
      <3>2. seen[t] # None => seen[t].uid <= events' /\ seen[t].uid # target'[t].uid
        BY <3>1, <1>1, <1>3 DEF KeyOK
      <3> QED BY <3>1, <3>2, <1>1, <1>3, <1>4 DEF KeyOK
    <2>2. CASE DeleteTarget(t)
      <3>1. target'[t] = None
        BY <2>2 DEF DeleteTarget, HeartbeatInv, TargetsTyped
      <3>2. seen[t] # None => seen[t].uid <= events'
        BY <1>1, <1>3 DEF KeyOK
      <3> QED BY <3>1, <3>2, <1>1, <1>3, <1>4 DEF KeyOK
    <2>3. CASE Cordon(t) \/ Beat(t)
      <3>1. target[t] # None /\ target[t] \in SyncTarget
        BY <2>3 DEF Cordon, Beat, HeartbeatInv, TargetsTyped
      <3>2. \/ target'[t] = [target[t] EXCEPT !.unschedulable = ~@]
            \/ target'[t] = [target[t] EXCEPT !.hb = 0]
        BY <2>3 DEF Cordon, Beat, HeartbeatInv, TargetsTyped
      <3>3. /\ target'[t].uid = target[t].uid /\ target'[t].key = target[t].key
            /\ target'[t].urls = target[t].urls /\ target'[t].ready = target[t].ready
            /\ target'[t] \in SyncTarget
        <4>1. CASE target'[t] = [target[t] EXCEPT !.unschedulable = ~@]
          BY <3>1, <4>1 DEF SyncTarget
        <4>2. CASE target'[t] = [target[t] EXCEPT !.hb = 0]
          BY <3>1, <4>2, Constants DEF SyncTarget, Ages
        <4> QED BY <3>2, <4>1, <4>2
      <3>4. target'[t] # None
        BY <3>3, NoneIsNoObject
      <3> QED BY <3>1, <3>3, <3>4, <1>1, <1>3, KeySameFields
    <2> QED BY <2>1, <2>2, <2>3
  <1> QED BY <1>2, <1>5 DEF KeysOK

LEMMA FailureSettles ==
    ASSUME HeartbeatInv, KeysOK, NEW t \in Targets, RequestFails(t)
    PROVE  KeysOK'
  <1>1. /\ UNCHANGED <<seen, target, shardsSeen, beats>> /\ urlQueue' = urlQueue \cup {t}
        /\ \A u \in Targets : u # t => patch'[u] = patch[u]
        /\ events' = events + 1 /\ events \in Nat
    BY DEF RequestFails, Event, stored, caches, HeartbeatInv, TargetsTyped
  <1>2. ASSUME NEW u \in Targets, u # t
        PROVE  KeyOK(u)'
    BY <1>1, <1>2, KeyFrame DEF KeysOK
  <1>3. KeyOK(t)
    BY DEF KeysOK
  <1>4. /\ seen[t] # None => seen[t].uid \in Nat
        /\ target[t] # None => target[t].uid \in Nat
    BY DEF HeartbeatInv, TargetsTyped, SyncTarget
  <1>5. KeyOK(t)'
    BY <1>1, <1>3, <1>4 DEF KeyOK, Healthy
  <1> QED BY <1>2, <1>5 DEF KeysOK

-----------------------------------------------------------------------------
(* The location and the label.                                               *)
LEMMA CountsAreNumbers ==
    ASSUME NEW s
    PROVE  Cardinality(Existing(s)) \in Nat /\ Cardinality(FilterReady(s)) \in Nat
  <1>1. IsFiniteSet(Existing(s)) /\ IsFiniteSet(FilterReady(s))
    BY NoneIsNoObject, FS_Subset DEF Existing, FilterReady
  <1> QED BY <1>1, FS_CardinalityType

LEMMA PlaceFrame ==
    ASSUME PlaceOK,
           UNCHANGED <<loc, locSeen, dropped, labelled, locQueue, defaultQueue, labelQueue>>,
           Existing(seen)' = Existing(seen), FilterReady(seen)' = FilterReady(seen)
    PROVE  PlaceOK'
  BY DEF PlaceOK, LocationSettled, DefaultSettled, LabelSettled

LEMMA TickKeepsPlace ==
    ASSUME HeartbeatInv, PlaceOK, Tick
    PROVE  PlaceOK'
  <1>1. seen' = Older(seen)
        /\ UNCHANGED <<loc, locSeen, dropped, labelled, locQueue, defaultQueue, labelQueue>>
    BY DEF Tick
  <1>2. ASSUME NEW t \in Targets
        PROVE  /\ seen'[t] = None <=> seen[t] = None
               /\ seen[t] # None => /\ seen'[t].ready = seen[t].ready
                                    /\ seen'[t].unschedulable = seen[t].unschedulable
    <2>1. CASE seen[t] = None
      BY <2>1, <1>1 DEF Older
    <2>2. CASE seen[t] # None
      <3> DEFINE hb == IF seen[t].hb > Threshold THEN seen[t].hb ELSE seen[t].hb + 1
      <3>1. seen[t] \in SyncTarget /\ seen'[t] = [seen[t] EXCEPT !.hb = hb]
        BY <2>2, <1>1 DEF Older, HeartbeatInv, TargetsTyped
      <3>2. hb \in Ages
        BY <3>1, Constants DEF SyncTarget, Ages
      <3> HIDE DEF hb
      <3>3. /\ seen'[t] \in SyncTarget /\ seen'[t].ready = seen[t].ready
            /\ seen'[t].unschedulable = seen[t].unschedulable
        BY <3>1, <3>2 DEF SyncTarget
      <3> QED BY <2>2, <3>3, NoneIsNoObject
    <2> QED BY <2>1, <2>2
  <1>3. Existing(seen)' = Existing(seen)
    BY <1>2 DEF Existing
  <1>4. FilterReady(seen)' = FilterReady(seen)
    BY <1>2 DEF Existing, FilterReady
  <1> QED BY <1>1, <1>3, <1>4, PlaceFrame

(* Without a location in the cache the new one is there, or was there.       *)
LEMMA DefaultKeepsPlace ==
    ASSUME PlaceOK, CreateDefaultLocation
    PROVE  PlaceOK'
  <1> DEFINE new == [labels |-> FALSE, annotation |-> FALSE, instances |-> 0, available |-> 0]
  <1>1. new # None
    <2>1. new \in Location
      BY DEF Location
    <2> QED BY <2>1, NoneIsNoObject
  <1> HIDE DEF new
  <1>2. /\ loc' = IF Existing(seen) # {} /\ locSeen = None /\ loc = None THEN new ELSE loc
        /\ UNCHANGED <<dropped, labelled, seen, locSeen, locQueue, labelQueue>>
    BY DEF CreateDefaultLocation, caches, new
  <1>3. LocationSettled' /\ LabelSettled'
    BY <1>2 DEF PlaceOK, LocationSettled, LabelSettled
  <1>4. DefaultSettled'
    BY <1>1, <1>2 DEF PlaceOK, DefaultSettled
  <1> QED BY <1>3, <1>4 DEF PlaceOK

(* A key that leaves the queue of locations leaves a status that is right,   *)
(* or one that differs from the cached one.                                  *)
LEMMA LocationKeepsPlace ==
    ASSUME TypeOK, PlaceOK, LocationProcess
    PROVE  PlaceOK' /\ loc' \in Location \cup {None}
  <1> DEFINE new == Counted(locSeen, seen)
             conflict == new # locSeen /\ loc # locSeen
  <1>1. UNCHANGED <<dropped, labelled, seen, locSeen, defaultQueue, labelQueue>>
    BY DEF LocationProcess, caches
  <1>2. /\ loc' = None <=> loc = None
        /\ loc' \in Location \cup {None}
        /\ LocationSettled'
    <2>1. CASE locSeen = None
      <3>1. loc' = loc
        BY <2>1 DEF LocationProcess
      <3> QED BY <1>1, <2>1, <3>1 DEF TypeOK, LocationSettled
    <2>2. CASE locSeen # None /\ locSeen.annotation # LabelString(locSeen)
      <3>1. /\ loc' = IF loc = locSeen THEN [loc EXCEPT !.annotation = LabelString(loc)] ELSE loc
            /\ locQueue' = TRUE
        BY <2>2 DEF LocationProcess
      <3>2. loc = locSeen => loc' \in Location
        BY <2>2, <3>1 DEF TypeOK, Location, LabelString
      <3>3. LocationSettled'
        BY <3>1 DEF LocationSettled
      <3> QED BY <2>2, <3>1, <3>2, <3>3, NoneIsNoObject DEF TypeOK
    <2>3. CASE locSeen # None /\ locSeen.annotation = LabelString(locSeen)
      <3>1. loc' = (IF new = locSeen \/ conflict THEN loc ELSE new) /\ locQueue' = conflict
        BY <2>3 DEF LocationProcess
      <3>2. locSeen \in Location
        BY <2>3 DEF TypeOK
      <3>3. /\ new \in Location
            /\ new.instances = Cardinality(Existing(seen))
            /\ new.available = Cardinality(FilterReady(seen))
            /\ new # locSeen => \/ new.instances # locSeen.instances
                                \/ new.available # locSeen.available
        BY <3>2, CountsAreNumbers DEF Counted, Location
      <3>4. new # None
        BY <3>3, NoneIsNoObject
      <3> HIDE DEF new
      <3>5. CASE conflict
        BY <3>1, <3>5 DEF TypeOK, LocationSettled
      <3>6. CASE new = locSeen
        BY <1>1, <2>3, <3>1, <3>3, <3>6 DEF TypeOK, LocationSettled, LabelString
      <3>7. CASE new # locSeen /\ ~conflict
        <4>1. loc = locSeen /\ loc' = new
          BY <3>1, <3>7
        <4> QED BY <1>1, <2>3, <3>3, <3>4, <3>7, <4>1 DEF LocationSettled
      <3> QED BY <3>5, <3>6, <3>7
    <2> QED BY <2>1, <2>2, <2>3
  <1>3. DefaultSettled' /\ LabelSettled'
    BY <1>1, <1>2 DEF PlaceOK, DefaultSettled, LabelSettled
  <1> QED BY <1>2, <1>3 DEF PlaceOK

(* A target that comes or goes wakes up the default location and the label,  *)
(* any change the location in the cache.                                     *)
LEMMA SeeTargetKeepsPlace ==
    ASSUME HeartbeatInv, PlaceOK, NEW t \in Targets, SeeTarget(t)
    PROVE  PlaceOK'
  <1>1. PICK new \in NextSeen(t) :
          /\ seen' = [seen EXCEPT ![t] = new]
          /\ locQueue' = (locQueue \/ locSeen # None)
          /\ defaultQueue' = (defaultQueue \/ AddedOrDeleted(t, new))
          /\ labelQueue' = (labelQueue \/ AddedOrDeleted(t, new))
    BY DEF SeeTarget, NotifyLocations, NotifyDefaultLocation, NotifyReplication
  <1>2. UNCHANGED <<loc, locSeen, dropped, labelled>>
    BY DEF SeeTarget, stored
  <1>3. CASE seen[t] = None \/ new = None
    BY <1>1, <1>2, <1>3
       DEF PlaceOK, LocationSettled, DefaultSettled, LabelSettled, AddedOrDeleted
  <1>4. CASE seen[t] # None /\ new # None
    <2>1. Existing(seen)' = Existing(seen)
      BY <1>1, <1>4 DEF Existing, HeartbeatInv, TargetsTyped
    <2> QED BY <1>1, <1>2, <1>4, <2>1
         DEF PlaceOK, LocationSettled, DefaultSettled, LabelSettled, AddedOrDeleted
  <1> QED BY <1>3, <1>4

LEMMA SeeLocationKeepsPlace ==
    ASSUME PlaceOK, SeeLocation
    PROVE  PlaceOK'
  BY DEF SeeLocation, PlaceOK, LocationSettled, DefaultSettled, LabelSettled

LEMMA LocationEventKeepsPlace ==
    ASSUME TypeOK, PlaceOK, LabelLocation \/ DeleteLocation
    PROVE  PlaceOK' /\ loc' \in Location \cup {None}
  <1>1. UNCHANGED <<seen, locSeen, locQueue, defaultQueue, labelQueue, labelled>>
    BY DEF LabelLocation, DeleteLocation, caches, queues
  <1>2. CASE LabelLocation
    <2>1. /\ loc # None /\ loc \in Location /\ loc' = [loc EXCEPT !.labels = ~@]
          /\ dropped' = dropped
      BY <1>2 DEF LabelLocation, TypeOK
    <2>2. /\ loc' \in Location
          /\ loc'.instances = loc.instances /\ loc'.available = loc.available
      BY <2>1 DEF Location
    <2>3. loc' # None
      BY <2>2, NoneIsNoObject
    <2> QED BY <1>1, <2>1, <2>2, <2>3 DEF PlaceOK, LocationSettled, DefaultSettled, LabelSettled
  <1>3. CASE DeleteLocation
    BY <1>1, <1>3 DEF DeleteLocation, PlaceOK, LocationSettled, DefaultSettled, LabelSettled
  <1> QED BY <1>2, <1>3

LEMMA RestartKeepsPlace ==
    ASSUME Restart
    PROVE  PlaceOK'
  BY DEF Restart, PlaceOK, LocationSettled, DefaultSettled, LabelSettled

-----------------------------------------------------------------------------
LEMMA InitSettled == Init => SettledInv
  <1> SUFFICES ASSUME Init PROVE SettledInv
    OBVIOUS
  <1>1. HeartbeatInv
    BY InitWatched
  <1>2. TypeOK
    BY <1>1 DEF Init, TypeOK, HeartbeatInv
  <1>3. KeysOK
    BY DEF Init, KeysOK, KeyOK
  <1>4. PlaceOK
    BY DEF Init, PlaceOK, LocationSettled, DefaultSettled, LabelSettled, Existing
  <1> QED BY <1>1, <1>2, <1>3, <1>4 DEF SettledInv

(* A step after which only queues of targets, syncers or shards differ.      *)
LEMMA ElsewhereSettles ==
    ASSUME SettledInv, HeartbeatInv', UNCHANGED <<target, seen, shardsSeen, beats, patch, urlQueue>>,
           events <= events'
    PROVE  KeysOK'
  <1>1. SUFFICES ASSUME NEW t \in Targets PROVE KeyOK(t)'
    BY DEF KeysOK
  <1>2. events' \in Nat
    BY DEF HeartbeatInv, TargetsTyped
  <1> QED BY <1>2, KeyFrame DEF SettledInv, KeysOK

LEMMA SettledStep ==
    ASSUME SettledInv, [Next]_vars
    PROVE  SettledInv'
  <1> USE DEF SettledInv
  <1>1. HeartbeatInv'
    BY StepKeeps
  <1>2. events \in Nat
    BY DEF HeartbeatInv, TargetsTyped
  <1> DEFINE Place == <<loc, locSeen, dropped, labelled, locQueue, defaultQueue, labelQueue>>
  <1> DEFINE PartsTyped == /\ urlQueue \subseteq Targets /\ up \subseteq Targets
                           /\ {dropped, labelled, locQueue, defaultQueue, labelQueue} \subseteq BOOLEAN
  <1>a. ASSUME KeysOK', UNCHANGED <<Place, seen>>, urlQueue' \subseteq Targets, up' \subseteq Targets
        PROVE  SettledInv'
    <2>1. PlaceOK'
      BY <1>a, PlaceFrame DEF Existing, FilterReady
    <2>2. TypeOK'
      BY <1>a, <1>1 DEF TypeOK, HeartbeatInv
    <2> QED BY <1>a, <1>1, <2>1, <2>2
  <1>b. ASSUME KeysOK', PlaceOK', PartsTyped', loc' \in Location \cup {None},
               locSeen' \in Location \cup {None}
        PROVE  SettledInv'
    <2>1. TypeOK'
      BY <1>b, <1>1 DEF TypeOK, HeartbeatInv
    <2> QED BY <1>b, <1>1, <2>1
  <1>c. UNCHANGED <<target, seen, shardsSeen, beats, patch, urlQueue>> /\ events <= events' => KeysOK'
    BY <1>1, ElsewhereSettles
  <1>3. CASE CreateDefaultLocation
    <2>1. [labels |-> FALSE, annotation |-> FALSE, instances |-> 0, available |-> 0] \in Location
      BY DEF Location
    <2>2. PartsTyped' /\ loc' \in Location \cup {None} /\ locSeen' \in Location \cup {None}
      BY <1>3, <2>1 DEF CreateDefaultLocation, caches, TypeOK
    <2>3. KeysOK'
      BY <1>2, <1>3, <1>c DEF CreateDefaultLocation, caches
    <2> QED BY <1>3, <1>b, <2>2, <2>3, DefaultKeepsPlace
  <1>4. CASE LocationProcess
    <2>1. PartsTyped' /\ locSeen' \in Location \cup {None}
      BY <1>4 DEF LocationProcess, caches, TypeOK
    <2>2. KeysOK'
      BY <1>2, <1>4, <1>c DEF LocationProcess, caches
    <2> QED BY <1>4, <1>b, <2>1, <2>2, LocationKeepsPlace
  <1>5. CASE LabelLogicalCluster
    <2>1. PartsTyped' /\ loc' \in Location \cup {None} /\ locSeen' \in Location \cup {None}
      BY <1>5 DEF LabelLogicalCluster, caches, TypeOK
    <2>2. KeysOK'
      BY <1>2, <1>5, <1>c DEF LabelLogicalCluster, caches
    <2>3. PlaceOK'
      BY <1>5 DEF LabelLogicalCluster, caches, PlaceOK, LocationSettled, DefaultSettled, LabelSettled
    <2> QED BY <1>b, <2>1, <2>2, <2>3
  <1>6. ASSUME NEW t \in Targets, HeartbeatProcess(t)
        PROVE  SettledInv'
    BY <1>6, <1>a, HeartbeatSettles DEF HeartbeatProcess, caches, TypeOK
  <1>7. ASSUME NEW t \in Targets, PatchSyncTarget(t)
        PROVE  SettledInv'
    BY <1>7, <1>a, PatchSettles DEF PatchSyncTarget, caches, TypeOK
  <1>8. ASSUME NEW t \in Targets, PatchSyncTargetStatus(t)
        PROVE  SettledInv'
    BY <1>8, <1>a, PatchStatusSettles DEF PatchSyncTargetStatus, caches, TypeOK
  <1>9. CASE SeeShards
    BY <1>9, <1>a, SeeShardsSettles DEF SeeShards, stored, TypeOK, Existing
  <1>10. CASE SeeLocation
    <2>1. PartsTyped' /\ loc' \in Location \cup {None} /\ locSeen' \in Location \cup {None}
      BY <1>10 DEF SeeLocation, TypeOK
    <2>2. KeysOK'
      BY <1>2, <1>10, <1>c DEF SeeLocation
    <2> QED BY <1>10, <1>b, <2>1, <2>2, SeeLocationKeepsPlace
  <1>11. ASSUME NEW t \in Targets, SeeTarget(t)
         PROVE  SettledInv'
    <2>1. PartsTyped' /\ loc' \in Location \cup {None} /\ locSeen' \in Location \cup {None}
      BY <1>11 DEF SeeTarget, NotifySyncTarget, NotifyLocations, NotifyDefaultLocation,
                   NotifyReplication, Added, AddedOrDeleted, stored, TypeOK
    <2> QED BY <1>11, <1>b, <2>1, SeeTargetSettles, SeeTargetKeepsPlace
  <1>12. CASE Tick
    <2>1. PartsTyped' /\ loc' \in Location \cup {None} /\ locSeen' \in Location \cup {None}
      BY <1>12 DEF Tick, TypeOK
    <2> QED BY <1>12, <1>b, <2>1, TickSettles, TickKeepsPlace
  <1>13. CASE LabelLocation \/ DeleteLocation
    <2>1. PartsTyped' /\ locSeen' \in Location \cup {None}
      BY <1>13 DEF LabelLocation, DeleteLocation, caches, queues, TypeOK
    <2>2. KeysOK'
      BY <1>2, <1>13, <1>c DEF LabelLocation, DeleteLocation, Event, caches, queues
    <2> QED BY <1>13, <1>b, <2>1, <2>2, LocationEventKeepsPlace
  <1>14. CASE ShardChanges
    BY <1>2, <1>14, <1>a, <1>c DEF ShardChanges, Event, caches, queues, TypeOK
  <1>15. CASE Restart
    <2>1. PartsTyped' /\ loc' \in Location \cup {None} /\ locSeen' \in Location \cup {None}
      BY <1>15 DEF Restart, TypeOK, Existing
    <2> QED BY <1>15, <1>b, <2>1, RestartSettles, RestartKeepsPlace
  <1>16. ASSUME NEW t \in Targets, CreateTarget(t) \/ DeleteTarget(t) \/ Cordon(t) \/ Beat(t)
         PROVE  SettledInv'
    BY <1>16, <1>a, TargetEventSettles
       DEF CreateTarget, DeleteTarget, Cordon, Beat, caches, queues, TypeOK
  <1>17. ASSUME NEW t \in Targets, SyncerStartsOrStops(t)
         PROVE  SettledInv'
    BY <1>2, <1>17, <1>a, <1>c DEF SyncerStartsOrStops, Event, stored, caches, queues, TypeOK
  <1>18. ASSUME NEW t \in Targets, RequestFails(t)
         PROVE  SettledInv'
    BY <1>18, <1>a, FailureSettles DEF RequestFails, stored, caches, TypeOK
  <1>19. CASE UNCHANGED vars
    BY <1>2, <1>19, <1>a, <1>c DEF vars, TypeOK
  <1> QED
    BY <1>3, <1>4, <1>5, <1>6, <1>7, <1>8, <1>9, <1>10, <1>11, <1>12, <1>13, <1>14, <1>15,
       <1>16, <1>17, <1>18, <1>19
       DEF Next, Controllers, Locations, Informers, Environment

(* The variables have their types and what is in no queue is settled.        *)
THEOREM TargetsAreSettled == Spec => [](TypeOK /\ Settled)
  <1>1. Init => SettledInv
    BY InitSettled
  <1>2. SettledInv /\ [Next]_vars => SettledInv'
    BY SettledStep
  <1>3. SettledInv => TypeOK /\ Settled
    BY KeysAreSettled DEF SettledInv, Settled, PlaceOK
  <1> QED BY <1>1, <1>2, <1>3, PTL DEF Spec

(* When the five controllers have nothing left to do, keys, URLs, conditions,*)
(* the location's numbers and the label of the logical cluster are right:    *)
(* for any number of targets and shards, however often targets and location  *)
(* are deleted and created again, requests fail and processes restart.       *)
THEOREM TargetsAreCounted == Spec => []QuietMeansCounted
  <1>1. TypeOK /\ Settled => QuietMeansCounted
    <2> SUFFICES ASSUME Settled, Quiet PROVE QuietMeansCounted
      BY DEF QuietMeansCounted
    <2>1. ASSUME NEW t \in Existing(target)
          PROVE  /\ target[t].key
                 /\ target[t].urls = [uid |-> target[t].uid, shards |-> shards]
                 /\ target[t].ready = IF Healthy(target[t]) THEN "true" ELSE "false"
      BY <2>1 DEF Settled, Quiet, UrlsSettled, ReadySettled, DesiredURLs, Existing
    <2>2. loc # None => /\ loc.annotation = loc.labels
                        /\ loc.instances = Cardinality(Existing(target))
                        /\ loc.available = Cardinality(FilterReady(target))
      BY DEF Settled, Quiet, LocationSettled
    <2>3. /\ Existing(target) # {} => loc # None
          /\ labelled = (Existing(target) # {})
      BY DEF Settled, Quiet, DefaultSettled, LabelSettled
    <2> QED BY <2>1, <2>2, <2>3 DEF QuietMeansCounted, FilterReady
  <1> QED BY <1>1, TargetsAreSettled, PTL
=============================================================================
