---------------------------- MODULE SyncTargets ----------------------------
(***************************************************************************)
(* The SyncTargets and the default Location of one workspace.              *)
(*                                                                         *)
(* Five controllers keep them up to date from their caches: the heartbeat  *)
(* controller (is the syncer alive?), the synctarget controller (the key   *)
(* label and the URLs of the shards), the default location controller,     *)
(* the location controller (how many targets, how many available) and the  *)
(* one that labels the logical cluster for replication.  The syncers beat  *)
(* from outside.                                                           *)
(*                                                                         *)
(* Time is relative: a target holds the age of its last heartbeat, a timer *)
(* the time it has left, and Tick moves them all.  An age beyond the       *)
(* threshold stands for every greater one and for no heartbeat at all.     *)
(*                                                                         *)
(* An object's version is its content: a write with the resourceVersion of *)
(* the cache succeeds when the cache has what is stored.                   *)
(***************************************************************************)
EXTENDS Integers, FiniteSets

CONSTANTS
    Targets,
    Shards,      \* shards with a virtual workspace URL
    Threshold,   \* heartbeatThreshold, in ticks
    MaxEvents,   \* bound: events of the environment in one behaviour
    Events,      \* the kinds of environment events that may happen
    None         \* no object, no timer

EventKinds == {"create", "delete", "cordon", "syncer", "shard", "label", "dropLocation",
               "error", "restart"}

ASSUME Constants ==
    /\ Threshold \in Nat \ {0} /\ MaxEvents \in Nat /\ Events \subseteq EventKinds
    /\ None \notin 0 .. Threshold + 1

VARIABLES
    target, seen,      \* [t]: the SyncTarget, and in the caches
    shards, shardsSeen,
    loc, locSeen,      \* the Location "default"
    dropped,           \* it was deleted, and this is to be seen
    labelled,          \* the logical cluster has the replication label
    beats, checks,     \* heartbeat queue, and [t]: its AddAfter
    urlQueue,          \* synctarget queue
    patch,             \* [t]: the URLs of the second patch, on its way
    locQueue, defaultQueue, labelQueue,
    up,                \* the targets whose syncer runs
    events

stored == <<target, shards, loc, dropped, labelled>>
caches == <<seen, shardsSeen, locSeen>>
queues == <<beats, checks, urlQueue, patch, locQueue, defaultQueue, labelQueue>>
vars == <<target, seen, shards, shardsSeen, loc, locSeen, dropped, labelled, beats, checks,
          urlQueue, patch, locQueue, defaultQueue, labelQueue, up, events>>

Ages == 0 .. Threshold + 1
NoURLs == [uid |-> 0, shards |-> {}]
URLs == [uid : Nat, shards : SUBSET Shards]

(* hb: age of lastSyncerHeartbeatTime; ready: the conditions, HeartbeatHealthy *)
(* and with it Ready; key: the internal key label.                             *)
SyncTarget == [uid : Nat, hb : Ages, ready : {"unknown", "true", "false"},
               unschedulable : BOOLEAN, key : BOOLEAN, urls : URLs]

(* labels is what the user set, annotation the label string shown in tables.   *)
Location == [labels : BOOLEAN, annotation : BOOLEAN, instances : Nat, available : Nat]

(* Needed to prove what is there from what is not None, and that the numbers   *)
(* of a location are numbers.                                                  *)
ASSUME NoneIsNoObject == None \notin SyncTarget \cup Location \cup URLs /\ IsFiniteSet(Targets)

Existing(s) == {t \in Targets : s[t] # None}

-----------------------------------------------------------------------------
(* Heartbeat controller *)

Beat(t) ==
    /\ t \in up /\ target[t] # None /\ target[t].hb > 0
    /\ target' = [target EXCEPT ![t].hb = 0]
    /\ UNCHANGED <<seen, shards, shardsSeen, loc, locSeen, dropped, labelled, queues, up, events>>

Older(s) == [t \in Targets |->
                IF s[t] = None THEN None
                ELSE [s[t] EXCEPT !.hb = IF @ > Threshold THEN @ ELSE @ + 1]]

(* Timers that run out put their key into the queue.                           *)
Tick ==
    /\ \/ \E t \in Existing(target) : target[t].hb <= Threshold
       \/ \E t \in Existing(seen) : seen[t].hb <= Threshold
       \/ \E t \in Targets : checks[t] # None
    /\ target' = Older(target) /\ seen' = Older(seen)
    /\ beats' = beats \cup {t \in Targets : checks[t] = 1}
    /\ checks' = [t \in Targets |-> IF checks[t] \in {None, 1} THEN None ELSE checks[t] - 1]
    /\ UNCHANGED <<shards, shardsSeen, loc, locSeen, dropped, labelled, urlQueue, patch,
                   locQueue, defaultQueue, labelQueue, up, events>>

(* Mutant: the next check comes with the next heartbeat.                       *)
NoCheck(t, age) == checks

(* AddAfter: of two timers for one key the earlier one stays.                  *)
CheckAfter(t, age) ==
    LET left == Threshold - age
    IN  IF left <= 0 THEN checks
        ELSE [checks EXCEPT ![t] = IF @ = None \/ @ > left THEN left ELSE @]

(* Mutant: off by one, and no heartbeat is ever too old.                       *)
HealthyForever(obj) == obj.hb <= Threshold + 1

Healthy(obj) == obj.hb <= Threshold

(* reconcile, then the commit with the resourceVersion of the cache.           *)
HeartbeatProcess(t) ==
    /\ t \in beats
    /\ IF seen[t] = None THEN beats' = beats \ {t} /\ UNCHANGED <<target, checks>>
       ELSE LET ready == IF Healthy(seen[t]) THEN "true" ELSE "false"
                conflict == ready # seen[t].ready /\ seen[t] # target[t]
            IN  /\ checks' = IF Healthy(seen[t]) THEN CheckAfter(t, seen[t].hb) ELSE checks
                /\ beats' = IF conflict \/ seen[t].hb = Threshold THEN beats ELSE beats \ {t}
                /\ target' = IF conflict \/ ready = seen[t].ready THEN target
                             ELSE [target EXCEPT ![t].ready = ready]
    /\ UNCHANGED <<shards, loc, dropped, labelled, caches, urlQueue, patch, locQueue,
                   defaultQueue, labelQueue, up, events>>

-----------------------------------------------------------------------------
(* SyncTarget controller *)

DesiredURLs(obj) == [uid |-> obj.uid, shards |-> shardsSeen]

(* Merge patches without a resourceVersion, both made from the cached copy,    *)
(* the second, a request later, to the status endpoint.  Its API schema gives  *)
(* the SyncTarget that endpoint, the CRD that the server installs does not     *)
(* (tmc/server/bootstrap/bootstrap.go:65): the first patch carries the URLs or *)
(* drops them, and the second may fail.  Either fails when the target is gone. *)
PatchSyncTarget(t) ==
    /\ t \in urlQueue /\ patch[t] = None
    /\ IF seen[t] = None THEN urlQueue' = urlQueue \ {t} /\ UNCHANGED <<target, patch>>
       ELSE LET urls == DesiredURLs(seen[t])
                failed == ~seen[t].key /\ target[t] = None
            IN  /\ urlQueue' = IF failed THEN urlQueue ELSE urlQueue \ {t}
                /\ IF seen[t].key \/ failed THEN UNCHANGED target
                   ELSE \E new \in {target[t].urls} \cup ({urls} \ {seen[t].urls}) :
                          target' = [target EXCEPT ![t].key = TRUE, ![t].urls = new]
                /\ patch' = IF failed \/ urls = seen[t].urls THEN patch
                            ELSE [patch EXCEPT ![t] = urls]
    /\ UNCHANGED <<shards, loc, dropped, labelled, caches, beats, checks, locQueue,
                   defaultQueue, labelQueue, up, events>>

PatchSyncTargetStatus(t) ==
    /\ patch[t] # None
    /\ patch' = [patch EXCEPT ![t] = None]
    /\ IF target[t] = None THEN urlQueue' = urlQueue \cup {t} /\ UNCHANGED target
       ELSE target' = [target EXCEPT ![t].urls = patch[t]] /\ UNCHANGED urlQueue
    /\ UNCHANGED <<shards, loc, dropped, labelled, caches, beats, checks, locQueue,
                   defaultQueue, labelQueue, up, events>>

-----------------------------------------------------------------------------
(* Locations *)

CreateDefaultLocation ==
    /\ defaultQueue
    /\ defaultQueue' = FALSE
    /\ loc' = IF Existing(seen) # {} /\ locSeen = None /\ loc = None
              THEN [labels |-> FALSE, annotation |-> FALSE, instances |-> 0, available |-> 0]
              ELSE loc
    /\ UNCHANGED <<target, shards, dropped, labelled, caches, beats, checks, urlQueue, patch,
                   locQueue, labelQueue, up, events>>

(* Mutant: a cordoned target is available.                                     *)
FilterReadyOnly(s) == {t \in Existing(s) : s[t].ready = "true"}

FilterReady(s) == {t \in Existing(s) : s[t].ready = "true" /\ ~s[t].unschedulable}

Counted(obj, s) == [obj EXCEPT !.instances = Cardinality(Existing(s)),
                               !.available = Cardinality(FilterReady(s))]

LabelString(obj) == obj.labels

(* A new annotation is written by an Update of its own.  The status is then    *)
(* set on the copy that Update returned, so the commit repeats the metadata    *)
(* with the old resourceVersion, fails, and the key comes back.                *)
LocationProcess ==
    /\ locQueue
    /\ CASE locSeen = None -> locQueue' = FALSE /\ UNCHANGED loc
         [] locSeen # None /\ locSeen.annotation # LabelString(locSeen) ->
              /\ loc' = IF loc = locSeen THEN [loc EXCEPT !.annotation = LabelString(loc)] ELSE loc
              /\ locQueue' = TRUE
         [] locSeen # None /\ locSeen.annotation = LabelString(locSeen) ->
              LET new == Counted(locSeen, seen)
                  conflict == new # locSeen /\ loc # locSeen
              IN  /\ loc' = IF new = locSeen \/ conflict THEN loc ELSE new
                  /\ locQueue' = conflict
    /\ UNCHANGED <<target, shards, dropped, labelled, caches, beats, checks, urlQueue, patch,
                   defaultQueue, labelQueue, up, events>>

(* The logical cluster is replicated while it has SyncTargets.                 *)
LabelLogicalCluster ==
    /\ labelQueue
    /\ labelQueue' = FALSE
    /\ labelled' = (Existing(seen) # {})
    /\ UNCHANGED <<target, shards, loc, dropped, caches, beats, checks, urlQueue, patch, locQueue,
                   defaultQueue, up, events>>

-----------------------------------------------------------------------------
(* Informers *)

Added(t, new) == IF new = None THEN {} ELSE {t}
AddedOrDeleted(t, new) == seen[t] = None \/ new = None

NotifyHeartbeat(t, new) == beats' = beats \cup Added(t, new)
NotifySyncTarget(t, new) == urlQueue' = urlQueue \cup Added(t, new)

(* All locations in the cache; any new resourceVersion counts as a change.     *)
NotifyLocations(t, new) == locQueue' = (locQueue \/ locSeen # None)

NotifyDefaultLocation(t, new) == defaultQueue' = (defaultQueue \/ AddedOrDeleted(t, new))
NotifyReplication(t, new) == labelQueue' = (labelQueue \/ AddedOrDeleted(t, new))

(* A deletion and a new addition are seen one by one, or as one update.        *)
NextSeen(t) ==
    IF target[t] # None /\ seen[t] # None /\ target[t].uid # seen[t].uid
    THEN {target[t], None} ELSE {target[t]}

SeeTarget(t) ==
    /\ seen[t] # target[t]
    /\ \E new \in NextSeen(t) :
         /\ seen' = [seen EXCEPT ![t] = new]
         /\ NotifyHeartbeat(t, new) /\ NotifySyncTarget(t, new) /\ NotifyLocations(t, new)
         /\ NotifyDefaultLocation(t, new) /\ NotifyReplication(t, new)
    /\ UNCHANGED <<stored, shardsSeen, locSeen, checks, patch, up, events>>

SeeShards ==
    /\ shardsSeen # shards
    /\ shardsSeen' = shards
    /\ urlQueue' = urlQueue \cup Existing(seen)
    /\ UNCHANGED <<stored, seen, locSeen, beats, checks, patch, locQueue, defaultQueue,
                   labelQueue, up, events>>

SeeLocation ==
    /\ locSeen # loc \/ dropped
    /\ locSeen' = loc /\ dropped' = FALSE
    /\ locQueue' = TRUE
    /\ defaultQueue' = (defaultQueue \/ dropped)
    /\ UNCHANGED <<target, shards, loc, labelled, seen, shardsSeen, beats, checks, urlQueue, patch, labelQueue,
                   up, events>>

-----------------------------------------------------------------------------
(* Environment *)

Event(e) == e \in Events /\ events < MaxEvents /\ events' = events + 1

CreateTarget(t) ==
    /\ Event("create") /\ target[t] = None
    /\ target' = [target EXCEPT ![t] = [uid |-> events + 1, hb |-> Threshold + 1,
                      ready |-> "unknown", unschedulable |-> FALSE, key |-> FALSE,
                      urls |-> NoURLs]]
    /\ UNCHANGED <<shards, loc, dropped, labelled, caches, queues, up>>

DeleteTarget(t) ==
    /\ Event("delete") /\ target[t] # None
    /\ target' = [target EXCEPT ![t] = None]
    /\ up' = up \ {t}
    /\ UNCHANGED <<shards, loc, dropped, labelled, caches, queues>>

Cordon(t) ==
    /\ Event("cordon") /\ target[t] # None
    /\ target' = [target EXCEPT ![t].unschedulable = ~@]
    /\ UNCHANGED <<shards, loc, dropped, labelled, caches, queues, up>>

SyncerStartsOrStops(t) ==
    /\ Event("syncer") /\ target[t] # None
    /\ up' = IF t \in up THEN up \ {t} ELSE up \cup {t}
    /\ UNCHANGED <<stored, caches, queues>>

ShardChanges ==
    /\ Event("shard")
    /\ \E s \in Shards : shards' = IF s \in shards THEN shards \ {s} ELSE shards \cup {s}
    /\ UNCHANGED <<target, loc, dropped, labelled, caches, queues, up>>

LabelLocation ==
    /\ Event("label") /\ loc # None
    /\ loc' = [loc EXCEPT !.labels = ~@]
    /\ UNCHANGED <<target, shards, dropped, labelled, caches, queues, up>>

DeleteLocation ==
    /\ Event("dropLocation") /\ loc # None
    /\ loc' = None /\ dropped' = TRUE
    /\ UNCHANGED <<target, shards, labelled, caches, queues, up>>

(* The second patch fails, as it does each time where there is no status       *)
(* endpoint: the key is queued again, from the start.                          *)
RequestFails(t) ==
    /\ Event("error") /\ patch[t] # None
    /\ patch' = [patch EXCEPT ![t] = None]
    /\ urlQueue' = urlQueue \cup {t}
    /\ UNCHANGED <<stored, caches, beats, checks, locQueue, defaultQueue, labelQueue, up>>

(* Every object is an addition for the new process.                            *)
Restart ==
    /\ Event("restart")
    /\ seen' = target /\ shardsSeen' = shards /\ locSeen' = loc
    /\ beats' = Existing(target) /\ urlQueue' = Existing(target)
    /\ checks' = [t \in Targets |-> None] /\ patch' = [t \in Targets |-> None]
    /\ locQueue' = (loc # None)
    /\ defaultQueue' = (Existing(target) # {}) /\ labelQueue' = TRUE
    /\ dropped' = FALSE
    /\ UNCHANGED <<target, shards, loc, labelled, up>>

-----------------------------------------------------------------------------
(* Specification *)

Init ==
    /\ target = [t \in Targets |-> None] /\ seen = target
    /\ shards = Shards /\ shardsSeen = Shards
    /\ loc = None /\ locSeen = None /\ dropped = FALSE /\ labelled = FALSE
    /\ beats = {} /\ checks = [t \in Targets |-> None]
    /\ urlQueue = {} /\ patch = [t \in Targets |-> None]
    /\ locQueue = FALSE /\ defaultQueue = FALSE /\ labelQueue = FALSE
    /\ up = {} /\ events = 0

Locations == CreateDefaultLocation \/ LocationProcess \/ LabelLogicalCluster

Controllers ==
    \/ Locations
    \/ \E t \in Targets : HeartbeatProcess(t) \/ PatchSyncTarget(t) \/ PatchSyncTargetStatus(t)

Informers == SeeShards \/ SeeLocation \/ \E t \in Targets : SeeTarget(t)

Environment ==
    \/ ShardChanges \/ LabelLocation \/ DeleteLocation \/ Restart
    \/ \E t \in Targets : CreateTarget(t) \/ DeleteTarget(t) \/ Cordon(t)
                          \/ SyncerStartsOrStops(t) \/ RequestFails(t)

Next == Controllers \/ Informers \/ Tick \/ Environment \/ \E t \in Targets : Beat(t)

Spec == Init /\ [][Next]_vars

(* Time, the informers and the workers that readiness needs go on; no syncer   *)
(* has to beat and no URL has to be written.                                   *)
Fairness ==
    /\ WF_vars(Tick) /\ WF_vars(Informers) /\ WF_vars(Locations)
    /\ \A t \in Targets : WF_vars(HeartbeatProcess(t))

FairSpec == Spec /\ Fairness

-----------------------------------------------------------------------------
(* Properties *)

(* The variables have their types.  The heartbeat is about the first part.     *)
TargetsTyped ==
    /\ target \in [Targets -> SyncTarget \cup {None}] /\ seen \in [Targets -> SyncTarget \cup {None}]
    /\ shards \subseteq Shards /\ shardsSeen \subseteq Shards
    /\ checks \in [Targets -> 1 .. Threshold \cup {None}]
    /\ patch \in [Targets -> URLs \cup {None}]
    /\ beats \subseteq Targets
    /\ events \in Nat

TypeOK ==
    /\ TargetsTyped
    /\ loc \in Location \cup {None} /\ locSeen \in Location \cup {None}
    /\ urlQueue \subseteq Targets /\ up \subseteq Targets
    /\ {dropped, labelled, locQueue, defaultQueue, labelQueue} \subseteq BOOLEAN

(* No SyncTarget is left ready unwatched: the heartbeat controller will look   *)
(* at it no later than when its heartbeat gets too old (the AddAfter of        *)
(* heartbeat_reconciler.go:66, the only thing that happens when a syncer stops).*)
ReadyIsWatched ==
    \A t \in Existing(target) : target[t].ready = "true" =>
        \/ seen[t] # target[t]
        \/ t \in beats
        \/ checks[t] # None /\ checks[t] <= Threshold - target[t].hb

(* What makes it inductive: what the controller watches is the cached copy,    *)
(* also while the stored one differs.  A target that it has found too old does *)
(* not count although the cache still has it ready.                            *)
Ready(obj) == obj # None /\ obj.ready = "true"
SeenIsWatched ==
    \A t \in Targets : Ready(seen[t]) /\ Ready(target[t]) =>
        \/ t \in beats
        \/ checks[t] # None /\ checks[t] <= Threshold - seen[t].hb

(* Nothing is to be seen or done.                                              *)
Quiet ==
    /\ seen = target /\ shardsSeen = shards /\ locSeen = loc
    /\ beats = {} /\ urlQueue = {} /\ \A t \in Targets : patch[t] = None
    /\ ~dropped /\ ~locQueue /\ ~defaultQueue /\ ~labelQueue

(* When the controllers have nothing left to do, every SyncTarget has the key  *)
(* and the URLs of its own uid and of the shards there are, a ready one has a  *)
(* heartbeat that counts, the default location exists with the right numbers   *)
(* and label string, and the logical cluster is labelled if it has targets:    *)
(* the handlers of the five controllers leave no change out.                   *)
QuietMeansCounted ==
    Quiet =>
        /\ \A t \in Existing(target) :
             /\ target[t].key /\ target[t].urls = [uid |-> target[t].uid, shards |-> shards]
             /\ target[t].ready = IF Healthy(target[t]) THEN "true" ELSE "false"
        /\ Existing(target) # {} => loc # None
        /\ loc # None =>
             /\ loc.annotation = loc.labels /\ loc.instances = Cardinality(Existing(target))
             /\ loc.available = Cardinality({t \in Existing(target) :
                                    target[t].ready = "true" /\ ~target[t].unschedulable})
        /\ labelled = (Existing(target) # {})

(* What makes it inductive, controller by controller: a key that is in no      *)
(* queue has been processed, and if what was written then is back in the cache *)
(* there was nothing to write.  Copies are compared by the fields that a       *)
(* controller writes and, because a target may be created again, by their uid. *)
UidsAreOld ==
    \A t \in Targets : /\ seen[t] # None => seen[t].uid <= events
                       /\ target[t] # None => target[t].uid <= events

(* The second patch is what the first was made from, or the key comes again.   *)
PatchIsRight ==
    \A t \in Existing(seen) \ urlQueue :
        patch[t] # None => patch[t] = DesiredURLs(seen[t]) /\ seen[t].urls # patch[t]

UrlsSettled ==
    \A t \in (Existing(seen) \cap Existing(target)) \ urlQueue :
        /\ patch[t] = None /\ seen[t].uid = target[t].uid
        /\ seen[t].key = target[t].key /\ seen[t].urls = target[t].urls
        => seen[t].key /\ seen[t].urls = DesiredURLs(seen[t])

ReadySettled ==
    \A t \in (Existing(seen) \cap Existing(target)) \ beats :
        seen[t].uid = target[t].uid /\ seen[t].ready = target[t].ready
        => seen[t].ready = IF Healthy(seen[t]) THEN "true" ELSE "false"

LocationSettled ==
    /\ ~locQueue /\ locSeen # None /\ loc # None
    /\ loc.instances = locSeen.instances /\ loc.available = locSeen.available
    => /\ locSeen.annotation = locSeen.labels
       /\ locSeen.instances = Cardinality(Existing(seen))
       /\ locSeen.available = Cardinality(FilterReady(seen))

(* A deleted location is created again when its deletion is seen.              *)
DefaultSettled ==
    /\ loc = None /\ locSeen # None => dropped
    /\ loc = None /\ locSeen = None /\ Existing(seen) # {} => defaultQueue \/ dropped

LabelSettled == labelQueue \/ labelled = (Existing(seen) # {})

Settled ==
    /\ UidsAreOld /\ PatchIsRight /\ UrlsSettled /\ ReadySettled
    /\ LocationSettled /\ DefaultSettled /\ LabelSettled

(* When the syncers stop for good the targets become and stay not ready and    *)
(* the location ends up with nothing available: heartbeat controller, informer *)
(* and location controller in a row, although no event comes any more.         *)
StaleIsNoticed ==
    <>[](up = {}) => <>[](/\ \A t \in Existing(target) : target[t].ready = "false"
                          /\ loc # None => loc.available = 0)
=============================================================================
