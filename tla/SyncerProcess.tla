---------------------------- MODULE SyncerProcess ----------------------------
(***************************************************************************)
(* The syncer process: what runs in it, and for how long.                  *)
(*                                                                         *)
(* One controller follows the SyncTarget that the process was started for. *)
(* From its status it derives the resources to watch, the controllers of   *)
(* each shard and the tunnels to each shard.  The controllers of a shard   *)
(* are started by a goroutine that ends later, when the shard may be gone. *)
(* The informers follow the resources, and a controller manager follows    *)
(* the informers: it runs the endpoints controller while the resources     *)
(* that it needs are there.                                                *)
(*                                                                         *)
(* The resources that are always watched (namespaces, config maps,         *)
(* secrets) are left out, and at most one other is refused at a time.      *)
(***************************************************************************)
EXTENDS Naturals, FiniteSets

CONSTANTS
    Shards,
    Resources,
    RequiredGVRs,  \* what the endpoints controller needs
    None,
    MaxEvents,     \* bound: events of the environment in one behaviour
    Events         \* the kinds of environment events that may happen

VARIABLES
    target, targetSeen,  \* the SyncTarget, and in the cache of the syncer
    on,                  \* whether the process runs
    queued,              \* whether the SyncTarget is in the queue
    committing,          \* the pass that has yet to write the SyncTarget
    allowed,             \* the resources that the cluster lets the syncer use
    discovered,          \* the resources that the cluster serves
    gvrs,                \* gvrsToWatch
    notified,            \* the one place of the subscriber's channel
    informers, made,     \* [r]: the informer; informers made so far
    resync,              \* whether the controller manager is queued
    endpoints,           \* the informers that the endpoints controller listens to
    returned,            \* history: a resource came back before that controller was stopped
    controllers,         \* [s]: the entry of the shard manager
    starting,            \* the goroutines that start controllers
    alive,               \* the shard controllers whose context is not cancelled
    started,             \* the shard controllers that were started
    runs,                \* shard controllers created so far
    overtaken,           \* history: the shards that went before their start had returned
    tunnels,             \* startedTunnelers
    events

status == <<target, targetSeen>>
cluster == <<allowed, discovered>>
watching == <<gvrs, notified>>
managed == <<informers, made, resync, endpoints, returned>>
shards == <<controllers, starting, alive, started, runs, overtaken>>
vars == <<target, targetSeen, on, queued, committing, allowed, discovered, gvrs, notified,
          informers, made, resync, endpoints, returned, controllers, starting, alive, started, runs,
          overtaken, tunnels, events>>

Uid == 1
NoInformers == [r \in Resources |-> None]
NoControllers == [s \in Shards |-> None]

(* An entry that was put back after its shard was removed: it has neither a    *)
(* stop function nor an index, and calling either ends the process.            *)
Zombie == [run |-> 0, ready |-> TRUE]

(* The target that the process serves: one with its uid.                       *)
Served(t) == IF t # None /\ t.uid = Uid THEN t ELSE None

RequiredShards(t) == IF t = None THEN {} ELSE t.shards
AllGVRs(t) == IF t = None THEN {} ELSE t.accepted

Event(e) == e \in Events /\ events < MaxEvents /\ events' = events + 1

(* Nothing of the process outlives it.                                         *)
Off ==
    /\ on' = FALSE /\ queued' = FALSE /\ committing' = None /\ targetSeen' = None
    /\ gvrs' = {} /\ notified' = FALSE
    /\ informers' = NoInformers /\ made' = 0 /\ resync' = FALSE /\ endpoints' = None
    /\ returned' = FALSE
    /\ controllers' = NoControllers /\ starting' = {} /\ alive' = {} /\ started' = {} /\ runs' = 0
    /\ overtaken' = {} /\ tunnels' = {}

(* No goroutine is on its way.                                                 *)
Settled == starting = {} /\ ~notified /\ ~resync

-----------------------------------------------------------------------------
(* Start *)

(* A SyncTarget with another uid makes the process refuse to work.             *)
MayStart == Served(target) # None

StartSyncer ==
    /\ ~on /\ MayStart
    /\ on' = TRUE /\ queued' = TRUE /\ targetSeen' = target
    /\ UNCHANGED <<target, committing, cluster, watching, managed, shards, tunnels, events>>

(* The status is written about every twenty seconds, far apart from the        *)
(* writes of a pass, and each write is an event of the SyncTarget.             *)
Heartbeat ==
    /\ on /\ ~queued /\ committing = None
    /\ Served(target) # None
    /\ queued' = TRUE
    /\ UNCHANGED <<status, on, committing, cluster, watching, managed, shards, tunnels, events>>

-----------------------------------------------------------------------------
(* SyncTarget controller of the syncer *)

(* What will be watched when the checks of the failing resources fail: the     *)
(* new ones that are allowed and discovered, and the old ones that are still   *)
(* required and were not refused.                                              *)
Watched(required, failing) ==
    LET refused == (required \ failing) \ allowed
    IN  (gvrs \cup ((required \ failing) \cap allowed \cap discovered)) \cap (required \ refused)

Unauthorized(required, failing) == failing \cup (required \ allowed)

GVRErrors(required, failing) ==
    \/ failing # {}
    \/ ~ ((required \ failing) \cap allowed \subseteq gvrs \cup discovered)

(* A full channel holds a notification already.                                *)
NotifySubscribers(changed) == notified' = (notified \/ changed)

(* Mutant: nobody is told when resources are only removed.                     *)
ReconcileGVRsAdded(required, failing) ==
    /\ gvrs' = Watched(required, failing)
    /\ NotifySubscribers(~ (gvrs' \subseteq gvrs))

ReconcileGVRs(required, failing) ==
    /\ gvrs' = Watched(required, failing)
    /\ NotifySubscribers(gvrs' # gvrs)

(* The obsolete controllers are stopped; the missing ones are created, except  *)
(* those whose creation fails, and a goroutine starts each of them.            *)
ReconcileShards(required, failing) ==
    LET new == {s \in required \ failing : controllers[s] = None}
        number == CHOOSE f \in [new -> runs + 1 .. runs + Cardinality(new)] :
                    \A s, u \in new : s # u => f[s] # f[u]
        fresh == {[shard |-> s, run |-> number[s]] : s \in new}
    IN  /\ controllers' =
             [s \in Shards |-> IF s \in new THEN [run |-> number[s], ready |-> FALSE]
                               ELSE IF s \in required THEN controllers[s] ELSE None]
        /\ alive' = {x \in alive : x.shard \in required \/ controllers[x.shard] = None
                                      \/ controllers[x.shard].run # x.run} \cup fresh
        /\ starting' = starting \cup fresh
        /\ runs' = runs + Cardinality(new)
        /\ overtaken' = overtaken \cup {x.shard : x \in {y \in starting : y.shard \notin required}}
        /\ UNCHANGED started

ReconcileTunnels(required) == tunnels' = required

(* The reconcilers run in a row: resources, shards, tunnels.  A new outcome of *)
(* the checks ends the pass, and the next one does the rest.                   *)
Process ==
    /\ on /\ queued /\ committing = None
    /\ queued' = FALSE
    /\ \E failing \in SUBSET AllGVRs(Served(targetSeen)), broken \in SUBSET RequiredShards(Served(targetSeen)) :
         LET t == Served(targetSeen)
             outcome == Unauthorized(AllGVRs(t), failing)
             stop == t # None /\ t.unauthorized # outcome
             kills == {s \in Shards \ RequiredShards(t) : controllers[s] = Zombie}
         IN  /\ IF failing \cup broken = {} THEN UNCHANGED events ELSE Event("fail")
             /\ IF ~stop /\ kills # {}
                THEN Off
                ELSE /\ ReconcileGVRs(AllGVRs(t), failing)
                     /\ IF stop THEN UNCHANGED <<shards, tunnels>>
                        ELSE ReconcileShards(RequiredShards(t), broken) /\ ReconcileTunnels(RequiredShards(t))
                     /\ committing' = [old |-> t, unauthorized |-> outcome,
                                       again |-> stop \/ GVRErrors(AllGVRs(t), failing) \/ broken # {}]
                     /\ UNCHANGED <<on, targetSeen, managed>>
    /\ UNCHANGED <<target, cluster>>

(* The condition is written with the version that was read.                    *)
Commit ==
    /\ on /\ committing # None
    /\ committing' = None
    /\ LET same == committing.old = None \/ committing.old.unauthorized = committing.unauthorized
       IN  /\ target' = IF ~same /\ target = committing.old
                        THEN [target EXCEPT !.unauthorized = committing.unauthorized] ELSE target
           /\ queued' = (queued \/ committing.again \/ (~same /\ target # committing.old))
    /\ UNCHANGED <<targetSeen, on, cluster, watching, managed, shards, tunnels, events>>

(* The end of the goroutine.  Its caches sync unless its context is cancelled  *)
(* first; if both happen it may see either.  It then writes the entry of its   *)
(* shard, whoever's that is by now.                                            *)
StartReturns(x, ok) ==
    /\ on /\ x \in starting
    /\ ok \/ x \notin alive
    /\ starting' = starting \ {x}
    /\ IF ok
       THEN /\ started' = started \cup {x}
            /\ controllers' = [controllers EXCEPT ![x.shard] = IF @ = None THEN Zombie ELSE [@ EXCEPT !.ready = TRUE]]
       ELSE /\ controllers' = [controllers EXCEPT ![x.shard] = None]
            /\ UNCHANGED started
    /\ UNCHANGED <<status, on, queued, committing, cluster, watching, managed, alive, runs, overtaken,
                   tunnels, events>>

SeeTarget ==
    /\ on /\ targetSeen # target
    /\ targetSeen' = target /\ queued' = TRUE
    /\ UNCHANGED <<target, on, committing, cluster, watching, managed, shards, tunnels, events>>

-----------------------------------------------------------------------------
(* Informers and the controller manager *)

(* The informer factory reads the whole list of resources, however many        *)
(* notifications its channel could not take.                                   *)
UpdateInformers ==
    /\ on /\ notified
    /\ notified' = FALSE /\ resync' = TRUE
    /\ informers' = [r \in Resources |->
                       IF r \notin gvrs THEN None
                       ELSE IF informers[r] # None THEN informers[r]
                       ELSE [made |-> made + 1, synced |-> FALSE]]
    /\ made' = IF \E r \in gvrs : informers[r] = None THEN made + 1 ELSE made
    /\ returned' = (returned \/ (endpoints # None /\ \E r \in RequiredGVRs \cap gvrs : informers[r] = None))
    /\ UNCHANGED <<status, on, queued, committing, cluster, gvrs, endpoints, shards, tunnels, events>>

InformerSyncs(r) ==
    /\ on /\ informers[r] # None /\ ~informers[r].synced
    /\ informers' = [informers EXCEPT ![r].synced = TRUE]
    /\ UNCHANGED <<status, on, queued, committing, cluster, watching, made, resync, endpoints, returned,
                   shards, tunnels, events>>

Missing == {r \in RequiredGVRs : informers[r] = None \/ ~informers[r].synced}

(* Mutant: an informer that has not synced yet is one that does not exist.     *)
ResyncNever(r) == FALSE

(* The first resource that is missing decides whether to look again.           *)
ResyncFor(r) == informers[r] # None

(* A controller that runs is left alone, else it is given the informers of     *)
(* this moment.                                                                *)
ManagerProcess ==
    /\ on /\ resync
    /\ IF Missing = {}
       THEN /\ endpoints' = IF endpoints # None THEN endpoints
                            ELSE [r \in RequiredGVRs |-> informers[r].made]
            /\ resync' = FALSE /\ UNCHANGED returned
       ELSE /\ endpoints' = None /\ returned' = FALSE
            /\ \E r \in Missing : resync' = ResyncFor(r)
    /\ UNCHANGED <<status, on, queued, committing, cluster, watching, informers, made, shards, tunnels, events>>

-----------------------------------------------------------------------------
(* Environment *)

(* By the controllers of the server.                                           *)
SetShards ==
    /\ Event("shards") /\ target # None
    /\ \E s \in SUBSET Shards : target' = [target EXCEPT !.shards = s]
    /\ UNCHANGED <<targetSeen, on, queued, committing, cluster, watching, managed, shards, tunnels>>

SetAccepted ==
    /\ Event("accept") /\ target # None
    /\ \E a \in SUBSET Resources : target' = [target EXCEPT !.accepted = a]
    /\ UNCHANGED <<targetSeen, on, queued, committing, cluster, watching, managed, shards, tunnels>>

(* By a user: the SyncTarget goes, and one with its name may come.             *)
ReplaceTarget ==
    /\ Event("replace") /\ target # None
    /\ target' = IF target.uid = Uid THEN None ELSE target
    /\ UNCHANGED <<targetSeen, on, queued, committing, cluster, watching, managed, shards, tunnels>>

CreateTarget ==
    /\ Event("replace") /\ target = None
    /\ target' = [uid |-> Uid + 1, shards |-> Shards, accepted |-> Resources, unauthorized |-> {}]
    /\ UNCHANGED <<targetSeen, on, queued, committing, cluster, watching, managed, shards, tunnels>>

(* In the cluster: nothing tells the syncer.                                   *)
Permissions ==
    /\ Event("permit")
    /\ allowed' = IF allowed = Resources THEN Resources \ {CHOOSE r \in Resources : TRUE} ELSE Resources
    /\ UNCHANGED <<status, on, queued, committing, discovered, watching, managed, shards, tunnels>>

Discovery ==
    /\ Event("discover")
    /\ discovered' = IF discovered = Resources THEN Resources \ {CHOOSE r \in Resources : TRUE} ELSE Resources
    /\ UNCHANGED <<status, on, queued, committing, allowed, watching, managed, shards, tunnels>>

Crash ==
    /\ Event("crash") /\ on
    /\ Off /\ UNCHANGED <<target, cluster>>

-----------------------------------------------------------------------------
(* Specification *)

Init ==
    /\ target = [uid |-> Uid, shards |-> {}, accepted |-> {}, unauthorized |-> {}]
    /\ targetSeen = None /\ on = FALSE /\ queued = FALSE /\ committing = None
    /\ allowed = Resources /\ discovered = Resources
    /\ gvrs = {} /\ notified = FALSE
    /\ informers = NoInformers /\ made = 0 /\ resync = FALSE /\ endpoints = None /\ returned = FALSE
    /\ controllers = NoControllers /\ starting = {} /\ alive = {} /\ started = {} /\ runs = 0
    /\ overtaken = {} /\ tunnels = {} /\ events = 0

Works ==
    \/ StartSyncer \/ Heartbeat \/ Process \/ Commit \/ SeeTarget
    \/ \E x \in starting, ok \in BOOLEAN : StartReturns(x, ok)
    \/ UpdateInformers \/ ManagerProcess \/ \E r \in Resources : InformerSyncs(r)

Next ==
    \/ Works
    \/ SetShards \/ SetAccepted \/ ReplaceTarget \/ CreateTarget
    \/ Permissions \/ Discovery \/ Crash

Spec == Init /\ [][Next]_vars

(* Every worker goes on; the heartbeat of a process that runs comes again.     *)
Fairness ==
    /\ WF_vars(StartSyncer) /\ WF_vars(Heartbeat) /\ WF_vars(Process) /\ WF_vars(Commit)
    /\ WF_vars(SeeTarget) /\ WF_vars(UpdateInformers) /\ WF_vars(ManagerProcess)
    /\ WF_vars(\E x \in starting, ok \in BOOLEAN : StartReturns(x, ok))
    /\ \A r \in Resources : WF_vars(InformerSyncs(r))

FairSpec == Spec /\ Fairness

-----------------------------------------------------------------------------
(* Properties *)

Running == started \cap alive

Quiet ==
    /\ on /\ targetSeen = target /\ ~queued /\ committing = None
    /\ Settled

(* When there is nothing left to do, exactly one set of controllers runs for   *)
(* every shard of the SyncTarget, the one that the shard manager hands out;    *)
(* none runs for a shard that is gone, which would go on writing for it; the   *)
(* tunnels are those of the same shards; the informers are those of the        *)
(* resources watched; and the endpoints controller, if it has what it needs,   *)
(* listens to these informers and not to ones that were stopped.  Every step   *)
(* on the way is taken by another goroutine than the one that decided it.      *)
(* Two cases are left out, as they fail.  The start of a shard that went       *)
(* meanwhile writes the entry of another start, or one that nobody can stop,   *)
(* until the process ends: nothing is said of that shard.  And a resource that *)
(* goes and comes back before the manager has looked leaves the endpoints      *)
(* controller on an informer that was stopped.                                 *)
QuietMeansRunning ==
    Quiet =>
      /\ \A s \in Shards \ overtaken :
           LET mine == {x \in Running : x.shard = s}
           IN  IF s \in RequiredShards(Served(target))
               THEN /\ Cardinality(mine) = 1
                    /\ \A x \in mine : controllers[s] = [run |-> x.run, ready |-> TRUE]
               ELSE mine = {} /\ controllers[s] = None
      /\ tunnels = RequiredShards(Served(target))
      /\ \A r \in Resources : informers[r] # None <=> r \in gvrs
      /\ ~returned => IF Missing = {} THEN endpoints = [r \in RequiredGVRs |-> informers[r].made]
                      ELSE endpoints = None

(* A resource that the SyncTarget accepts and that the cluster allows and      *)
(* serves is watched in the end, and one that it no longer allows is not, and  *)
(* the SyncTarget says which; after checks that failed, permissions that       *)
(* changed without an event, conflicts on the condition and crashes.           *)
AcceptedIsWatched ==
    []<>(Served(target) # None =>
           /\ target.unauthorized = target.accepted \ allowed
           /\ \A r \in Resources :
                /\ r \in target.accepted \cap allowed \cap discovered => informers[r] # None /\ informers[r].synced
                /\ r \notin target.accepted \cap allowed => informers[r] = None)
-----------------------------------------------------------------------------
(* What the proofs need: the types, and what is known at any time *)

SyncTarget == [uid : Nat, shards : SUBSET Shards, accepted : SUBSET Resources, unauthorized : SUBSET Resources]
Pass == [old : SyncTarget \cup {None}, unauthorized : SUBSET Resources, again : BOOLEAN]
Entry == [run : Nat, ready : BOOLEAN]
Informer == [made : Nat, synced : BOOLEAN]

Constants ==
    /\ IsFiniteSet(Shards) /\ RequiredGVRs \subseteq Resources /\ RequiredGVRs # {}
    /\ None \notin SyncTarget /\ None \notin Pass /\ None \notin Entry /\ None \notin Informer
    /\ None \notin [RequiredGVRs -> Nat]

ProcessTypeOK ==
    /\ target \in SyncTarget \cup {None} /\ targetSeen \in SyncTarget \cup {None}
    /\ committing \in Pass \cup {None} /\ on \in BOOLEAN /\ queued \in BOOLEAN
    /\ notified \in BOOLEAN /\ resync \in BOOLEAN /\ returned \in BOOLEAN
    /\ informers \in [Resources -> Informer \cup {None}] /\ made \in Nat
    /\ endpoints \in [RequiredGVRs -> Nat] \cup {None}
    /\ controllers \in [Shards -> Entry \cup {None}] /\ runs \in Nat

Starter == [shard : Shards, run : Nat]

Managed == {s \in Shards : controllers[s] # None}

EntryOf(s) == [shard |-> s, run |-> controllers[s].run]

(* The shard manager knows all controllers of the shard that run, by their     *)
(* number, and the goroutine that starts those which are not ready.            *)
ShardIsKnown(s) ==
    /\ \A x \in alive \cup starting : x.shard = s => s \in Managed /\ x.run = controllers[s].run
    /\ s \in Managed => /\ controllers[s].run \in 1..runs /\ EntryOf(s) \in alive
                        /\ EntryOf(s) \in started <=> controllers[s].ready
                        /\ EntryOf(s) \in starting <=> ~controllers[s].ready

ManagedAreAlive ==
    /\ alive \subseteq Starter /\ starting \subseteq Starter /\ started \subseteq Starter
    /\ overtaken \subseteq Shards
    /\ \A x \in started \cup starting : x.run <= runs
    /\ \A s \in Shards \ overtaken : ShardIsKnown(s)

PassIsDue == queued \/ (committing # None /\ committing.again)

RequiredAreManaged ==
    ~PassIsDue =>
      /\ tunnels = RequiredShards(Served(targetSeen))
      /\ \A s \in Shards \ overtaken : s \in Managed <=> s \in RequiredShards(Served(targetSeen))

WatchedHaveInformers == ~notified => \A r \in Resources : informers[r] # None <=> r \in gvrs

(* The endpoints controller listens to informers of this moment, or to some    *)
(* that are gone, and none of them has been made anew.                         *)
EndpointsListen ==
    /\ returned => endpoints # None
    /\ ~returned /\ ~resync =>
         IF Missing = {} THEN endpoints # None
         ELSE endpoints = None /\ \E r \in RequiredGVRs : informers[r] = None
    /\ ~returned /\ endpoints # None =>
         \A r \in RequiredGVRs : informers[r] = None \/ (informers[r].made = endpoints[r] /\ informers[r].synced)

ProcessIInv ==
    /\ ProcessTypeOK
    /\ ManagedAreAlive /\ RequiredAreManaged /\ WatchedHaveInformers /\ EndpointsListen
=============================================================================
