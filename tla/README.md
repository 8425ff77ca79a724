# TLA+ specifications of contrib-tmc

contrib-tmc (transparent multi-cluster) lets the workspaces of a kcp server run
their workloads on physical Kubernetes clusters. A workspace user creates
ordinary objects; the TMC server decides on which cluster ("sync target") each
namespace is to run, and a syncer process beside each physical cluster copies
the objects down and their status up. Everything is a Kubernetes controller: it
reads informer caches, works on an old copy, writes with optimistic locking (or
without), and relies on a watch event, a retry or a timer to be called again.
That is where the hard questions are, and what these modules are about.

## The system

| Part | State | Operations | Interacts with |
|---|---|---|---|
| Scheduling of placements (`pkg/reconciler/scheduling/placement`) | `Placement` status: phase, selected location, Ready | select a location, Pending/Unbound/Bound | locations, namespaces |
| Sync target selection (`pkg/reconciler/workload/placement`) | annotation `internal.workload.kcp.io/synctarget` | keep, choose or drop the sync target | placements, locations, SyncTargets, APIBindings |
| Namespace scheduler (`pkg/reconciler/workload/namespace`) | placement annotation, state labels and deletion annotations of a namespace | bind, mark as removing, remove after the grace period | placements |
| Resource controller (`pkg/reconciler/workload/resource`) | state labels, deletion annotations, finalizers of every object | copy the namespace's assignment to its objects, propagate deletions | namespaces, SyncTargets |
| Syncer virtual workspace (`tmc/virtual/syncer`) | none of its own: per target view of an object, promoted fields | `BeforeWrite`, `AfterRead`, label selection | kcp API server, syncers |
| API reconciler of the virtual workspace | API definitions per target | build, replace, tear down | SyncTargets, schemas |
| Spec syncer (`pkg/syncer/spec`) | two work queues, informer caches | claim with a finalizer, apply, delete, release | virtual workspace, physical cluster, namespace cleaner |
| Status syncer (`pkg/syncer/status`) | work queue | write status up, release after a deletion | the same |
| Upsyncer (`pkg/syncer/upsync`) | set of keys with a dirty status | create, update, delete upstream from downstream | the same |
| Namespace cleaner (`pkg/syncer/namespace`) | `toDeleteMap`, delayed queue | plan, cancel, delete | spec syncer |
| Shard and controller managers (`pkg/syncer/synctarget`, `controllermanager`) | running shards and controllers | start and stop as URLs and APIs change | SyncTarget status |
| Heartbeat, SyncTarget, export and location controllers | SyncTarget and Location status | readiness, accepted APIs, counts | placements |
| API negotiation (`pkg/reconciler/apiresource`, `pkg/syncer/apiimporter.go`) | imports, negotiated resources, CRDs | negotiate, enforce, publish | SyncTargets |
| Coordination (`pkg/reconciler/coordination`, `tmc/coordination`) | spec diff and soft finalizer annotations | split replicas, summarise status | virtual workspace |
| Tunneler (`pkg/tunneler`, `pkg/syncer/tunneler.go`) | dialer pool per target | hand reverse connections over | |

What makes it hard: every decision is made on a cache that may be old; two
controllers of one process handle the same key concurrently; a write may
conflict, fail or be overtaken; a process may restart and lose its queues and
maps; several things only happen because some later event is bound to come.
`PROJECT.json` lists these hazards at the lines where they bite.

## ResourceSync: the life of one object

`ResourceSync` models one namespaced object of a workspace, the resource
controller, and for each sync target the three controllers of its syncer.

| Variable | Code |
|---|---|
| `upstream` | the object in kcp: state labels (`label`), syncer finalizers (`fin`), deletion annotations (`del`), soft finalizers (`soft`), a spec version |
| `ns`, `nsSeen` | the namespace's labels and deletion annotations; the resource controller's cached copy |
| `toReconcile` | the object is in the resource controller's queue |
| `live` | SyncTargets that exist |
| `watch`, `cached` | events on their way to a syncer's upstream informer, and what it holds: the view `AfterRead` produces |
| `down`, `downWatch`, `downSeen` | the object on the physical cluster, downstream events, the downstream informer |
| `queue`, `step`, `copy` | per controller: key queued, the request it is at, the object it read |
| `fresh` | the copies whose resourceVersion is still the latest: an update from any other copy conflicts |

A handler that makes several requests is split at each request, since other
processes act in between: `SpecProcess` reads the cache and chooses, then
`EnsureSyncerFinalizer`, `ApplyToDownstream`, `DeleteFromDownstream`,
`DeleteOrphan`, `EnsureUpstreamFinalizerRemoved` (second read of the cache) and
`RemoveUpstreamFinalizer` (the update). `ReconcileResource` is one step: its
patch carries the resourceVersion it was computed from, so a patch that lost a
race changes nothing and the key is handled again. `NewSpecSyncer` (`"up"`) and
`NewSpecSyncerForDownstream` (`"down"`) are two controllers with queues of their
own for the same keys, as in the code; one controller never handles a key twice
at the same time (client-go work queues).

The environment: users create, delete and edit the object, a coordinator holds a
soft finalizer, the namespace is scheduled, unscheduled and expires, somebody
deletes the object downstream, requests fail, the syncer restarts, a SyncTarget
is removed. `Events` says which kinds may happen, `MaxEvents` how many.

Abstractions: the spec is a version number; the status has no content (its
update is a write like any other); the downstream namespace exists; the
downstream spec carries no resourceVersion, so an apply always succeeds.
`getSyncTargetFromKey` fails, and the finalizer of that target is dropped
(resource_reconcile.go:148-151), only when two SyncTargets have the same SHA-224
key; here and in `WorkspaceResources` keys are distinct, and a key without a
SyncTarget is no error.

### What is checked

| Run | Events | Shows |
|---|---|---|
| `resource_all_events` | all, 4 of them | `WellFormed`, `ClaimsAreLabelled`, `AssignedIsPlaced`, `SoftFinalizerHolds` |
| `resource_life` | no second assignment, no deletion behind the syncer's back, under `FairSpec` | `DownstreamIsClaimed`, `QuietMeansSynced` (the present spec where the object is assigned, nothing where it is not); `DeletionCompletes`, `AssignedArrives`, `UnassignedLeaves` |
| `resource_orphan` | violation of `UnassignedLeaves` | a race of the two spec syncers leaves an object on the cluster for ever |

Bounds: four events are enough for the sequences that matter (for example edit,
unschedule, error, restart); `MaxSpec = 1` distinguishes old from new. One
target is enough for everything that is not about two writers, and what is
(`ClaimsAreLabelled`, `AssignedIsPlaced`, `SoftFinalizerHolds`: that the
finalizers, labels and copies of targets do not disturb each other) is proved
for every set of targets. Deadlock is not an error: when the events are used up and all is synced the system rests.

Fairness (`Fairness`): workers and informers are goroutines that loop for ever,
so each controller of each syncer and each informer has weak fairness; the
physical cluster completes deletions; a coordinator eventually lets go of its
soft finalizer. Environment events have none.

The violation is a race. After a deletion downstream both spec syncers
are queued. One has read the object and is about to apply it; the other sees it
leaving, finds nothing downstream and lets the status syncer or itself release
it upstream; then the first applies its copy, by force and with no
resourceVersion. The finalizer's doc comment excludes this ("It is only removed
when the downstream object is deleted"), and nothing ever looks at the object
again.

### What is proved

`ResourceSync_proofs` proves, for every set of targets and every bound:
`TypeCorrect` (`WellFormed`), `Claims` (`ClaimsAreLabelled`), `SoftFinalizers`
(`SoftFinalizerHolds`) and `Placed` (`AssignedIsPlaced`). All follow from the
inductive invariant `IInv`:

* `CacheCatchesUp`: the events on their way end with the present object, so an
  informer with nothing on its way holds the present view;
* `FreshCopiesAreCurrent`: a copy that passes optimistic locking is the present
  view, which turns every guard on a copy into a guard on the object;
* `ClaimsAreLabelled`: needs the above, because the label is taken away by the
  resource controller and by `BeforeWrite`, each from what it read;
* `NothingForgotten`: an object that is wanted and not present downstream has
  something pending: a queued key, an event on its way, a deletion under way, or
  a worker about to claim or apply.

`AssignedIsPlaced` is `NothingForgotten` with nothing pending. The assumptions
are the named `ASSUME`s of the module, and that `NoView` is not a view.

`DownstreamIsClaimed` and `QuietMeansSynced` are proved (`FinalizerGuards`,
`QuietIsSynced`) under the assumption `OneStay`: the object is created once, its
namespace gets the label of a target once, and only the syncer deletes the object
on a cluster. Edits, deletions, the end of an assignment, expiry, soft finalizers,
failing requests, restarts and removal of SyncTargets remain. The assumption is
needed: with deletions behind the syncer's back the property fails (the run
`resource_orphan` is what becomes of it), and in a second stay a worker may apply
a copy that it kept from the first. The invariant is `OneStayInv`:

* `NamespaceShrinks` and `LeavesForGood`: once a target is on its way out nobody
  assigns the object to it again, and the views its syncer gets, in the order in
  which they come, say so from some point on (`LeftForGood`);
* `DeletedForGood`: a deletion downstream has only begun when the stay is over,
  so nothing that is still to be applied comes after it;
* `AppliedIsClaimed`: a worker that is about to apply, and an object that is
  there, have the finalizer upstream;
* `NothingMissed`: a difference between the cluster and the workspace has
  something pending.

Liveness is out of the prover's reach and model-checked.

## Scheduling: how a namespace gets its sync targets

`Scheduling` models the three controllers of the TMC server between a
`Placement` and the labels of a namespace that `ResourceSync` starts from: they
share informer caches, each has a queue of its own, and two of them write the
same `Placement`.

| Variable | Code |
|---|---|
| `loc`, `locSeen` | a location: matched by the placements' selector, not matched, gone; and in the cache |
| `ready`, `readySeen`, `evicted` | SyncTargets that are ready, schedulable and API compatible; those whose `EvictAfter` has passed (a matter of the clock, not of a cache) |
| `placement`, `placeWatch`, `placeSeen` | phase, selected location, `Ready`, sync target annotation, `Scheduled`; versions on their way to the cache; the cache |
| `ns`, `nsWatch`, `nsSeen` | the namespace: placement annotation (`bound`), the placements its labels match (`selects`), state labels, deletion annotations, condition |
| `age`, `timer` | ticks since a deletion timestamp, ticks until `AddAfter` brings the namespace back |
| `schedQueue`, `workQueue`, `nsQueue` | the three work queues |

| Action | Code |
|---|---|
| `ReconcilePlacement` | `scheduling/placement`: `SelectLocation` (a Bound placement never selects again), then `SetPhase` |
| `ReconcileSyncTarget` | `workload/placement`: keep the target if it is valid, drop it if none is, choose one at random and queue the key again |
| `ReconcileNamespace` | `workload/namespace`: the chain bind, scheduling, status, which stops at the first change of metadata (`ReconciledNamespace`), and `RequeueAfter` |
| `DeliverPlacement`, `DeliverNamespace`, `DeliverLocation`, `DeliverTarget`, `Resync` | the event handlers, with what each compares and whom it queues |
| `Tick` | the clock; deletion timestamps are cut to seconds (`Mark`) |
| `LocationChanges`, `TargetChanges`, `EvictionDue`, `NamespaceRelabelled` | users, the other controllers, the clock |

A reconciler reads caches and commits in one step: a commit carries the
resourceVersion of the cached object, so it fails (and the key is queued again)
exactly when there is a later version; an event that is delivered between the
read and the commit queues the key just as one delivered afterwards. The
annotation patch of `workload/placement` carries no resourceVersion and always
lands.

Abstractions: the spec of a Placement is fixed, so a location either matches or
does not; condition reasons and messages are left out; a location or target
cache jumps to the present value (each handler only looks at the newest one);
API compatibility is part of "ready". Commits of the status are taken to be
effective: `committer` (committer.go:161-165) sends the patch to the main
resource, and whether a server takes a change of status from there is not for
these controllers to say; all modules make this assumption. A Placement may be created with phase
`""`, because the default of the phase only applies to a status that is present.

### What is checked

| Run | Shows |
|---|---|
| `scheduling_liveness` | one placement, from its creation with one event or settled with two, of any kind at any time: `NamespaceFollows`, `PlacementsAreScheduled` once all handlers have run; `CommitsAreSplit` and `RemovedAfterGrace` in every step; `NamespaceArrives` and `UnusableIsLeft` in the end |
| `scheduling_two_placements` | two placements share the namespace: `PhaseIsRight` |

Bounds: two events are enough to take a target away while the namespace is on
its way to it and to bring it back; two locations with a target each make every
change of location a change of target. `Grace` is one tick and `Second` one or two
ticks, so a timestamp may be cut by a tick and the reconciler may look
before, at and after the end of the period. `MaxLag` bounds how often the random
choice is made before the cache catches up. `Settled` is a state the controllers
reach from `Init` by themselves; `Start` is `Init` without the count of events.
Deadlock is not an error: a settled system rests.

Three more things can be seen in the model and have no run. `UnusedIsUnbound`
("The placement will turn back to Unbound state when no namespace uses this
placement any more") does not hold with two placements: a Bound placement with an
invalid location stays Bound as long as the namespace is bound through the other
one, and never selects another location. Having chosen a target `workload/placement` queues the key at once, so that the
next pass may read a cache without the choice and choose another one; and when
the labels of a bound namespace change, the placement controller, which only
compares annotations, leaves phases as they are (`PhaseIsRight` is checked for
behaviours without relabelling).

Fairness: work queue and informer goroutines loop for ever; the clock goes on;
and the shared informers resync (every ten hours). The last is what
`UnusableIsLeft` needs for evictions: nothing queues a placement when
`EvictAfter` passes.

### What is proved

`Scheduling_proofs`, for all placements, locations, targets, grace periods and
roundings: `TypeCorrect` (`TypeOK`; the timer needs that a non-empty set of
waiting times has a least element), `CacheIsHonest`, `NeverCommitsBoth`
(`CommitsAreSplit`) and `GraceIsKept` (`RemovedAfterGrace`). The last two are
action properties; on their own the guards only speak of `nsSeen`. The invariant
`NamespaceCacheCatchesUp` (the versions under way end in the namespace) shows
that a commit that is let through was computed from the namespace itself, and
`NamespaceWrites` reduces every write to the reconciler chain or a relabelling.

The properties of quiet states are proved too, each from an invariant that says
of one controller: while the key is not queued and no version of the object is on
its way, the object is as the controller's caches want it.

| Theorem | Property | Invariant |
|---|---|---|
| `PlacementCacheIsHonest` | | `PlacementCacheCatchesUp`: the versions on their way end in the placement, and a Pending one (`Coherent`) has no location |
| `NamespaceIsFollowing` | `NamespaceFollows` | `NamespaceSettled` |
| `PlacementsGetTargets` | `PlacementsAreScheduled` | `TargetsSettled`, with `UsableSeen` what the caches allow |
| `PhasesFollow` | `PhaseIsRight` | `PhasesSettled`, `SelectedThroughout` |

The work is in the event handlers: each compares certain fields only, and the
proof shows for every delivery that what it does not compare does not matter to
the invariant. For the phase this is false of the namespace's labels, hence the
assumption `"relabel" \notin Events` of `PhasesFollow`. Liveness is model-checked.

## NamespaceCleaner: the downstream namespace

`NamespaceCleaner` models one namespace on a physical cluster: the spec syncer
creates it when it needs it and plans its cleaning when it deletes an object;
the `DownstreamController` of the syncer deletes it some time later if it is
empty.

| Variable | Code |
|---|---|
| `view`, `viewSeen` | each object as the syncer's virtual workspace shows it, and in the upstream cache |
| `upstreamNs` | `upstreamNamespaceExists` |
| `down`, `downWatch`, `downSeen`, `dns`, `dnsWatch`, `dnsSeen` | the objects and the namespace on the cluster, events, downstream caches |
| `queue`, `step`, `copy` | the spec syncer: queued keys, the request each worker is at, what it read |
| `planned`, `left` | the entry in `toDeleteMap` and the ticks until its time |
| `timer`, `delayed`, `deleting`, `nsQueue` | `AddAfter` of the delayed queue, that queue, a worker past its checks, the controller's queue |

`Process`, `DeleteOrphan`, `EnsureDownstreamNamespaceExists`,
`ApplyToDownstream`, `DeleteFromDownstream` are the requests of the spec
syncer; `PlanCleaning` and `CancelCleaning` the two operations of
`shared.Cleaner`; `ProcessDelayed` is `processDelayed` up to its request and
`DeleteDownstreamNamespace` the request, since the lock is not held between
them. `DeliverObject` and `DeliverNamespace` come from two independent
informers. `Restart` loses the map and the queues.

Abstractions: the spec syncer has one worker per object (the race of its two
controllers is `ResourceSync`'s), claims and soft finalizers are left out, and
so is the status syncer's release, which needs the object gone as
`DeleteFromDownstream` does. The clock normally passes only when nothing is
under way, since the delay (two minutes) is long for a cluster and its
informers; the event kind `"slow"` lifts this.

| Run | Shows |
|---|---|
| `downstream` | `EmptyNamespaceIsCleaned` on a prompt cluster, with failing requests and restarts; `SteadyIsKept` (the namespace is not deleted with an object in it that is to stay, and an object that stays assigned is there in the end) while objects only leave or are edited |
| `cleaner_lost` | violation of `WantedArrives`: an object is assigned between the checks and the deletion, and the cancelled cleaning is carried out; the object's deletion is handled after the namespace's, the handler finds no locator and drops it, and the object never comes back |

`EmptyIsCleaned` is about an upstream namespace that is gone from the start: when
it goes after a plan was cancelled or lost in a restart, no handler looks at the
downstream namespace again, and it stays. Nor does it hold on a slow cluster
(event kind `"slow"`): the queue keeps the first of two times and the map the
second, so the check may come too early, and no later plan sets a timer.

Bounds: two objects, so that one's plan meets the other's cancellation; a delay
of two ticks, so that a plan can be made between the start and the end of
another; four events. The runs start from `Running`, where all is synced.
Fairness: workers, informers, the cluster's garbage collection and the clock.

### What is proved

`Downstream_proofs` proves the three invariants of the run `downstream` and the
safety half of `SteadyIsKept`. `EmptyNamespacesAreCleaned` is about the cleaner: for any set of objects, any
delay and any number of events, assuming `Prompt` (the cluster is not slow, and
nobody takes the namespace away upstream meanwhile) and `Constants` (there is an
object, for which the namespace was made). The danger is that a pass of the spec
syncer cancels a cleaning whose timer then runs for nothing, and that a plan that
is made later keeps the old timer. `CleanerIInv` says why it is met:

* `Owes(o)`: between the pass that cancels and the pass that finds the object
  gone, the worker of `o` still has to plan; whatever is in between (queued key,
  unseen release, event) is in the definition;
* `PlansAreNew`: the clock does not move while somebody owes a plan, so a plan
  that is found then was made since the cancellation and has its timer running;
* `CleaningIsComing`: a namespace without objects, for which nobody owes a plan,
  is being changed or has a plan with a timer, a queued key or a worker at it;
* `ReleasedIsGone`: an object that was released is not on the cluster and no
  worker puts it back. This needs that the release reads the cache again
  (`EnsureUpstreamFinalizerRemoved`); a release decided on the copy that the pass
  began with would take away an object that came back meanwhile;
* `ObjectsCatchUp`, `NamespaceCatchesUp`: the caches, and that every addition of
  the namespace is seen as one.

`NamespacesAreKept` (`NothingIsLost`, the safety half of `SteadyIsKept`): the
delayed worker looks into a cache and deletes afterwards, and still deletes no
namespace with an object that is to stay, if none comes back (no `"assign"`); the
cluster may even be slow. `FirstSyncIsKept` says the same from the start, while
objects are applied for the first time, and there the cluster must be prompt:
with `"slow"` TLC finds that a timer of an older plan runs out before the cache
shows the first object. `KeptIInv` (`IsKept`): an object that is assigned is about to be
applied, or it is there and, once a delayed worker has the key, seen there; so
no worker that is about to delete (`deleting`) meets one.

## Upsync and Mirror: objects that live on the cluster

`Upsync` models one object that a physical cluster owns and a workspace gets a
copy of, with the two controllers that write the copy. The upsyncer makes up to
four requests (`Create` or `Get` and `Update`, `UpdateStatus`, `Annotate`); the
clean-up controller and the upsyncer both remove an orphan (`GetOrphan`,
`RemoveFinalizers`, `DeleteOrphan`). `spec` and `status` of an object hold the
resourceVersion of their last change, so that content and annotation can be
compared. An informer changes its cache first and calls the handlers later:
`DeliverDownstream` and `EnqueueDownstream`, `DeliverNamespace` and
`EnqueueDeletedDownstreamNamespace` are separate actions, because the mark in
`dirtyStatusKeys` is set by the handler while workers read the cache.

`Mirror` is what upsyncing promises: a copy that may be late, never goes back to
older content and is not removed while there is an object. `ImplementsMirror`
says that `Upsync` implements it, with the content of the two objects as
`source` and `copy`.

| Run | Shows |
|---|---|
| `syncer` | `ImplementsMirror`; `AnnotatedIsUpToDate` (the annotation never claims content that is not there); `FollowsCluster` under fairness of the two workers and the informers |
| `upsync_status` | violation of `AnnotatedStatusIsUpToDate`: a worker between cache and handler writes the new resourceVersion without the new status, and the mark that comes later is dropped because the annotation is already equal |

Abstractions: the object and its namespace belong to this sync target, so label
and locator checks always succeed; the object is not made again on the cluster
after it has gone. With a re-creation between the look into the cache and the
deletion of an orphan, the new upstream object would go and nobody handles
deletions upstream (a hazard). Bounds: three resourceVersions and two events are
enough for a change under each request of a pass.

### What is proved

`Upsync_proofs`, for every bound and every set of event kinds, from the only
assumptions that the bounds are numbers and that `NoObject` is no object:
`Ordered` (`IInv`), `AnnotationIsTrue` (`AnnotatedIsUpToDate`) and `Mirrors`
(`ImplementsMirror`: each step of `Upsync` is a step of `Mirror` or leaves it
alone). Neither property is inductive, because a request is decided on a cache and
sent later. `IInv` says why it is still right: cluster, cache, the copy that the
worker carries and the workspace form a chain in which each lags behind the one
before (`Flow`, with `Behind` transitive as long as the middle exists); an object
that the cache has not seen has had no effect (`UnseenIsNew`); and nobody is
removing an orphan while there is an object, which needs the finalizer and the
order of namespace and object (`OnlyOrphansGo`, `NamespaceHolds`). There is one
lemma per action, and two for what requests share (`PushKeeps`, `RemovalKeeps`).
The proof rests on the object not being made again; `UnseenIsNew` and
`OnlyOrphansGo` fail otherwise. Liveness is model-checked.

## SyncerProcess: what runs in a syncer

`SyncerProcess` follows the status of the SyncTarget: `Process` derives the
resources to watch, the shards' controllers and the tunnelers (`Commit` writes the
condition at its end), `UpdateInformers` and `ManagerProcess` are the dynamic
informer factory and the controller manager behind it. The controllers of a
shard are started by a goroutine that returns later (`StartReturns`), and a
shard that is removed and added again meanwhile has two of them.

`QuietMeansRunning`: exactly the shards of the status run, once each, on
informers that are alive. A status may change at any time, so two things can go
wrong, and two history variables mark exactly these. A start that returns after
its shard was removed puts back an entry without stop function, or writes the
entry of the shard's next controllers: a shard that was removed before its start
had returned is in `overtaken` until the process ends, and nothing is said of it.
A resource that goes and returns before the controller manager has looked leaves
the endpoints controller on a stopped informer: `returned` says so until that
controller is stopped. Both are hazards of the code; everything else is promised
whatever overtakes what. `AcceptedIsWatched`: the resources that are accepted,
served and allowed are watched again and again, though permissions change without
an event: the heartbeat brings the SyncTarget back.

`SyncerProcess_proofs`, for any shards and resources and any number of events:
`ProcessRuns` (`QuietMeansRunning`), assuming only `ProcessConstants` (finitely many
shards, at least one required resource). `ProcessIInv` is checked by TLC with four
events, the run has three. `ManagedAreAlive`: for a shard that is not in
`overtaken` the entry of the shard manager, what runs and the goroutine that
starts something always agree, as an entry is ready exactly when its
goroutine has returned. `RequiredAreManaged`: a pass that failed is due again as
long as a required shard has no controllers. `EndpointsListen`: unless `returned`,
each informer that the endpoints controller listens to is the one of this moment
or has gone, and then the manager is due.

Left out: the resources that are always watched (namespaces, config maps,
secrets), more than one refused resource at a time, the index of logical
clusters. The handlers of that index are the wrong way round against their comment
(shard_manager.go:38-41): a deleted object is added and an upsynced object that
appears is removed (84-101), so a shard may be looked for in vain; this is a hazard
without a property. A heartbeat does not land in the middle of a pass: it would make the
commit fail and the pass start again.

## Tunnel: connections from kcp to pods

`Tunnel` models both ends of every request that the syncer sends to kcp. All
look alike: the handler takes one for the control connection when it finds no
open dialer and for a reverse connection otherwise, and the syncer does not
learn which. `HandlerLooks`, `DeleteDialer` and `CreateDialer` are the three
critical sections of the handler; `Serve`, `PickUp`, `PickUpFailed` and `DialerDone`
the select of `Dial`, where all clients wait on the same channels. `Crash` ends
the syncer's side of everything; kcp notices later (`HandlerEnds`).

`TunnelComesBack` (`[]<>`) and `DialEnds`, together the run's `TunnelServes`, hold
under fairness of the goroutines on both sides; dead connections are noticed by the keep-alives. Four requests,
two clients and three events are enough for a crash while one client waits and
the other talks. With `Overlap = TRUE`, where a handler may look between two of
the critical sections of another, the dialer that is left may be that of a
process that is gone. `BreakingSpec` adds `Break`, a control connection that ends
while its process goes on, and under it `TunnelComesBack` fails: a reverse
connection that was asked for before the break arrives first and is registered
as the control connection; its listener has closed and drops it without closing
it, and the real control connection waits as a reverse connection until a client
dials (a hazard).

## SyncTargets: readiness, URLs and locations

Five controllers write a SyncTarget and the default Location: heartbeat (`HeartbeatProcess`
with its `AddAfter`, `CheckAfter`), synctarget (`PatchSyncTarget`,
`PatchSyncTargetStatus`: two patches without resourceVersion), default location,
location and the replication label. Time is relative: ages and remaining times,
moved by `Tick`.

`ReadyIsWatched`: the heartbeat controller will look at a ready target no later
than when its heartbeat gets too old: there is an event, a queued key or a timer. `QuietMeansCounted`: the
Location counts the targets there are and those that are ready and schedulable,
and their URLs carry the present uid. `StopsAreNoticed`: when syncers stop for
good the targets stay not ready and nothing is available. The run has one target,
the theorems any number. This is where `TargetChanges` of `Scheduling` comes from.

The API schema of SyncTarget has a status subresource, and the CRDs that the server
installs have none (tmc/server/bootstrap/bootstrap.go:65). The first patch of the
synctarget controller goes to the main resource and the second to the status:
with a subresource the URLs land with the second, without one with the first.
`PatchSyncTarget` allows both. `QuietMeansCounted` counts on the status endpoint for
changes after the first pass: where there is none, the URL of a shard that comes
later is never written, because the first patch is only sent when the metadata
changes.

### What is proved

`SyncTargets_proofs`, for every set of targets and shards and every threshold:
`NoneUnwatched` (`ReadyIsWatched`) from `Watched` (`TargetsTyped /\
SeenIsWatched`). `ReadyIsWatched` is not inductive: the controller sets its timer
from the heartbeat in the cache, which may be older than the stored one.
`SeenIsWatched` says the same of the copy in the cache: where both copies are
ready, the key is queued or a timer ends no later than the cached heartbeat does.
`Tick` moves timer and heartbeats together (`OlderKeeps`), and a write of another
controller that leaves readiness alone disturbs nothing (`UntouchedIsWatched`).

`TargetsAreCounted` (`QuietMeansCounted`), from `TargetsAreSettled`. Its invariant
`Settled` has a conjunct for each controller: what its pass would still change has
a key in the queue, an event on its way or, for readiness, a timer
(`UrlsSettled`, `ReadySettled`, `LocationSettled`, `DefaultSettled`,
`LabelSettled`). The synctarget controller sends its two patches without a
resourceVersion, so one that was made from a copy of a deleted target may land on
the target that was created again under its name. `UidsAreOld` and `PatchIsRight`
say why this is repaired: such a patch carries an older uid than the stored
target, whose own event is still to come. Assumptions: `Constants`, and
`NoneIsNoObject`, which also says that there are finitely many targets (they are
counted). `Settled` was checked with TLC for two targets and three events, and
for one target and five.

## Negotiation and APIExports: which APIs are synced

`Negotiation` models one API. The queue holds what happened to which object, so
elements of the same object may be with several workers; a worker reads the
caches, computes its requests and sends them one by one (`Request`); the first
that fails brings the element back. A schema is a set of fields, `Compare` the
comparison and narrowing over all imports. An existing negotiated resource is
created, read and updated as one request, as the read only supplies the
resourceVersion.

`QuietMeansNegotiated` and `QuietMeansServed` are checked with two imports and two
workers in an environment that waits until the controller is done (`Patient`).
With an impatient one TLC finds `CompatibleIsSupported` violated, the doc comment of
the `Compatible` condition: two imports are handled before the first negotiated
resource is in the cache, the second `Create` fails, and the schema that exists
is updated without having been compared. The first property fails there, too: an
import that is deleted before the negotiated resource made for it is in the
cache leaves that one behind, because `negotiatedAPIResourceIsOrphan` finds
none, and nobody looks again (negotiation.go:603). With `Patient = TRUE` random
walks with three workers, two fields and twelve events find nothing. CRDs with several versions are left
out. The syncer's importer only ever creates: its informer is limited to objects
with the SyncTarget's name (syncer.go:113-117), so it finds no import of its own.

`APIExports` models the three controllers between a negotiated resource and the
API that a syncer is served: the API export controller (schemas, list and
deletions as separate requests, `RequestsFor`), the export controller of SyncTargets, and
the API reconciler of the virtual workspace, which builds definitions, tears old
ones down and then replaces the map. `ListedExists`: the export never lists a
schema that is gone. `QuietMeansDefined`: a syncer is served exactly what was
negotiated, asked for and accepted, and no served definition is torn down.
A schema's uid is its name; `RefersBy` says whether targets name the export by
cluster or by path (the index has both). SyncTargets, imports and negotiated
resources have uids, and the deletion and new creation of one may reach a cache
as one update (`Told`).

The handlers drop events, and the model has their filters: the export controller
of SyncTargets compares `spec.supportedAPIExports` and `status.syncedResources`, and
the generation of an import; it ignores an import that goes; the API reconciler
reads `spec.supportedAPIExports`, but is told of a SyncTarget only when
`status.syncedResources` changes (`EnqueueSyncTarget`, `EnqueueAPIResourceImport`). So
`QuietMeansServedRightly`, everything served as it should be when all is quiet, is
violated, as TLC finds within four events:

* a SyncTarget deleted and created again while a commit of its status had not
  been seen is one update in which nothing differs that is compared, and the new
  SyncTarget keeps its empty status;
* an import that is gone leaves the API accepted and served;
* an import made anew has generation 1 again;
* an export that was taken from a SyncTarget and given back before the status was
  rewritten may stay without definitions, because the status does not change.

The history variable `untold` records exactly these: what has entered a cache
since the last pass of a controller that should have been told of it.
`QuietMeansDefined` requires the right service of every API to which none of them
applies, and of all of them when there is no SyncTarget. Every pass ends the
exception, whatever caused it.

A negotiated resource may be cleaned up (`CleanUpNegotiated`); its schema stays and
stays listed. The comment on the controller says the opposite, that it "deletes
APIResourceSchemas that have no NegotiatedAPIResource in the workspace anymore"
(workload_apiexport_controller.go:111). `QuietMeansCleanedUp` states that, and TLC
finds it violated: list, negotiate, clean up.

The run has one resource. It starts from nothing with four events, or from an
API that is served with three more; the theorem is for any number.

### What is proved

`APIExports_proofs`, for any set of resources and fields and any number of events:

* `ListedIsThere` (`ListedExists`) and `ListFollows` (a resource that is listed
  stays listed, and never goes back to an older schema), from `ExportIInv`. A pass
  makes schemas, updates the list and deletes what it replaced, all decided on
  caches. `NegotiationGrows`, `SchemasAreMade` and `OnePerResource` say that names
  carry versions and that none is newer than what was seen of the negotiation;
  `ListIsRight`, `UpdatesAreRight` and `DeletedIsReplaced` that a request that is
  still to be sent is right for the list as it is when it lands, given the
  resourceVersion of the update. From `NoneIsNothing` alone.
* `ServedIsRight` (`QuietMeansDefined`), from `ServedInvariant` (`ServedIInv`),
  assuming `RefersBy = "cluster"` and `NoneIsNoObject`; nothing is assumed of users,
  clusters or the negotiation. `ExportSettled`, `TargetSettled` and
  `DefinitionsSettled` say of the three controllers that what they would still
  change is on its way or untold. It has to be shown that the filters drop nothing
  else: an update of the same SyncTarget that changes neither field the handlers
  compare changes nothing (`TargetIsSeen`), an import of the same uid and
  generation is the same (`ImportsGrow`, `ImportIsSeen`), and a SyncTarget created
  anew is told from the one that had its name before (`UidsAreOld`).

## Coordination: one object on several targets

`Coordination` models the transformer's views (`BeforeWrite`, `AfterRead` with
promotion of the status on a single target) together with the deployment
coordinator that divides replicas (`ProcessUpstreamView`) and sums statuses
(`ProcessSyncerView`). `OwnStatus`: the view of a syncer that stays shows the status
it wrote last, wherever that is kept. `QuietMeansCoordinated`: the replicas shown
to the targets add up to what the user asked for and the status is the sum of
theirs. The status is one number; writes are with optimistic locking and so one
step each; a write through the main resource or the status stores annotations
and status.

The removal of a target promotes the status of the one that remains by a request
of its own, and what comes between this and the removal is where the code gets it
wrong. A target that was to leave may be told to stay (`Rescue`, the code's
`computePlacement` takes the deletion annotation back), or a third one may take
over and find two owners: `BeforeWrite` takes a status back only from a single one.
A status is then in the object while others have views, and the sum counts itself.
`QuietMeansCoordinated` promises the sum where no status is beside another view
(`Alone`), and that this is so with two targets of which none is leaving and none was
told to stay (`rescued`). When both targets are to leave, each promotes the other's
status, so that one is lost: for a target that was told to stay, `OwnStatus` is
about what it showed at that moment.

`Kcp_proofs`, for any finite set of targets, any replicas and statuses and any
number of events: `CopiesOwnStatus` (`OwnStatus`) and `CopiesCoordinated`
(`QuietMeansCoordinated`), assuming only `CopyConstants`. `CopyIInv` says that
the owners are the targets with a view (`OwnersHaveViews`), that among two targets that
were never told to stay one is leaving if a status is promoted and both have a view
(`PromotedIsAlone`), and
that what a queue does not hold has been written for the copy that was seen
(`SplitIsWritten`, `SumIsWritten`). That shares add up (`Split`) and that one changed
summand changes a sum as it should are lemmas about `SumFunction`, by induction
over finite sets.

## Around the core: DNS, namespaces, Endpoints

* `WorkspaceDNS`: workers of the spec syncer create the DNS server of a workspace
  in passing, from listers that lag behind; deployments wait for it and for the
  token of their service account. `DNSComesUp`: it comes up with the image of the
  running syncer, and every object is synced. That *all* its resources exist
  (`AllCreated`) does not hold: once there are endpoints nothing is created any
  more, so a network policy whose creation failed stays missing (a hazard).
* `NamespaceMap`: the table from logical to physical namespaces in a ConfigMap, and
  the DNS plugin that reads it. The code runs two workers, and the one that listed
  first may write last: the run `map_two_workers` shows that `QuietMeansResolved`
  does not hold. What holds with any number of workers is `OvertakenOrResolved`:
  only namespaces that an older list took out of the table (the history variable
  `overtaken`) are not resolved, and none is lost to a filter of events, a failure
  or a restart. The table may keep names that are gone (`QuietMeansRefreshed` does
  not hold): a key whose namespace is gone is dropped and no table is written.
* `Endpoints`: Endpoints of a Service that asks for it are labelled for upsyncing,
  with three informers in any order, objects that are made anew (`uid`) and patches
  that fail. `QuietMeansLabelled` is about a Service that the last pass found (the
  history variable `found`). `EarlyIsLabelled`, without that condition, does not
  hold: a pass that comes before the Service is in the cache ends, and a Service
  that comes queues nothing (a hazard).

`Downstream_proofs` proves `NamespacesAreResolved` (`OvertakenOrResolved`, from
`MapIInv`: a namespace that is listed and not queued is in the ConfigMap, or in the
table that is about to be written for it, or was taken out) and
`EndpointsAreLabelled` (`QuietMeansLabelled`, from `EpIInv`: uids are never used
again, a Service that was found leaves the cache only when it is gone, and what is
in the caches when nothing is queued has been dealt with). `NoneIsNoTable` is the
only assumption.

## Commands and ServerStart

`Commands` models each command line plugin as the requests it sends, in order:
`workload sync` (SyncTarget, service account, cluster role, binding, token), `bind
compute`, `bind apiexport`, `cordon`, `uncordon`, `drain`. Runs overlap, fail and are
interrupted, and are not retried. `CommandsKeepTheirWord`: when runs that
overlapped have all reported success and nobody deleted anything meanwhile
(`spoiled`), what they promise is there, whatever interrupted runs before them
left behind: the syncer's permissions, the bindings, the placement. The
commands `uncordon` and `drain` send a patch computed from what they read: one that
ends later may undo the other (workload.go:104). The local APIExport of `--resources`
is read and then created or updated (`GetLocalExport`, `CreateLocalExport`,
`UpdateLocalExport`); of the rendered manifest there are the uid of the SyncTarget and the resources
that the syncer gets permissions for (`Manifest`).

`Kcp_proofs`, for any number of runs and events and any flags and exports:
`CommandsSucceed` (`CommandsKeepTheirWord`), assuming `CmdConstants`: names and steps
are no `None`, and who runs `workload sync` runs nothing else meanwhile (`Offers`). `CmdIInv` (TLC:
three runs, three events) says what holds for a run according to how far it is,
as long as nothing is `spoiled`: the SyncTarget exists, with the uid that the run read,
and as one of the runs wants it unless somebody may still patch it
(`TargetIsTheirs`); what was made for that uid is there (`ObjectsAreThere`), except
the cluster role binding, which is deleted and made again, so that some run may be
about to make it; the APIExport lists what one of them asked for (`ExportIsListed`);
and each `bind` run has made or found what it is past (`BindingsAreThere`).

`ServerStart` models the post-start hooks of servers that share a storage: CRDs
(two of the five) are created or updated one by one, informers start, controllers
wait. A copy that is stale makes an update fail (`versioned`, `fresh` stand for
resourceVersions). `ServersStart`: in the end every server runs all its controllers,
unless somebody deletes a CRD: the object in memory keeps its resourceVersion and
is never created again.

## InformerFactory: who starts the informers

`InformerFactory` models the shared informer factories of the generated clients,
which every controller is built on. Callers ask for informers
(`InformerFor`, `ForResource`), start them (`Start`), wait (`WaitForCacheSync`) and
shut the factory down (`Shutdown`, `ShutdownReturns`: the wait is without the
lock). Each critical section is a step. The factory of a single workspace
(`InformerForScoped`, `StartScoped`, `CachesSynced`) has no shutdown.
`FactoryKeepsItsWord`: no informer is run twice, none runs after a `Shutdown`
returned, and `WaitForCacheSync` reports as synced only what is.

`Kcp_proofs`, for any types and callers: `FactoryIsSafe`
(`FactoryKeepsItsWord`) and `GroupIsUsedRight` (`NothingAddedWhileWaiting`: the
wait group is not added to while a `Shutdown` waits for it), from
`FactoryInvariant`. `FactoryIInv` says that the maps under the lock, the wait group
and the callers agree: what is running is counted, an informer has been run once
exactly when it is marked as started, a caller is past `Shutdown` only if
`shuttingDown` is set, and nothing is counted once one has returned.

## WorkspaceResources: objects without a namespace to follow

`WorkspaceResources` is the resource controller for the objects `ResourceSync`
leaves out: a cluster-scoped one goes to the targets of all placements of its
workspace, an upsynced one goes with its SyncTarget. When a placement changes,
the handler finds the objects by the label or finalizer of its *old* target in a
cache (`Indexed`, `SeePlacement`); the pass is split into reading
(`ReadResource`) and its request (`PatchResource`, `DeleteResource`).
`QuietMeansPlaced`: when nothing is on its way the object is in place. That it is
also labelled for every target a placement names (`EveryTargetIsLabelled`) does not
hold: an object that exists before the first target is found by nobody (a hazard).

`Kcp_proofs`, for any targets and placements: `ObjectsAreInPlace`
(`QuietMeansPlaced`), from `WsInvariant`. `WsIInv` adds to the property that a copy
that passes optimistic locking is the object and that only upsynced objects are
deleted. Assumption: `WsConstants`.

## Composite runs

`MCDownstream`, `MCSyncer`, `MCKcp` and `MCAPIs` put modules that do not share state
side by side: `part`, chosen initially and constant, says which one moves; the
others stay in an initial state. A run then asks several questions at the cost of
the sum, not of the product, of the state spaces. A property starts with `part =
...`; a liveness property has the fairness of its own part as hypothesis
(`SteadyFairness`, `UpsyncFairness`, ...), which is the module's `Fairness` with the
part as a conjunct.

| Run | Parts | Properties |
|---|---|---|
| `downstream` | cleaner, steady (cleaner without new assignments), map, dns, endpoints | `EmptyNamespaceIsCleaned`, `SteadyIsKept`, `OvertakenOrResolved`, `DNSComesUp`, `QuietMeansLabelled` |
| `syncer` | upsync, process, tunnel | `AnnotatedIsUpToDate`, `ImplementsMirror`, `FollowsCluster`, `QuietMeansRunning`, `AcceptedIsWatched`, `TunnelServes` |
| `kcp` | targets, copies, commands, start, factory, workspace | `ReadyIsWatched`, `QuietMeansCounted`, `StopsAreNoticed`, `OwnStatus`, `QuietMeansCoordinated`, `CommandsKeepTheirWord`, `ServersStart`, `FactoryKeepsItsWord`, `QuietMeansPlaced` |
| `apis` | negotiation, exports | `QuietMeansNegotiated`, `QuietMeansServed`, `ListedExists`, `QuietMeansDefined` |

Deadlock is not an error in any of them: when the events are used up a system at
rest has nothing to do.

## Plan

Every component with state is modelled, and all safety invariants but the two of
`Negotiation` are proved. What would add most now is their proof, which has to
say for each event of a patient environment what is on its way; objects there
have no resourceVersion but their content, so that an import may change and
change back under a request.

## What is not proved

Liveness is outside the prover and only model-checked: `DeletionCompletes`,
`AssignedArrives`, `UnassignedLeaves`, `NamespaceArrives`, `UnusableIsLeft`, the second
half of `SteadyIsKept`, `DNSComesUp`, `AcceptedIsWatched`, `FollowsCluster`,
`TunnelServes`, `StopsAreNoticed` and `ServersStart`. So are the properties that a run
shows to be violated. An induction over data is only done where the library's
induction over finite sets fits (sums over targets). Of the safety properties,
`QuietMeansNegotiated` and `QuietMeansServed` are checked on the instance above
only; all others are theorems.

## What is not modelled

Static schemas, REST plumbing, flags and wiring, and generated clients have no
state of their own. The replication controllers configure a library controller;
what they label is in `SyncTargets`. Placements that are edited or deleted, CRDs with several versions,
the bytes of a tunnelled connection and the DNS protocol are left out.
`PROJECT.json` lists every part with its status.
