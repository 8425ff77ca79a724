---------------------------- MODULE ResourceSync ----------------------------
(***************************************************************************)
(* The life of one workload object of a kcp workspace that is synced to    *)
(* physical clusters ("sync targets").                                     *)
(*                                                                         *)
(* Upstream, the object carries for every sync target t a state label, a   *)
(* syncer finalizer, a deletion annotation and a soft finalizer.  The      *)
(* resource controller of the TMC server assigns the object to the targets *)
(* of its namespace.  Each target runs a syncer: three controllers that    *)
(* share one informer cache of the virtual workspace (what BeforeWrite and *)
(* AfterRead let this target see and write) and one of the physical        *)
(* cluster.                                                                *)
(*                                                                         *)
(* Every controller reads a cache, keeps the copy, and acts on it later.   *)
(* A write upstream carries the resourceVersion of the copy: it succeeds   *)
(* only if nothing was written since (variable fresh).  A write downstream  *)
(* carries no resourceVersion.                                             *)
(***************************************************************************)
EXTENDS Naturals, Sequences, FiniteSets

CONSTANTS
    Targets,    \* the keys of the sync targets
    NoView,     \* what a lister returns for an object it does not hold
    MaxSpec,    \* bound: edits of the object's spec by its user
    MaxEvents,  \* bound: events of the environment in one behaviour
    Events      \* the kinds of environment events that may happen

EventKinds == {"create", "delete", "edit", "schedule", "unschedule", "expire",
               "soft", "downstream", "error", "restart", "remove"}

ASSUME NatBounds == MaxSpec \in Nat /\ MaxEvents \in Nat
ASSUME EventsKnown == Events \subseteq EventKinds

VARIABLES
    upstream,   \* the object in the kcp workspace
    ns,         \* its namespace: targets it is labelled with, and leaving
    nsSeen,     \* the namespace in the resource controller's informer cache
    toReconcile,\* the object's key is in the resource controller's queue
    live,       \* the SyncTargets that still exist
    watch,      \* [t]: upstream events on their way to t's syncer
    cached,     \* [t]: the object in the upstream informer cache of t's syncer
    down,       \* [t]: the object on the physical cluster
    downWatch,  \* [t]: downstream events on their way to t's syncer
    downSeen,   \* [t]: the downstream informer cache of t's syncer holds it
    queue,      \* [t]: the controllers of t's syncer that have the key queued
    step,       \* [t][c]: the step controller c of t's syncer is at
    copy,       \* [t][c]: the upstream object it has read
    fresh,      \* the <<t, c>> whose copy still has the latest resourceVersion
    events      \* environment events so far

upVars == <<upstream, watch, toReconcile, fresh>>
nsVars == <<ns, nsSeen>>
downVars == <<down, downWatch>>
workVars == <<step, copy>>
vars == <<upstream, ns, nsSeen, toReconcile, live, watch, cached, down,
          downWatch, downSeen, queue, step, copy, fresh, events>>

-----------------------------------------------------------------------------
(* Types *)

SpecSyncers == {"up", "down"}   \* NewSpecSyncer, NewSpecSyncerForDownstream
Controllers == SpecSyncers \cup {"status"}
Steps == {"idle", "claim", "apply", "delete", "orphan", "release", "unclaim",
          "report"}

Specs == 0 .. MaxSpec

Objects == [exists : BOOLEAN, deleting : BOOLEAN, label : SUBSET Targets,
            fin : SUBSET Targets, del : SUBSET Targets, soft : SUBSET Targets,
            spec : Specs]

(* What a syncer sees of the object: labels and annotations of all targets, *)
(* its own finalizer only.                                                  *)
Views == [label : SUBSET Targets, del : SUBSET Targets, soft : SUBSET Targets,
          fin : BOOLEAN, spec : Specs]

ASSUME NoViewIsNoView == NoView \notin Views

NsStates == [label : SUBSET Targets, del : SUBSET Targets]
DownEvents == {"applied", "deleted"}
DownStates == [st : {"absent", "present", "deleting"}, spec : Specs]

Gone == [exists |-> FALSE, deleting |-> FALSE, label |-> {}, fin |-> {},
         del |-> {}, soft |-> {}, spec |-> 0]

-----------------------------------------------------------------------------
(* The virtual workspace of target t: it serves the objects labelled "Sync" *)
(* for t, with the finalizers of the other targets stripped.                *)

Selected(o, t) == o.exists /\ t \in o.label

AfterRead(o, t) ==
    [label |-> o.label, del |-> o.del, soft |-> o.soft,
     fin |-> t \in o.fin, spec |-> o.spec]

ViewOf(o, t) == IF Selected(o, t) THEN AfterRead(o, t) ELSE NoView

(* Mutant: the soft finalizer is not looked at.                             *)
RemovingIgnoresSoft(v, t) == t \in v.del

(* The view has a deletionTimestamp iff the deletion annotation is set and  *)
(* no soft finalizer is.                                                    *)
Removing(v, t) == t \in v.del /\ t \notin v.soft

(* The API server drops an object that is being deleted with its last       *)
(* finalizer.                                                               *)
Finalized(o) == IF o.deleting /\ o.fin = {} THEN Gone ELSE o

(* A write of the upstream object: every syncer that sees it gets an event, *)
(* every copy a controller holds is out of date, the resource controller    *)
(* gets an event unless the object is gone.                                 *)
Write(o) ==
    LET new == Finalized(o) IN
    /\ upstream' = new
    /\ watch' = [t \in Targets |->
                    IF Selected(upstream, t) \/ Selected(new, t)
                    THEN Append(watch[t], ViewOf(new, t)) ELSE watch[t]]
    /\ toReconcile' = (toReconcile \/ new.exists)
    /\ fresh' = {}

(* BeforeWrite when the syncer's copy has lost the finalizer and has a      *)
(* deletionTimestamp: t lets go of the object.                              *)
RemovedFromSyncer(o, t) ==
    [o EXCEPT !.label = @ \ {t}, !.fin = @ \ {t}, !.del = @ \ {t}]

-----------------------------------------------------------------------------
(* The resource controller *)

(* Mutant: an object that is being deleted is left alone.                   *)
PropagateNothing(o) == o

PropagateDeletionTimestamp(o) == [o EXCEPT !.del = @ \cup o.label]

(* Mutant: the label goes although the syncer has not let go.               *)
ComputePlacementForcibly(o, n) ==
    LET unexpected == o.label \ n.label
        kept == o.label \cap n.label
    IN  [o EXCEPT !.label = kept \cup (n.label \ n.del),
                  !.del = (@ \ (unexpected \cup (kept \ n.del))) \cup (kept \cap n.del)]

ComputePlacement(o, n) ==
    LET unexpected == o.label \ n.label
        held == {t \in unexpected : t \in o.fin \/ t \in o.soft}
        kept == o.label \cap n.label
        new == n.label \ (o.label \cup n.del)
    IN  [o EXCEPT !.label = (@ \ (unexpected \ held)) \cup new,
                  !.del = (@ \ ((unexpected \ held) \cup (kept \ n.del)))
                          \cup held \cup (kept \cap n.del)]

(* The finalizers of SyncTargets that are gone are removed.  The lookup by  *)
(* key fails only if two SyncTargets share one, a hash of 224 bits: here    *)
(* keys are distinct and its error, which counts as gone, cannot occur.     *)
Reconciled(o, n) ==
    LET placed == IF o.deleting THEN PropagateDeletionTimestamp(o)
                  ELSE ComputePlacement(o, n)
    IN  [placed EXCEPT !.fin = @ \cap live]

(* The patch carries UID and resourceVersion of the object that was read:   *)
(* a patch computed from an older one fails and the key is queued again, so *)
(* the step reads the object and patches it in one.  The namespace may be   *)
(* an old one.                                                              *)
ReconcileResource ==
    /\ toReconcile
    /\ LET o == Reconciled(upstream, nsSeen)
           changed == upstream.exists /\ o # upstream
       IN  IF changed THEN Write(o)
           ELSE toReconcile' = FALSE /\ UNCHANGED <<upstream, watch, fresh>>
    /\ UNCHANGED <<nsVars, live, cached, downVars, downSeen, queue, workVars, events>>

(* The namespace informer delivers: the object is queued if its placement   *)
(* differs from the namespace's.                                            *)
EnqueueNamespace ==
    /\ nsSeen # ns
    /\ nsSeen' = ns
    /\ toReconcile' = (toReconcile \/
          (upstream.exists /\ (upstream.label # ns.label \/ upstream.del # ns.del)))
    /\ UNCHANGED <<upstream, ns, live, watch, fresh, cached, downVars, downSeen,
                   queue, workVars, events>>

-----------------------------------------------------------------------------
(* The syncer of target t: informers *)

(* Mutant: only labels and annotations are compared.                        *)
MetadataEqual(old, new) ==
    IF NoView \in {old, new} THEN old = new
    ELSE [old EXCEPT !.spec = 0] = [new EXCEPT !.spec = 0]

(* Apart from its status, which a view leaves out.                          *)
DeepEqualApartFromStatus(old, new) == old = new

(* An upstream event: the spec syncer is queued unless only the status      *)
(* changed.                                                                 *)
DeliverUpstream(t) ==
    /\ t \in live
    /\ watch[t] # <<>>
    /\ cached' = [cached EXCEPT ![t] = Head(watch[t])]
    /\ watch' = [watch EXCEPT ![t] = Tail(@)]
    /\ queue' = [queue EXCEPT ![t] =
                    IF DeepEqualApartFromStatus(cached[t], Head(watch[t])) THEN @
                    ELSE @ \cup {"up"}]
    /\ UNCHANGED <<upstream, nsVars, toReconcile, live, downVars, downSeen,
                   workVars, fresh, events>>

(* A downstream event: the status syncer is queued; a deletion also queues  *)
(* the spec syncer for downstream.                                          *)
DeliverDownstream(t) ==
    /\ t \in live
    /\ downWatch[t] # <<>>
    /\ downSeen' = [downSeen EXCEPT ![t] = Head(downWatch[t]) = "applied"]
    /\ downWatch' = [downWatch EXCEPT ![t] = Tail(@)]
    /\ queue' = [queue EXCEPT ![t] = @ \cup
                    (IF Head(downWatch[t]) = "deleted" THEN {"status", "down"} ELSE {"status"})]
    /\ UNCHANGED <<upVars, nsVars, live, cached, down, workVars, events>>

-----------------------------------------------------------------------------
(* The syncer of target t: workers.  A key is handled by one worker of a    *)
(* controller at a time; different controllers handle it concurrently.      *)

Start(t, c) == t \in live /\ step[t][c] = "idle" /\ c \in queue[t]
At(t, c, s) == t \in live /\ step[t][c] = s

(* The controller has read v from its lister and goes to the given step.    *)
Goto(t, c, s, v) ==
    /\ step' = [step EXCEPT ![t][c] = s]
    /\ copy' = [copy EXCEPT ![t][c] = v]
    /\ fresh' = IF watch[t] = <<>> THEN fresh \cup {<<t, c>>}
                ELSE fresh \ {<<t, c>>}

Finish(t, c) ==
    /\ step' = [step EXCEPT ![t][c] = "idle"]
    /\ copy' = [copy EXCEPT ![t][c] = NoView]

Done(t, c) == Finish(t, c) /\ fresh' = fresh \ {<<t, c>>}
Dequeue(t, c) == queue' = [queue EXCEPT ![t] = @ \ {c}]

(* Mutant: the key of a failed item is forgotten.                           *)
FailedForGood(t, c) == Done(t, c) /\ UNCHANGED <<upstream, watch, toReconcile, queue>>

(* An error: the key is queued again (AddRateLimited).                      *)
Failed(t, c) ==
    /\ Done(t, c)
    /\ queue' = [queue EXCEPT ![t] = @ \cup {c}]
    /\ UNCHANGED <<upstream, watch, toReconcile>>

(* Mutants: NotFound is not told apart; nothing is claimed.                 *)
SpecStepWithoutNotFound(v, t) == IF v = NoView THEN "apply" ELSE
    IF Removing(v, t) THEN "delete" ELSE IF v.fin THEN "apply" ELSE "claim"
SpecStepWithoutClaim(v, t) ==
    IF v = NoView THEN "orphan" ELSE IF Removing(v, t) THEN "delete" ELSE "apply"

SpecStep(v, t) ==
    CASE v = NoView -> "orphan"
      [] v # NoView /\ ~v.fin /\ ~Removing(v, t) -> "claim"
      [] v # NoView /\ Removing(v, t) -> "delete"
      [] OTHER -> "apply"

(* process: read the upstream object from the cache and choose.             *)
SpecProcess(t, c) ==
    /\ c \in SpecSyncers
    /\ Start(t, c)
    /\ Dequeue(t, c)
    /\ Goto(t, c, SpecStep(cached[t], t), cached[t])
    /\ UNCHANGED <<upstream, watch, toReconcile, nsVars, live, cached, downVars, downSeen, events>>

(* A write through the virtual workspace: Conflict or NotFound unless the   *)
(* copy is fresh; the API server accepts no new finalizer on an object that *)
(* is being deleted.  On error the key is queued again.                     *)
EnsureSyncerFinalizer(t, c) ==
    /\ At(t, c, "claim")
    /\ IF <<t, c>> \in fresh /\ ~upstream.deleting
       THEN Write([upstream EXCEPT !.fin = @ \cup {t}]) /\ Finish(t, c) /\ UNCHANGED queue
       ELSE Failed(t, c)
    /\ UNCHANGED <<nsVars, live, cached, downVars, downSeen, events>>

(* Server-side apply of the copy, by force.                                 *)
ApplyToDownstream(t, c) ==
    /\ At(t, c, "apply")
    /\ LET new == down[t].st = "absent" IN
       /\ down' = [down EXCEPT ![t] =
                     [st |-> IF new THEN "present" ELSE @.st,
                      spec |-> copy[t][c].spec]]
       /\ downWatch' = [downWatch EXCEPT ![t] =
                          IF new THEN Append(@, "applied") ELSE @]
    /\ Done(t, c)
    /\ UNCHANGED <<upstream, watch, toReconcile, nsVars, live, cached, downSeen, queue, events>>

(* A deletion only sets the deletionTimestamp; see DownstreamGone.          *)
Deleted(t) ==
    down' = [down EXCEPT ![t].st = IF @ = "absent" THEN @ ELSE "deleting"]

(* The object is leaving this target: delete it downstream; when it is gone *)
(* already, release it upstream.                                            *)
DeleteFromDownstream(t, c) ==
    /\ At(t, c, "delete")
    /\ Deleted(t)
    /\ IF down[t].st = "absent"
       THEN step' = [step EXCEPT ![t][c] = "release"] /\ UNCHANGED <<copy, fresh>>
       ELSE Done(t, c)
    /\ UNCHANGED <<upstream, watch, toReconcile, nsVars, live, cached, downWatch, downSeen, queue, events>>

(* The upstream object is not in the cache: delete it downstream.           *)
DeleteOrphan(t, c) ==
    /\ At(t, c, "orphan")
    /\ Deleted(t)
    /\ Done(t, c)
    /\ UNCHANGED <<upstream, watch, toReconcile, nsVars, live, cached, downWatch, downSeen, queue, events>>

(* EnsureUpstreamFinalizerRemoved reads the upstream cache again ...        *)
EnsureUpstreamFinalizerRemoved(t, c) ==
    /\ At(t, c, "release")
    /\ IF cached[t] # NoView /\ t \in cached[t].del
       THEN Goto(t, c, "unclaim", cached[t])
       ELSE Done(t, c)
    /\ UNCHANGED <<upstream, watch, toReconcile, nsVars, live, cached, downVars, downSeen, queue, events>>

(* ... and updates the object without finalizer, label and annotation.  The *)
(* virtual workspace takes a copy without the finalizer only when it has a  *)
(* deletionTimestamp.                                                       *)
RemoveUpstreamFinalizer(t, c) ==
    /\ At(t, c, "unclaim")
    /\ IF <<t, c>> \in fresh /\ Removing(copy[t][c], t)
       THEN Write(RemovedFromSyncer(upstream, t)) /\ Finish(t, c) /\ UNCHANGED queue
       ELSE Failed(t, c)
    /\ UNCHANGED <<nsVars, live, cached, downVars, downSeen, events>>

(* The status syncer: the object is gone downstream => release it upstream, *)
(* otherwise report its status.                                             *)
StatusProcess(t) ==
    /\ Start(t, "status")
    /\ Dequeue(t, "status")
    /\ Goto(t, "status", IF downSeen[t] THEN "report" ELSE "release", cached[t])
    /\ UNCHANGED <<upstream, watch, toReconcile, nsVars, live, cached, downVars, downSeen, events>>

(* updateStatusInUpstream: nothing to do without a status downstream; an    *)
(* error if the upstream object is not in the cache or not owned (the       *)
(* virtual workspace refuses), or if the copy is old.  A status is data     *)
(* this model leaves out; its write is an event like any other.             *)
UpdateStatusInUpstream(t) ==
    /\ At(t, "status", "report")
    /\ \/ Done(t, "status") /\ UNCHANGED <<queue, upstream, watch, toReconcile>>
       \/ LET v == copy[t]["status"] IN
          IF <<t, "status">> \in fresh /\ v # NoView /\ v.fin
          THEN Write(upstream) /\ Finish(t, "status") /\ UNCHANGED queue
          ELSE Failed(t, "status")
    /\ UNCHANGED <<nsVars, live, cached, downVars, downSeen, events>>

-----------------------------------------------------------------------------
(* The environment *)

Event(kind) ==
    /\ kind \in Events
    /\ events < MaxEvents
    /\ events' = events + 1

(* The user creates the object, deletes it, or edits its spec.              *)
UserCreates ==
    /\ Event("create")
    /\ ~upstream.exists
    /\ Write([Gone EXCEPT !.exists = TRUE])
    /\ UNCHANGED <<nsVars, live, cached, downVars, downSeen, queue, workVars>>

UserDeletes ==
    /\ Event("delete")
    /\ upstream.exists /\ ~upstream.deleting
    /\ Write([upstream EXCEPT !.deleting = TRUE])
    /\ UNCHANGED <<nsVars, live, cached, downVars, downSeen, queue, workVars>>

UserEdits ==
    /\ Event("edit")
    /\ upstream.exists /\ upstream.spec < MaxSpec
    /\ Write([upstream EXCEPT !.spec = @ + 1])
    /\ UNCHANGED <<nsVars, live, cached, downVars, downSeen, queue, workVars>>

(* A coordination controller sets t's soft finalizer, before the object     *)
(* starts to leave t, and clears it.                                        *)
SetSoftFinalizer(t) ==
    /\ Event("soft")
    /\ Selected(upstream, t) /\ t \notin upstream.soft \cup upstream.del
    /\ Write([upstream EXCEPT !.soft = @ \cup {t}])
    /\ UNCHANGED <<nsVars, live, cached, downVars, downSeen, queue, workVars>>

ClearSoftFinalizer(t) ==
    /\ t \in upstream.soft
    /\ Write([upstream EXCEPT !.soft = @ \ {t}])
    /\ UNCHANGED <<nsVars, live, cached, downVars, downSeen, queue, workVars, events>>

(* The namespace scheduler: a label is added; a target that is to leave     *)
(* gets the deletion annotation, and loses both after the grace period.     *)
NamespaceChanges(n) ==
    /\ ns' = n
    /\ UNCHANGED <<upVars, nsSeen, live, cached, downVars, downSeen, queue, workVars>>

ScheduleNamespace(t) ==
    /\ Event("schedule")
    /\ t \in live \ ns.label
    /\ NamespaceChanges([ns EXCEPT !.label = @ \cup {t}])

UnscheduleNamespace(t) ==
    /\ Event("unschedule")
    /\ t \in ns.label \ ns.del
    /\ NamespaceChanges([ns EXCEPT !.del = @ \cup {t}])

ExpireNamespace(t) ==
    /\ Event("expire")
    /\ t \in ns.del
    /\ NamespaceChanges([label |-> ns.label \ {t}, del |-> ns.del \ {t}])

(* Somebody deletes the object on the physical cluster.                     *)
DownstreamUserDeletes(t) ==
    /\ Event("downstream")
    /\ down[t].st = "present"
    /\ Deleted(t)
    /\ UNCHANGED <<upVars, nsVars, live, cached, downWatch, downSeen, queue, workVars>>

(* The physical cluster completes a deletion.                               *)
DownstreamGone(t) ==
    /\ down[t].st = "deleting"
    /\ down' = [down EXCEPT ![t] = [st |-> "absent", spec |-> 0]]
    /\ downWatch' = [downWatch EXCEPT ![t] = Append(@, "deleted")]
    /\ UNCHANGED <<upVars, nsVars, live, cached, downSeen, queue, workVars, events>>

(* A request of a worker fails (timeout, server error): the key is queued   *)
(* again.                                                                   *)
RequestFails(t, c) ==
    /\ Event("error")
    /\ t \in live /\ step[t][c] # "idle"
    /\ Failed(t, c)
    /\ UNCHANGED <<nsVars, live, cached, downVars, downSeen>>

(* The syncer process of t dies and comes back: queues and copies are lost, *)
(* the informers list again and report every object they find as added.     *)
SyncerRestarts(t) ==
    /\ Event("restart")
    /\ t \in live
    /\ cached' = [cached EXCEPT ![t] = ViewOf(upstream, t)]
    /\ watch' = [watch EXCEPT ![t] = <<>>]
    /\ downSeen' = [downSeen EXCEPT ![t] = down[t].st # "absent"]
    /\ downWatch' = [downWatch EXCEPT ![t] = <<>>]
    /\ queue' = [queue EXCEPT ![t] =
                   (IF Selected(upstream, t) THEN {"up"} ELSE {}) \cup
                   (IF down[t].st # "absent" THEN {"status"} ELSE {})]
    /\ step' = [step EXCEPT ![t] = [c \in Controllers |-> "idle"]]
    /\ copy' = [copy EXCEPT ![t] = [c \in Controllers |-> NoView]]
    /\ fresh' = {x \in fresh : x[1] # t}
    /\ UNCHANGED <<upstream, nsVars, toReconcile, live, down>>

(* The SyncTarget object is deleted; its syncer has no access any more.     *)
SyncTargetRemoved(t) ==
    /\ Event("remove")
    /\ t \in live
    /\ live' = live \ {t}
    /\ toReconcile' = (toReconcile \/ t \in upstream.label \cup upstream.fin)
    /\ UNCHANGED <<upstream, watch, fresh, nsVars, cached, downVars, downSeen, queue, workVars>>

-----------------------------------------------------------------------------
Init ==
    /\ upstream = [Gone EXCEPT !.exists = TRUE]
    /\ ns = [label |-> Targets, del |-> {}]
    /\ nsSeen = ns
    /\ toReconcile = TRUE
    /\ live = Targets
    /\ watch = [t \in Targets |-> <<>>]
    /\ cached = [t \in Targets |-> NoView]
    /\ down = [t \in Targets |-> [st |-> "absent", spec |-> 0]]
    /\ downWatch = [t \in Targets |-> <<>>]
    /\ downSeen = [t \in Targets |-> FALSE]
    /\ queue = [t \in Targets |-> {}]
    /\ step = [t \in Targets |-> [c \in Controllers |-> "idle"]]
    /\ copy = [t \in Targets |-> [c \in Controllers |-> NoView]]
    /\ fresh = {}
    /\ events = 0

Server == ReconcileResource \/ EnqueueNamespace

Informers(t) == DeliverUpstream(t) \/ DeliverDownstream(t)

Syncer(t, c) ==
    \/ SpecProcess(t, c)
    \/ EnsureSyncerFinalizer(t, c)
    \/ ApplyToDownstream(t, c)
    \/ DeleteFromDownstream(t, c)
    \/ DeleteOrphan(t, c)
    \/ EnsureUpstreamFinalizerRemoved(t, c)
    \/ RemoveUpstreamFinalizer(t, c)

StatusSyncer(t) == StatusProcess(t) \/ UpdateStatusInUpstream(t)

Environment ==
    \/ UserCreates \/ UserDeletes \/ UserEdits
    \/ \E t \in Targets :
          \/ SetSoftFinalizer(t) \/ ClearSoftFinalizer(t)
          \/ ScheduleNamespace(t) \/ UnscheduleNamespace(t) \/ ExpireNamespace(t)
          \/ DownstreamUserDeletes(t) \/ DownstreamGone(t)
          \/ SyncerRestarts(t) \/ SyncTargetRemoved(t)
          \/ \E c \in Controllers : RequestFails(t, c)

Next ==
    \/ Server
    \/ \E t \in Targets : Informers(t) \/ StatusSyncer(t)
    \/ \E t \in Targets, c \in Controllers : Syncer(t, c)
    \/ Environment

Spec == Init /\ [][Next]_vars

(* Fairness: the workers and informers of the server and of every syncer    *)
(* are goroutines that loop for ever; the physical cluster completes        *)
(* deletions; a coordinator lets go of its soft finalizers.                 *)
Fairness ==
    /\ WF_vars(ReconcileResource) /\ WF_vars(EnqueueNamespace)
    /\ \A t \in Targets :
          /\ WF_vars(DeliverUpstream(t)) /\ WF_vars(DeliverDownstream(t))
          /\ WF_vars(StatusSyncer(t))
          /\ WF_vars(DownstreamGone(t)) /\ WF_vars(ClearSoftFinalizer(t))
          /\ \A c \in Controllers : WF_vars(Syncer(t, c))

FairSpec == Spec /\ Fairness

-----------------------------------------------------------------------------
(* Properties *)

(* Every variable has its type.                                             *)
TypeOK ==
    /\ upstream \in Objects
    /\ ns \in NsStates /\ nsSeen \in NsStates
    /\ toReconcile \in BOOLEAN
    /\ live \subseteq Targets
    /\ watch \in [Targets -> Seq(Views \cup {NoView})]
    /\ cached \in [Targets -> Views \cup {NoView}]
    /\ down \in [Targets -> DownStates]
    /\ downWatch \in [Targets -> Seq(DownEvents)]
    /\ downSeen \in [Targets -> BOOLEAN]
    /\ queue \in [Targets -> SUBSET Controllers]
    /\ step \in [Targets -> [Controllers -> Steps]]
    /\ copy \in [Targets -> [Controllers -> Views \cup {NoView}]]
    /\ fresh \subseteq Targets \X Controllers
    /\ events \in Nat

(* A worker that is about to write the object has read one, and claims only *)
(* what it has not claimed.                                                 *)
WorkersHoldCopies ==
    \A t \in Targets, c \in Controllers :
        /\ step[t][c] \in {"claim", "apply", "unclaim"} => copy[t][c] # NoView
        /\ step[t][c] = "claim" => ~copy[t][c].fin

(* Nothing is left of an object that does not exist.                        *)
AbsentIsGone == ~upstream.exists => upstream = Gone

(* The state is well formed.                                                *)
WellFormed == TypeOK /\ WorkersHoldCopies /\ AbsentIsGone

(* A syncer sees an object only while the object has the state label of its *)
(* target: a finalizer or a deletion annotation without the label would     *)
(* never be removed again, and would block the object's deletion or hit the *)
(* next assignment to the target.                                           *)
ClaimsAreLabelled ==
    /\ upstream.fin \subseteq upstream.label
    /\ upstream.del \subseteq upstream.label

(* While a coordinator holds a soft finalizer for a target, the syncer's    *)
(* finalizer and the state label stay, whatever copies the syncer works on. *)
SoftFinalizerHolds ==
    [][\A t \in live' : t \in upstream.soft \cap upstream.fin /\ upstream'.exists
          => t \in upstream'.fin /\ t \in upstream'.label]_vars

(* The finalizer is what the doc comment of SyncerFinalizerNamePrefix says: *)
(* put on the object before a downstream object is created, and only        *)
(* removed when the downstream object is deleted.                           *)
DownstreamIsClaimed ==
    \A t \in live : down[t].st # "absent" => t \in upstream.fin

(* The object is assigned to t and not leaving it.                          *)
Wanted(t) == Selected(upstream, t) /\ ~Removing(upstream, t)

(* Nothing is left to do for target t.                                      *)
Quiet(t) ==
    /\ t \in live
    /\ ~toReconcile /\ nsSeen = ns
    /\ watch[t] = <<>> /\ downWatch[t] = <<>> /\ queue[t] = {}
    /\ down[t].st # "deleting"
    /\ \A c \in Controllers : step[t][c] = "idle"

(* When nothing is left to do, an object that is assigned to a target is on *)
(* its cluster: no interleaving of the resource controller with the three   *)
(* controllers of the syncer loses the last event.                          *)
AssignedIsPlaced ==
    \A t \in Targets : Quiet(t) /\ Wanted(t) => down[t].st = "present"

(* ... with the spec of the upstream object, and one that is not assigned   *)
(* is not there.                                                            *)
QuietMeansSynced ==
    \A t \in Targets : Quiet(t) =>
        IF Wanted(t) THEN down[t].spec = upstream.spec ELSE down[t].st = "absent"

(* An object that is being deleted goes away: no finalizer is stuck.        *)
DeletionCompletes == upstream.deleting ~> ~upstream.exists

(* An object that stays assigned to a target ends up on its cluster.        *)
AssignedArrives ==
    \A t \in Targets : <>[](Wanted(t) /\ t \in live) => <>[](down[t].st = "present")

(* An object that stays away from a target is removed from its cluster.     *)
UnassignedLeaves ==
    \A t \in Targets : <>[](t \notin upstream.label /\ t \in live)
        => <>[](down[t].st = "absent")

-----------------------------------------------------------------------------
(* The inductive invariant behind the theorems of ResourceSync_proofs.      *)

(* The events on their way to a syncer end with the present object: what    *)
(* the informer holds is right once all of them are delivered.              *)
CacheCatchesUp ==
    \A t \in Targets :
        ViewOf(upstream, t) = IF watch[t] = <<>> THEN cached[t]
                              ELSE watch[t][Len(watch[t])]

(* A copy whose resourceVersion still matches is the present object.        *)
FreshCopiesAreCurrent ==
    \A t \in Targets, c \in Controllers : <<t, c>> \in fresh =>
        /\ watch[t] = <<>>
        /\ copy[t][c] = ViewOf(upstream, t)

(* An event that differs from what the informer holds is on its way.        *)
Unseen(t) == \E i \in 1 .. Len(watch[t]) : watch[t][i] # cached[t]

(* A deletion downstream is on its way.                                     *)
DeletionUnseen(t) == \E i \in 1 .. Len(downWatch[t]) : downWatch[t][i] = "deleted"

(* Something will make a spec syncer of t look at the object again, or one  *)
(* is about to claim or to apply it.                                        *)
Pending(t) ==
    \/ queue[t] \cap SpecSyncers # {}
    \/ Unseen(t)
    \/ DeletionUnseen(t)
    \/ down[t].st = "deleting"
    \/ \E c \in SpecSyncers : step[t][c] \in {"claim", "apply"}

NothingForgotten ==
    \A t \in live : Wanted(t) /\ down[t].st # "present" => Pending(t)

(* The inductive invariant.                                                 *)
IInv ==
    /\ WellFormed
    /\ CacheCatchesUp
    /\ FreshCopiesAreCurrent
    /\ ClaimsAreLabelled
    /\ NothingForgotten

-----------------------------------------------------------------------------
(* The inductive invariant for an object's only stay on a target: it is not *)
(* created again, its namespace is not labelled again, and nobody deletes   *)
(* it on the physical cluster behind the syncer's back.                     *)

OneStay == {"create", "schedule", "downstream"} \cap Events = {}

(* The cached namespace only loses targets.                                 *)
NamespaceShrinks ==
    /\ ns.label \subseteq nsSeen.label
    /\ nsSeen.del \cap ns.label \subseteq ns.del

(* The resource controller will not assign the object to t, whatever it     *)
(* sees of the namespace next.                                              *)
NeverAgain(t) ==
    upstream.deleting \/ ~upstream.exists \/ t \notin nsSeen.label \/ t \in nsSeen.del

(* A view the syncer answers by deleting downstream.                        *)
Leaving(v, t) == v = NoView \/ Removing(v, t)

LeftForGood(t) == Leaving(ViewOf(upstream, t), t) /\ NeverAgain(t)

(* ... and the syncer will not see anything else any more.                  *)
Over(t) ==
    /\ LeftForGood(t)
    /\ Leaving(cached[t], t)
    /\ \A i \in 1 .. Len(watch[t]) : Leaving(watch[t][i], t)

(* The syncer has something to do with the object.                          *)
Active(t) ==
    queue[t] # {} \/ downWatch[t] # <<>> \/ \E c \in Controllers : step[t][c] # "idle"

(* Once an object starts to leave a target it never comes back, and the     *)
(* views are delivered in that order.                                       *)
LeavesForGood(t) ==
    /\ t \in upstream.del => NeverAgain(t)
    /\ \A i \in 1 .. Len(watch[t]) : Leaving(watch[t][i], t) =>
          LeftForGood(t) /\ \A j \in i .. Len(watch[t]) : Leaving(watch[t][j], t)
    /\ Leaving(cached[t], t) /\ (cached[t] # NoView \/ Active(t)) => Over(t)

(* No worker is about to apply an older copy.                               *)
Ended(t) == Over(t) /\ step[t]["up"] # "apply"
Emptied(t) == Ended(t) /\ down[t].st = "absent"

(* Deletions downstream only begin when the stay is over.                   *)
DeletedForGood(t) ==
    /\ down[t].st = "deleting" => Ended(t)
    /\ DeletionUnseen(t) => Emptied(t)
    /\ "down" \in queue[t] \/ step[t]["down"] # "idle" => Emptied(t)
    /\ ~downSeen[t] /\ ("status" \in queue[t] \/ step[t]["status"] # "idle") => Emptied(t)
    /\ step[t]["status"] \in {"release", "unclaim"} => Emptied(t)
    /\ step[t]["up"] \in {"delete", "orphan"} => Over(t)
    /\ step[t]["up"] \in {"release", "unclaim"} => Emptied(t)
    /\ step[t]["down"] # "apply"
    /\ step[t]["status"] \in {"idle", "report", "release", "unclaim"}

(* What the syncer applies, or may come to apply, has its finalizer.        *)
AppliedIsClaimed(t) ==
    /\ down[t].st # "absent" => t \in upstream.fin
    /\ step[t]["up"] = "apply" => t \in upstream.fin
    /\ ~Leaving(cached[t], t) /\ cached[t].fin => t \in upstream.fin
    /\ \A i \in 1 .. Len(watch[t]) :
          ~Leaving(watch[t][i], t) /\ watch[t][i].fin => t \in upstream.fin

(* The spec syncer has still to look at what changed.                       *)
NothingMissed(t) ==
    /\ cached[t] # NoView /\ Leaving(cached[t], t) =>
          /\ down[t].st = "present" => "up" \in queue[t] \/ step[t]["up"] = "delete"
          /\ step[t]["up"] = "apply" => "up" \in queue[t]
    /\ ~Leaving(cached[t], t) =>
          /\ down[t].st # "absent" /\ down[t].spec # cached[t].spec =>
                "up" \in queue[t] \/ step[t]["up"] \in {"claim", "apply"}
          /\ step[t]["up"] = "apply" /\ copy[t]["up"].spec # cached[t].spec =>
                "up" \in queue[t]

OneStayInv ==
    /\ NamespaceShrinks
    /\ \A t \in live : /\ LeavesForGood(t) /\ DeletedForGood(t)
                       /\ AppliedIsClaimed(t) /\ NothingMissed(t)
=============================================================================
