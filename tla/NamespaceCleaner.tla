-------------------------- MODULE NamespaceCleaner --------------------------
(***************************************************************************)
(* The downstream namespace of one workspace namespace on one physical     *)
(* cluster: created by the spec syncer when it first needs it, deleted by  *)
(* the DownstreamController of the syncer some time after it may have      *)
(* become empty.                                                           *)
(*                                                                         *)
(* The two share toDeleteMap: the spec syncer plans the cleaning when it   *)
(* deletes an object and cancels it before it uses the namespace.  A       *)
(* delayed queue brings the key back; its worker looks whether the         *)
(* cleaning is still planned, looks whether the caches are empty, and      *)
(* sends the deletion: three moments between which the others go on.       *)
(*                                                                         *)
(* How an object is claimed and released is the matter of ResourceSync;    *)
(* here the spec syncer is one worker per object.                          *)
(***************************************************************************)
EXTENDS Naturals, Sequences

CONSTANTS
    Objects,    \* the objects of the workspace namespace
    Delay,      \* namespaceCleanDelay, in ticks
    MaxEvents,  \* bound: events of the environment in one behaviour
    Events      \* the kinds of environment events that may happen

(* "slow": the delay may pass while deletions and events are under way.     *)
EventKinds == {"assign", "unassign", "edit", "upstream", "error", "restart", "slow"}

ASSUME Constants ==
    /\ Objects # {}
    /\ Delay \in Nat \ {0}
    /\ MaxEvents \in Nat
    /\ Events \subseteq EventKinds

VARIABLES
    view,       \* [o]: the object in the syncer's view of the workspace
    viewSeen,   \* ... in the upstream informer cache
    upstreamNs, \* the upstream namespace is in the upstream informer cache
    down,       \* [o]: the object on the physical cluster
    downWatch,  \* [o]: its creations and removals on their way to the cache
    downSeen,   \* the objects in the downstream informer cache
    dns,        \* the downstream namespace
    dnsWatch, dnsSeen,
    queue,      \* the objects queued in the spec syncer
    step, copy, \* [o]: the request its worker is at, the view it has read
    planned,    \* toDeleteMap has the namespace
    left,       \* ticks until the time it is planned for, 0: that has passed
    timer,      \* ticks until the delayed queue has the key, 0: no timer
    delayed,    \* the key is in the delayed queue
    deleting,   \* a delayed worker is about to delete the namespace
    nsQueue,    \* the key is in the queue of the DownstreamController
    events

viewVars == <<view, viewSeen, upstreamNs>>
downVars == <<down, downWatch, downSeen>>
dnsVars == <<dns, dnsWatch, dnsSeen>>
workers == <<queue, step, copy>>
plan == <<planned, left, timer>>
cleaner == <<planned, left, timer, delayed, deleting, nsQueue>>
vars == <<view, viewSeen, upstreamNs, down, downWatch, downSeen, dns, dnsWatch,
          dnsSeen, queue, step, copy, planned, left, timer, delayed, deleting,
          nsQueue, events>>

Views == {"none", "assigned", "leaving"}
Lives == {"none", "present", "terminating"}
Steps == {"idle", "orphan", "ensure", "apply", "delete"}

-----------------------------------------------------------------------------
(* shared.Cleaner *)

CancelCleaning == planned' = FALSE /\ left' = 0 /\ UNCHANGED timer

(* The map has the later time and the delayed queue the earlier one:        *)
(* AddAfter never puts off a key that is waiting.                           *)
PlanCleaning ==
    IF ~planned \/ left = 0
    THEN /\ planned' = TRUE /\ left' = Delay
         /\ timer' = IF timer = 0 THEN Delay ELSE timer
    ELSE UNCHANGED plan

-----------------------------------------------------------------------------
(* The spec syncer *)

SetDown(o, s) ==
    /\ down' = [down EXCEPT ![o] = s]
    /\ downWatch' = [downWatch EXCEPT ![o] = Append(@, s)]

SetDns(s) ==
    /\ dns' = s
    /\ dnsWatch' = Append(dnsWatch, s)

Idle(o) == step' = [step EXCEPT ![o] = "idle"]

Done(o) == Idle(o) /\ UNCHANGED <<queue, copy>>

(* An error: the key is queued again.                                       *)
Retry(o) == Idle(o) /\ queue' = queue \cup {o} /\ UNCHANGED copy

(* process reads the upstream cache; whoever needs the namespace first      *)
(* cancels its cleaning, also to delete an object in it.                    *)
Process(o) ==
    /\ o \in queue /\ step[o] = "idle"
    /\ queue' = queue \ {o}
    /\ copy' = [copy EXCEPT ![o] = viewSeen[o]]
    /\ IF viewSeen[o] = "none"
       THEN step' = [step EXCEPT ![o] = "orphan"] /\ UNCHANGED plan
       ELSE step' = [step EXCEPT ![o] = "ensure"] /\ CancelCleaning
    /\ UNCHANGED <<viewVars, downVars, dnsVars, delayed, deleting, nsQueue, events>>

(* Mutant: the cleaning is planned only when there was something to delete. *)
DeleteOrphanOnly(o) ==
    /\ step[o] = "orphan"
    /\ IF down[o] = "present" THEN SetDown(o, "terminating") /\ PlanCleaning
       ELSE UNCHANGED <<down, downWatch, plan>>
    /\ Done(o)
    /\ UNCHANGED <<viewVars, downSeen, dnsVars, delayed, deleting, nsQueue, events>>

(* Deleted upstream: deleted downstream, found or not.                      *)
DeleteOrphan(o) ==
    /\ step[o] = "orphan"
    /\ IF down[o] = "present" THEN SetDown(o, "terminating")
       ELSE UNCHANGED <<down, downWatch>>
    /\ PlanCleaning
    /\ Done(o)
    /\ UNCHANGED <<viewVars, downSeen, dnsVars, delayed, deleting, nsQueue, events>>

(* The namespace is created when the cache does not have it; one that is    *)
(* there already, terminating or not, is accepted.                          *)
EnsureDownstreamNamespaceExists(o) ==
    /\ step[o] = "ensure"
    /\ IF dnsSeen = "none" /\ dns = "none" THEN SetDns("present")
       ELSE UNCHANGED <<dns, dnsWatch>>
    /\ step' = [step EXCEPT ![o] = IF copy[o] = "assigned" THEN "apply" ELSE "delete"]
    /\ UNCHANGED <<viewVars, downVars, dnsSeen, queue, copy, cleaner, events>>

(* Nothing can be created in a namespace that is terminating or gone.       *)
ApplyToDownstream(o) ==
    /\ step[o] = "apply"
    /\ IF down[o] = "none" /\ dns = "present" THEN SetDown(o, "present")
       ELSE UNCHANGED <<down, downWatch>>
    /\ IF down[o] = "none" /\ dns # "present" THEN Retry(o) ELSE Done(o)
    /\ UNCHANGED <<viewVars, downSeen, dnsVars, cleaner, events>>

(* The cache is read again: an object that is not to be removed any more is *)
(* let be, and an update of one that has changed since fails.               *)
EnsureUpstreamFinalizerRemoved(o) ==
    IF viewSeen[o] # "leaving" THEN Done(o) /\ UNCHANGED view
    ELSE IF view[o] = "leaving" THEN Done(o) /\ view' = [view EXCEPT ![o] = "none"]
    ELSE Retry(o) /\ UNCHANGED view

(* Intended to be removed: deleted, and once it is not found any more       *)
(* released upstream, which takes it out of the view.                       *)
DeleteFromDownstream(o) ==
    /\ step[o] = "delete"
    /\ \/ down[o] = "none" /\ EnsureUpstreamFinalizerRemoved(o) /\ UNCHANGED <<down, downWatch, plan>>
       \/ /\ down[o] # "none" /\ PlanCleaning /\ Done(o) /\ UNCHANGED view
          /\ IF down[o] = "present" THEN SetDown(o, "terminating")
             ELSE UNCHANGED <<down, downWatch>>
    /\ UNCHANGED <<viewSeen, upstreamNs, downSeen, dnsVars, delayed, deleting, nsQueue, events>>

-----------------------------------------------------------------------------
(* The DownstreamController *)

(* A namespace that was added or deleted: its cleaning is planned when the  *)
(* upstream namespace is gone, and cancelled otherwise.                     *)
ProcessNamespace ==
    /\ nsQueue
    /\ nsQueue' = FALSE
    /\ IF dnsSeen # "present" THEN UNCHANGED plan
       ELSE IF upstreamNs THEN CancelCleaning ELSE PlanCleaning
    /\ UNCHANGED <<viewVars, downVars, dnsVars, workers, delayed, deleting, events>>

(* Mutant: the namespace is not looked into.                                *)
CheckPlanOnly ==
    /\ delayed /\ ~deleting
    /\ delayed' = FALSE
    /\ deleting' = planned
    /\ UNCHANGED <<viewVars, downVars, dnsVars, workers, plan, nsQueue, events>>

(* processDelayed, up to the request: still planned, and empty in the       *)
(* caches; if it is not, it stays planned.                                  *)
ProcessDelayed ==
    /\ delayed /\ ~deleting
    /\ delayed' = FALSE
    /\ deleting' = (planned /\ downSeen = {})
    /\ UNCHANGED <<viewVars, downVars, dnsVars, workers, plan, nsQueue, events>>

DeleteDownstreamNamespace ==
    /\ deleting
    /\ deleting' = FALSE
    /\ IF dns = "present" THEN SetDns("terminating") ELSE UNCHANGED <<dns, dnsWatch>>
    /\ CancelCleaning
    /\ UNCHANGED <<viewVars, downVars, dnsSeen, workers, delayed, nsQueue, events>>

-----------------------------------------------------------------------------
(* Informers *)

DeliverView(o) ==
    /\ viewSeen[o] # view[o]
    /\ viewSeen' = [viewSeen EXCEPT ![o] = view[o]]
    /\ queue' = queue \cup {o}
    /\ UNCHANGED <<view, upstreamNs, downVars, dnsVars, step, copy, cleaner, events>>

(* The deletion handler of the spec syncer, lost if the namespace is not in *)
(* its cache any more.                                                      *)
ObjectDeleted(o) ==
    IF dnsSeen # "none" THEN queue' = queue \cup {o} /\ PlanCleaning
    ELSE UNCHANGED <<queue, plan>>

DeliverObject(o) ==
    /\ downWatch[o] # <<>>
    /\ downWatch' = [downWatch EXCEPT ![o] = Tail(@)]
    /\ IF Head(downWatch[o]) = "none"
       THEN downSeen' = downSeen \ {o} /\ ObjectDeleted(o)
       ELSE downSeen' = downSeen \cup {o} /\ UNCHANGED <<queue, plan>>
    /\ UNCHANGED <<viewVars, down, dnsVars, step, copy, delayed, deleting, nsQueue, events>>

(* Only AddFunc and DeleteFunc: no update and no resync is handled.         *)
DeliverNamespace ==
    /\ dnsWatch # <<>>
    /\ dnsWatch' = Tail(dnsWatch)
    /\ dnsSeen' = Head(dnsWatch)
    /\ nsQueue' = (nsQueue \/ dnsSeen = "none" \/ dnsSeen' = "none")
    /\ UNCHANGED <<viewVars, downVars, dns, workers, planned, left, timer,
                   delayed, deleting, events>>

-----------------------------------------------------------------------------
(* The physical cluster *)

(* An object goes when its finalizers are gone.                             *)
ObjectGoes(o) ==
    /\ down[o] = "terminating"
    /\ SetDown(o, "none")
    /\ UNCHANGED <<viewVars, downSeen, dnsVars, workers, cleaner, events>>

(* A namespace in deletion deletes what it has, and goes after it.          *)
NamespaceEmpties(o) ==
    /\ dns = "terminating"
    /\ down[o] = "present"
    /\ SetDown(o, "terminating")
    /\ UNCHANGED <<viewVars, downSeen, dnsVars, workers, cleaner, events>>

NamespaceGoes ==
    /\ dns = "terminating"
    /\ \A o \in Objects : down[o] = "none"
    /\ SetDns("none")
    /\ UNCHANGED <<viewVars, downVars, dnsSeen, workers, cleaner, events>>

(* Nothing is under way: what a prompt cluster and prompt workers reach     *)
(* before the delay has passed.                                             *)
Settled ==
    /\ \A o \in Objects : /\ viewSeen[o] = view[o] /\ downWatch[o] = <<>>
                          /\ down[o] # "terminating" /\ step[o] = "idle"
    /\ queue = {} /\ dnsWatch = <<>> /\ dns # "terminating"
    /\ ~delayed /\ ~deleting /\ ~nsQueue

Tick ==
    /\ left > 0 \/ timer > 0
    /\ "slow" \in Events \/ Settled
    /\ left' = IF left > 0 THEN left - 1 ELSE 0
    /\ timer' = IF timer > 0 THEN timer - 1 ELSE 0
    /\ delayed' = (delayed \/ timer = 1)
    /\ UNCHANGED <<viewVars, downVars, dnsVars, workers, planned, deleting, nsQueue, events>>

-----------------------------------------------------------------------------
(* The environment *)

Event(kind) ==
    /\ kind \in Events
    /\ events < MaxEvents
    /\ events' = events + 1

Assign(o) ==
    /\ Event("assign")
    /\ view[o] = "none"
    /\ view' = [view EXCEPT ![o] = "assigned"]
    /\ UNCHANGED <<viewSeen, upstreamNs, downVars, dnsVars, workers, cleaner>>

Unassign(o) ==
    /\ Event("unassign")
    /\ view[o] = "assigned"
    /\ view' = [view EXCEPT ![o] = "leaving"]
    /\ UNCHANGED <<viewSeen, upstreamNs, downVars, dnsVars, workers, cleaner>>

(* An update of the object reaches the spec syncer.                         *)
Edit(o) ==
    /\ Event("edit")
    /\ viewSeen[o] # "none"
    /\ queue' = queue \cup {o}
    /\ UNCHANGED <<viewVars, downVars, dnsVars, step, copy, cleaner>>

(* The namespace is taken off this sync target; no handler of the           *)
(* DownstreamController sees it.                                            *)
UpstreamNamespaceGoes ==
    /\ Event("upstream")
    /\ upstreamNs /\ upstreamNs' = FALSE
    /\ UNCHANGED <<view, viewSeen, downVars, dnsVars, workers, cleaner>>

(* The request fails: the key is back in the delayed queue, still planned.  *)
DeletionFails ==
    /\ Event("error")
    /\ deleting /\ deleting' = FALSE
    /\ delayed' = TRUE
    /\ UNCHANGED <<viewVars, downVars, dnsVars, workers, plan, nsQueue>>

(* The caches are filled anew, which adds every object and the namespace;   *)
(* the map and the queues are empty.                                        *)
Restart ==
    /\ Event("restart")
    /\ viewSeen' = view
    /\ downSeen' = {o \in Objects : down[o] # "none"}
    /\ downWatch' = [o \in Objects |-> <<>>]
    /\ dnsSeen' = dns /\ dnsWatch' = <<>>
    /\ queue' = {o \in Objects : view[o] # "none"}
    /\ step' = [o \in Objects |-> "idle"]
    /\ planned' = FALSE /\ left' = 0 /\ timer' = 0
    /\ delayed' = FALSE /\ deleting' = FALSE
    /\ nsQueue' = (dns # "none")
    /\ UNCHANGED <<view, upstreamNs, down, dns, copy>>

Init ==
    /\ view \in [Objects -> {"none", "assigned"}] /\ viewSeen = view
    /\ upstreamNs = TRUE
    /\ down = [o \in Objects |-> "none"]
    /\ downWatch = [o \in Objects |-> <<>>]
    /\ downSeen = {}
    /\ dns = "none" /\ dnsWatch = <<>> /\ dnsSeen = "none"
    /\ queue = {o \in Objects : view[o] # "none"}
    /\ step = [o \in Objects |-> "idle"] /\ copy = view
    /\ planned = FALSE /\ left = 0 /\ timer = 0
    /\ delayed = FALSE /\ deleting = FALSE /\ nsQueue = FALSE
    /\ events = 0

SpecSyncer(o) ==
    \/ Process(o) \/ DeleteOrphan(o) \/ EnsureDownstreamNamespaceExists(o)
    \/ ApplyToDownstream(o) \/ DeleteFromDownstream(o)

DelayedWorker == ProcessDelayed \/ DeleteDownstreamNamespace

Cluster == NamespaceGoes \/ \E o \in Objects : ObjectGoes(o) \/ NamespaceEmpties(o)

Environment ==
    \/ \E o \in Objects : Assign(o) \/ Unassign(o) \/ Edit(o)
    \/ UpstreamNamespaceGoes \/ DeletionFails \/ Restart

Next ==
    \/ \E o \in Objects : SpecSyncer(o) \/ DeliverView(o) \/ DeliverObject(o)
    \/ ProcessNamespace \/ DelayedWorker \/ DeliverNamespace
    \/ Cluster \/ Tick \/ Environment

Spec == Init /\ [][Next]_vars

(* Workers and informers loop for ever, the cluster completes deletions and *)
(* time passes.                                                             *)
Fairness ==
    /\ \A o \in Objects : /\ WF_vars(SpecSyncer(o))
                          /\ WF_vars(DeliverView(o))
                          /\ WF_vars(DeliverObject(o))
    /\ WF_vars(ProcessNamespace) /\ WF_vars(DelayedWorker)
    /\ WF_vars(DeliverNamespace) /\ WF_vars(Cluster) /\ WF_vars(Tick)

FairSpec == Spec /\ Fairness

-----------------------------------------------------------------------------
(* Properties *)

(* Every variable has its type, and a plan that is cancelled has no time.   *)
TypeOK ==
    /\ view \in [Objects -> Views] /\ viewSeen \in [Objects -> Views]
    /\ upstreamNs \in BOOLEAN
    /\ down \in [Objects -> Lives] /\ downWatch \in [Objects -> Seq(Lives)]
    /\ downSeen \subseteq Objects
    /\ dns \in Lives /\ dnsWatch \in Seq(Lives) /\ dnsSeen \in Lives
    /\ queue \subseteq Objects
    /\ step \in [Objects -> Steps] /\ copy \in [Objects -> Views]
    /\ planned \in BOOLEAN /\ left \in 0 .. Delay /\ timer \in 0 .. Delay
    /\ delayed \in BOOLEAN /\ deleting \in BOOLEAN /\ nsQueue \in BOOLEAN
    /\ events \in Nat

(* When nothing is left to do, a namespace that is gone upstream and that   *)
(* no object is assigned to is gone downstream: some plan for it was always *)
(* followed by a look that found it empty.                                  *)
EmptyIsCleaned ==
    Settled /\ timer = 0 /\ ~upstreamNs /\ (\A o \in Objects : view[o] = "none")
        => dns = "none"

-----------------------------------------------------------------------------
(* Why EmptyIsCleaned holds on a prompt cluster, for a namespace that is    *)
(* gone upstream throughout: whoever cancels a cleaning plans it again      *)
(* before the clock moves.                                                  *)

(* No slow cluster, and nobody who takes the namespace away upstream.       *)
Prompt == {"upstream", "slow"} \cap Events = {}

(* The events on their way end with the present state ...                   *)
ObjectsCatchUp ==
    \A o \in Objects :
        IF downWatch[o] = <<>> THEN o \in downSeen <=> down[o] # "none"
        ELSE downWatch[o][Len(downWatch[o])] = down[o]

(* ... and a namespace is made when there is none: no addition is missed.   *)
NamespaceCatchesUp ==
    /\ dns = IF dnsWatch = <<>> THEN dnsSeen ELSE dnsWatch[Len(dnsWatch)]
    /\ \A i \in 1 .. Len(dnsWatch) :
          dnsWatch[i] = "present" => IF i = 1 THEN dnsSeen = "none" ELSE dnsWatch[i - 1] = "none"

(* What the syncer released is not on the cluster, and nobody puts it back; *)
(* a worker that does not know of it yet will have to look again.           *)
ReleasedIsGone ==
    \A o \in Objects :
        /\ view[o] = "none" => /\ down[o] = "none" /\ viewSeen[o] # "assigned" /\ step[o] # "apply"
                                /\ ~(step[o] = "ensure" /\ copy[o] = "assigned")
        /\ step[o] = "apply" => copy[o] = "assigned"
        /\ step[o] \in {"ensure", "apply", "delete"} /\ viewSeen[o] = "none" => o \in queue

(* The worker of o has cancelled the cleaning and will plan it again if     *)
(* there is nothing left of o in the workspace.                             *)
Owes(o) ==
    \/ step[o] \in {"ensure", "apply", "delete"}
    \/ /\ view[o] = "none"
       /\ viewSeen[o] # "none" \/ o \in queue \/ step[o] = "orphan" \/ downWatch[o] # <<>>

NamespaceIsChanging == dnsWatch # <<>> \/ dns = "terminating" \/ nsQueue

(* A plan that was made since then has its time still to come.              *)
PlansAreNew == planned /\ (NamespaceIsChanging \/ \E o \in Objects : Owes(o)) => timer > 0

(* A namespace without objects will be looked at.                           *)
CleaningIsComing ==
    dns = "present" /\ (\A o \in Objects : view[o] = "none" /\ ~Owes(o)) =>
        \/ NamespaceIsChanging
        \/ planned /\ (timer > 0 \/ delayed \/ deleting)

CleanerIInv ==
    TypeOK /\ ObjectsCatchUp /\ NamespaceCatchesUp /\ ReleasedIsGone /\ PlansAreNew /\ CleaningIsComing

-----------------------------------------------------------------------------
(* The namespace is not deleted with an object in it that is to stay.       *)
AssignedAreKept ==
    dns = "present" /\ dns' = "terminating" =>
        \A o \in Objects : ~(view[o] = "assigned" /\ down[o] = "present")

(* Why that is so as long as no object comes back: those that are assigned  *)
(* are about to be applied or they are there, and they have been seen there *)
(* when a delayed worker looks.                                             *)
IsKept(o) ==
    /\ viewSeen[o] = "assigned" /\ step[o] \notin {"orphan", "delete"}
    /\ step[o] # "idle" => copy[o] = "assigned"
    /\ IF down[o] = "none" THEN o \in queue \/ step[o] # "idle"
       ELSE down[o] = "present" /\ dns = "present"
    /\ delayed \/ "slow" \in Events => down[o] = "present" /\ downWatch[o] = <<>>
    /\ ~deleting

KeptTypeOK ==
    /\ view \in [Objects -> Views] /\ viewSeen \in [Objects -> Views] /\ copy \in [Objects -> Views]
    /\ down \in [Objects -> Lives] /\ downWatch \in [Objects -> Seq(Lives)]
    /\ step \in [Objects -> Steps]

KeptIInv ==
    KeptTypeOK /\ ObjectsCatchUp /\ \A o \in Objects : view[o] = "assigned" => IsKept(o)

-----------------------------------------------------------------------------
(* An object that stays assigned is on the cluster in the end, though its   *)
(* namespace may have been deleted under it.                                *)
WantedArrives ==
    \A o \in Objects : <>[](view[o] = "assigned") => <>[](down[o] = "present")
=============================================================================
