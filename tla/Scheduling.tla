----------------------------- MODULE Scheduling -----------------------------
(***************************************************************************)
(* How a namespace of a workspace gets its sync targets.                   *)
(*                                                                         *)
(* Three controllers of the TMC server work on it, each with a queue of    *)
(* its own, all with the same informer caches:                             *)
(*   - scheduling/placement selects a location for every Placement and     *)
(*     keeps its phase;                                                    *)
(*   - workload/placement selects one sync target of that location and     *)
(*     writes it into an annotation of the Placement;                      *)
(*   - workload/namespace binds the namespace, labels it with the sync     *)
(*     targets of its placements, and takes a label away after a grace     *)
(*     period.                                                             *)
(*                                                                         *)
(* A commit carries the resourceVersion of the cached object it started    *)
(* from and fails if there is a later one; the annotation is patched       *)
(* without.  A failed commit queues the key again.  Between its reads and   *)
(* its write a reconciler runs as one step: an event delivered in between  *)
(* queues the key again just as one delivered after it.                    *)
(***************************************************************************)
EXTENDS Naturals, Sequences

CONSTANTS
    Placements, Locations, Targets,
    Members,    \* [Locations -> SUBSET Targets]: the instance selectors
    NoLocation, NoTarget,
    Grace,      \* removingGracePeriod, in ticks
    Second,     \* ticks in a second, the resolution of a timestamp
    MaxLag,     \* bound: versions of a Placement on their way to the cache
    MaxEvents,  \* bound: events of the environment in one behaviour
    Events      \* the kinds of environment events that may happen

EventKinds == {"location", "target", "evict", "relabel", "resync"}

ASSUME Constants ==
    /\ Members \in [Locations -> SUBSET Targets]
    /\ NoLocation \notin Locations /\ NoTarget \notin Targets
    /\ Grace \in Nat /\ Second \in Nat \ {0} /\ MaxEvents \in Nat
    /\ MaxLag \in Nat \ {0}
    /\ Events \subseteq EventKinds

VARIABLES
    loc,        \* [l]: "match" (the placements select it), "other", "gone"
    locSeen,    \* ... in the informer cache
    ready,      \* targets that are ready, schedulable and API compatible
    readySeen,
    evicted,    \* targets whose EvictAfter has passed
    placement,  \* [p]: the Placement
    placeWatch, \* [p]: its versions on their way to the cache
    placeSeen,  \* [p]: the Placement in the informer cache
    ns,         \* the namespace
    nsWatch, nsSeen,
    age,        \* [t]: ticks since the deletion timestamp of t on the namespace
    timer,      \* ticks until the namespace is queued again, 0: no timer
    schedQueue, workQueue,  \* the placements queued in the two controllers
    nsQueue,    \* the namespace is queued
    events

envVars == <<loc, ready, evicted>>
seenVars == <<locSeen, readySeen, placeSeen, nsSeen>>
placeVars == <<placement, placeWatch>>
nsVars == <<ns, nsWatch, age>>
queues == <<schedQueue, workQueue, nsQueue, timer>>
vars == <<loc, locSeen, ready, readySeen, evicted, placement, placeWatch,
          placeSeen, ns, nsWatch, nsSeen, age, timer, schedQueue, workQueue,
          nsQueue, events>>

-----------------------------------------------------------------------------
Conditions == {"Unknown", "True", "False"}
LocationStates == {"match", "other", "gone"}

PlacementObjects ==
    [phase : {"", "Pending", "Unbound", "Bound"}, loc : Locations \cup {NoLocation},
     ready : Conditions, target : Targets \cup {NoTarget}, sched : Conditions]

(* bound: has the placement annotation.  selects: the placements whose      *)
(* namespace selector matches its labels.                                   *)
Namespaces ==
    [bound : BOOLEAN, selects : SUBSET Placements, label : SUBSET Targets,
     del : SUBSET Targets, scheduled : Conditions]

WritePlacement(p, q) ==
    /\ placement' = [placement EXCEPT ![p] = q]
    /\ placeWatch' = [placeWatch EXCEPT ![p] = Append(@, q)]

(* The commit of a new status q of p that was computed from the cache.      *)
CommitPlacement(p, q) ==
    IF placeWatch[p] = <<>> /\ q # placeSeen[p] THEN WritePlacement(p, q)
    ELSE UNCHANGED placeVars

Conflict(p, q) == q # placeSeen[p] /\ placeWatch[p] # <<>>

-----------------------------------------------------------------------------
(* scheduling/placement *)

ValidLocationNames == {l \in Locations : locSeen[l] = "match"}

(* The location is selected anew only while no namespace is bound.          *)
SelectLocation(q) ==
    LET valid == ValidLocationNames
    IN  CASE q.phase = "Bound" ->
               {[q EXCEPT !.ready = IF q.loc \in valid THEN "True" ELSE "False"]}
          [] q.phase = "Unbound" /\ q.loc \in valid -> {[q EXCEPT !.ready = "True"]}
          [] q.phase # "Bound" /\ valid = {} ->
               {[q EXCEPT !.phase = "Pending", !.loc = NoLocation, !.ready = "False"]}
          [] OTHER ->
               {[q EXCEPT !.phase = "Unbound", !.loc = l, !.ready = "True"] : l \in valid}

(* Bound iff a namespace that has the annotation is selected.               *)
SetPhase(p, q) ==
    CASE q.phase = "Pending" -> q
      [] q.phase # "Pending" /\ q.loc = NoLocation -> [q EXCEPT !.phase = "Pending"]
      [] OTHER -> [q EXCEPT !.phase = IF nsSeen.bound /\ p \in nsSeen.selects
                                      THEN "Bound" ELSE "Unbound"]

(* The two reconcilers, the location before the namespaces.                 *)
ReconciledPlacement(p) == {SetPhase(p, q) : q \in SelectLocation(placeSeen[p])}

ReconcilePlacement(p) ==
    /\ p \in schedQueue
    /\ \E new \in ReconciledPlacement(p) :
          /\ CommitPlacement(p, new)
          /\ schedQueue' = IF Conflict(p, new) THEN schedQueue ELSE schedQueue \ {p}
    /\ UNCHANGED <<envVars, seenVars, nsVars, workQueue, nsQueue, timer, events>>

-----------------------------------------------------------------------------
(* workload/placement *)

(* FilterReady, FilterNonEvicting and filterAPICompatible of the location's *)
(* targets; the clock is read, not cached.                                  *)
ValidSyncTargets(q) ==
    IF q.phase = "Pending" \/ q.loc = NoLocation THEN {}
    ELSE IF locSeen[q.loc] = "gone" THEN {}
    ELSE (Members[q.loc] \cap readySeen) \ evicted

(* The patch of the annotation: no resourceVersion, and no event if nothing *)
(* changes.                                                                 *)
PatchPlacement(p, t) ==
    IF placement[p].target # t THEN WritePlacement(p, [placement[p] EXCEPT !.target = t])
    ELSE UNCHANGED placeVars

(* Mutant: a target that is scheduled is kept even when it is not valid.    *)
KeepAnyTarget(p) ==
    LET q == placeSeen[p]
        new == [q EXCEPT !.sched = "True"]
    IN  /\ q.target # NoTarget
        /\ CommitPlacement(p, new)
        /\ workQueue' = IF Conflict(p, new) THEN workQueue ELSE workQueue \ {p}

KeepTarget(p) ==
    LET q == placeSeen[p]
        new == [q EXCEPT !.sched = "True"]
    IN  /\ q.target \in ValidSyncTargets(q)
        /\ CommitPlacement(p, new)
        /\ workQueue' = IF Conflict(p, new) THEN workQueue ELSE workQueue \ {p}

(* No valid target: the annotation goes; the condition follows next time.   *)
DropTarget(p) ==
    LET q == placeSeen[p]
        new == [q EXCEPT !.sched = "False"]
    IN  /\ ValidSyncTargets(q) = {}
        /\ IF q.target # NoTarget
           THEN PatchPlacement(p, NoTarget) /\ workQueue' = workQueue \ {p}
           ELSE /\ CommitPlacement(p, new)
                /\ workQueue' = IF Conflict(p, new) THEN workQueue ELSE workQueue \ {p}

(* One of the valid targets, at random, and the key is queued again.        *)
ChooseTarget(p) ==
    LET q == placeSeen[p]
    IN  /\ q.target \notin ValidSyncTargets(q)
        /\ Len(placeWatch[p]) < MaxLag
        /\ \E t \in ValidSyncTargets(q) : PatchPlacement(p, t)
        /\ UNCHANGED workQueue

(* The only reconciler of the controller; one that has chosen asks to be    *)
(* called again.                                                            *)
ReconcileTarget(p) == KeepTarget(p) \/ DropTarget(p) \/ ChooseTarget(p)

ReconcileSyncTarget(p) ==
    /\ p \in workQueue
    /\ ReconcileTarget(p)
    /\ UNCHANGED <<envVars, seenVars, nsVars, schedQueue, nsQueue, timer, events>>

-----------------------------------------------------------------------------
(* workload/namespace *)

FilterValidPlacements(n) ==
    {p \in n.selects : placeSeen[p].phase # "Pending" /\ placeSeen[p].ready # "False"}

ReconcilePlacementBind(n) == [n EXCEPT !.bound = FilterValidPlacements(n) # {}]

ScheduledSyncTargets(n) ==
    IF n.bound THEN {placeSeen[p].target : p \in FilterValidPlacements(n)} \ {NoTarget}
    ELSE {}

Active(n) == n.label \ n.del
PendingRemoval(n) == n.label \cap n.del
Expired(n) == {t \in PendingRemoval(n) : age[t] > Grace}

(* Mutant: a target that is to leave loses its label at once.               *)
ReconcileWithoutGrace(n) ==
    [n EXCEPT !.label = ScheduledSyncTargets(n), !.del = {}]

(* Mutant: a target that is no longer scheduled is not marked.              *)
ReconcileAdditions(n) ==
    [n EXCEPT !.label = (@ \ Expired(n)) \cup (ScheduledSyncTargets(n) \ n.label),
              !.del = @ \ Expired(n)]

(* Mutant: the deletion timestamp stays when the label goes.                *)
ReconcileLeavesTimestamp(n) ==
    LET scheduled == ScheduledSyncTargets(n)
    IN  [n EXCEPT !.label = (@ \ Expired(n)) \cup (scheduled \ n.label),
                  !.del = @ \cup (Active(n) \ scheduled)]

(* Mark the targets that are to leave, drop the ones whose grace period is  *)
(* over, add the new ones.                                                  *)
ReconcileScheduling(n) ==
    LET scheduled == ScheduledSyncTargets(n)
    IN  [n EXCEPT !.label = (@ \ Expired(n)) \cup (scheduled \ n.label),
                  !.del = (@ \cup (Active(n) \ scheduled)) \ Expired(n)]

ReconcileStatus(n) ==
    [n EXCEPT !.scheduled = IF n.bound /\ Active(n) # {} THEN "True" ELSE "False"]

(* Mutant: no reconciler stops the chain.                                   *)
ReconciledThroughout(n) ==
    ReconcileStatus(ReconcileScheduling(ReconcilePlacementBind(n)))

(* The chain stops at the first reconciler that changes the metadata.       *)
ReconciledNamespace(n) ==
    CASE ReconcilePlacementBind(n) # n -> ReconcilePlacementBind(n)
      [] ReconcilePlacementBind(n) = n /\ ReconcileScheduling(n) # n -> ReconcileScheduling(n)
      [] OTHER -> ReconcileStatus(n)

(* AddAfter keeps the earlier of two times; 0 is no timer.                  *)
Earlier(a, b) == IF a = 0 \/ b < a THEN b ELSE a

(* The time until the first grace period is over, when nothing stopped the  *)
(* chain; a time of 0 is ignored.  The queue's clock starts later than the  *)
(* reading the duration comes from, so that the worker finds the period     *)
(* over: one tick more.                                                     *)
RequeueAfter(n) ==
    LET waits == {Grace - age[t] : t \in PendingRemoval(n) \ Expired(n)}
        stop == ReconcilePlacementBind(n) # n \/ ReconcileScheduling(n) # n
    IN  IF stop \/ waits = {} \/ 0 \in waits THEN timer
        ELSE Earlier(timer, 1 + CHOOSE w \in waits : \A v \in waits : w <= v)

(* A deletion timestamp is the time of the mark, cut to seconds.            *)
Mark(old, new) ==
    \E k \in 0 .. Second - 1 :
        age' = [t \in Targets |-> IF t \in new.del \ old.del THEN k ELSE age[t]]

WriteNamespace(n) ==
    /\ ns' = n
    /\ nsWatch' = Append(nsWatch, n)
    /\ Mark(ns, n)

ReconcileNamespace ==
    /\ nsQueue
    /\ LET new == ReconciledNamespace(nsSeen)
       IN  IF new = nsSeen THEN nsQueue' = FALSE /\ UNCHANGED nsVars
           ELSE IF nsWatch = <<>> THEN WriteNamespace(new) /\ nsQueue' = FALSE
           ELSE UNCHANGED <<nsVars, nsQueue>>
    /\ timer' = RequeueAfter(nsSeen)
    /\ UNCHANGED <<envVars, seenVars, placeVars, schedQueue, workQueue, events>>

-----------------------------------------------------------------------------
(* Informers *)

DeliverPlacement(p) ==
    /\ placeWatch[p] # <<>>
    /\ placeSeen' = [placeSeen EXCEPT ![p] = Head(placeWatch[p])]
    /\ placeWatch' = [placeWatch EXCEPT ![p] = Tail(@)]
    /\ schedQueue' = schedQueue \cup {p}
    /\ workQueue' = workQueue \cup {p}
    /\ nsQueue' = TRUE
    /\ UNCHANGED <<envVars, locSeen, readySeen, nsSeen, placement, nsVars, timer, events>>

(* Mutant: the placement annotation is left out of the comparison.          *)
SameTimestamps(old, new) == old.del = new.del

SameAnnotations(old, new) == old.bound = new.bound /\ old.del = new.del

(* The placements are queued only when the namespace's annotations changed. *)
DeliverNamespace ==
    /\ nsWatch # <<>>
    /\ nsSeen' = Head(nsWatch)
    /\ nsWatch' = Tail(nsWatch)
    /\ schedQueue' = IF SameAnnotations(nsSeen, Head(nsWatch)) THEN schedQueue
                     ELSE schedQueue \cup Placements
    /\ nsQueue' = TRUE
    /\ UNCHANGED <<envVars, locSeen, readySeen, placeSeen, placeVars, ns, age,
                   workQueue, timer, events>>

(* The index of placements by the path of their selected location.          *)
Selecting == {p \in Placements : placeSeen[p].loc # NoLocation}

(* All placements refer to the workspace of the locations.                  *)
Referring == Placements

DeliverLocation(l) ==
    /\ locSeen[l] # loc[l]
    /\ locSeen' = [locSeen EXCEPT ![l] = loc[l]]
    /\ schedQueue' = schedQueue \cup Referring
    /\ workQueue' = workQueue \cup Selecting
    /\ UNCHANGED <<envVars, readySeen, placeSeen, nsSeen, placeVars, nsVars,
                   nsQueue, timer, events>>

(* Through the locations of its workspace.                                  *)
DeliverTarget ==
    /\ readySeen # ready
    /\ readySeen' = ready
    /\ workQueue' = IF \E l \in Locations : locSeen[l] # "gone"
                    THEN workQueue \cup Selecting ELSE workQueue
    /\ UNCHANGED <<envVars, locSeen, placeSeen, nsSeen, placeVars, nsVars,
                   schedQueue, nsQueue, timer, events>>

(* The informers hand every cached object to their handlers again; only     *)
(* those of placements and of the namespace controller do not compare.      *)
Resync ==
    /\ "resync" \in Events
    /\ schedQueue' = Placements /\ workQueue' = Placements /\ nsQueue' = TRUE
    /\ UNCHANGED <<envVars, seenVars, placeVars, nsVars, timer, events>>

-----------------------------------------------------------------------------
(* The clock and the environment *)

Tick ==
    /\ timer > 0 \/ \E t \in ns.del : age[t] <= Grace
    /\ age' = [t \in Targets |-> IF t \in ns.del /\ age[t] <= Grace THEN age[t] + 1 ELSE age[t]]
    /\ timer' = IF timer > 0 THEN timer - 1 ELSE 0
    /\ nsQueue' = (nsQueue \/ timer = 1)
    /\ UNCHANGED <<envVars, seenVars, placeVars, ns, nsWatch, schedQueue, workQueue, events>>

Event(kind) ==
    /\ kind \in Events
    /\ events < MaxEvents
    /\ events' = events + 1

LocationChanges(l, s) ==
    /\ Event("location")
    /\ loc[l] # s
    /\ loc' = [loc EXCEPT ![l] = s]
    /\ UNCHANGED <<ready, evicted, seenVars, placeVars, nsVars, queues>>

(* The heartbeat, SyncTarget and export controllers, or an operator.        *)
TargetChanges(t) ==
    /\ Event("target")
    /\ ready' = IF t \in ready THEN ready \ {t} ELSE ready \cup {t}
    /\ UNCHANGED <<loc, evicted, seenVars, placeVars, nsVars, queues>>

(* EvictAfter passes: no object changes.                                    *)
EvictionDue(t) ==
    /\ Event("evict")
    /\ t \notin evicted
    /\ evicted' = evicted \cup {t}
    /\ UNCHANGED <<loc, ready, seenVars, placeVars, nsVars, queues>>

(* The labels of the namespace change.                                      *)
NamespaceRelabelled(s) ==
    /\ Event("relabel")
    /\ s # ns.selects
    /\ WriteNamespace([ns EXCEPT !.selects = s])
    /\ UNCHANGED <<envVars, seenVars, placeVars, queues>>

-----------------------------------------------------------------------------
(* A Placement as created.  The default phase fills in only a status that   *)
(* is there.                                                                *)
Fresh(phase) == [phase |-> phase, loc |-> NoLocation, ready |-> "Unknown",
                 target |-> NoTarget, sched |-> "Unknown"]

(* The controllers come up; how many events the environment has had is not    *)
(* said.                                                                       *)
Start ==
    /\ loc = [l \in Locations |-> "match"] /\ locSeen = loc
    /\ ready = Targets /\ readySeen = ready
    /\ evicted = {}
    /\ placement \in [Placements -> {Fresh("Pending"), Fresh("")}]
    /\ placeSeen = placement
    /\ placeWatch = [p \in Placements |-> <<>>]
    /\ ns = [bound |-> FALSE, selects |-> Placements, label |-> {}, del |-> {},
             scheduled |-> "Unknown"]
    /\ nsSeen = ns /\ nsWatch = <<>>
    /\ age = [t \in Targets |-> 0]
    /\ timer = 0
    /\ schedQueue = Placements /\ workQueue = Placements /\ nsQueue = TRUE

Init == Start /\ events = 0

Controllers ==
    \/ \E p \in Placements : ReconcilePlacement(p) \/ ReconcileSyncTarget(p)
    \/ ReconcileNamespace

Informers ==
    \/ \E p \in Placements : DeliverPlacement(p)
    \/ DeliverNamespace
    \/ \E l \in Locations : DeliverLocation(l)
    \/ DeliverTarget
    \/ Resync

Environment ==
    \/ \E l \in Locations, s \in LocationStates : LocationChanges(l, s)
    \/ \E t \in Targets : TargetChanges(t) \/ EvictionDue(t)
    \/ \E s \in SUBSET Placements : NamespaceRelabelled(s)

Next == Controllers \/ Informers \/ Tick \/ Environment

Spec == Init /\ [][Next]_vars

(* Controllers and informers are goroutines that loop for ever, informers   *)
(* resync every ten hours, and time passes.                                 *)
Fairness ==
    /\ \A p \in Placements : /\ WF_vars(ReconcilePlacement(p))
                             /\ WF_vars(ReconcileSyncTarget(p))
                             /\ WF_vars(DeliverPlacement(p))
    /\ WF_vars(ReconcileNamespace)
    /\ WF_vars(DeliverNamespace)
    /\ \A l \in Locations : WF_vars(DeliverLocation(l))
    /\ WF_vars(DeliverTarget)
    /\ WF_vars(Resync)
    /\ WF_vars(Tick)

FairSpec == Spec /\ Fairness

-----------------------------------------------------------------------------
(* Properties *)

(* Every variable has its type.                                             *)
TypeOK ==
    /\ loc \in [Locations -> LocationStates] /\ locSeen \in [Locations -> LocationStates]
    /\ ready \subseteq Targets /\ readySeen \subseteq Targets /\ evicted \subseteq Targets
    /\ placement \in [Placements -> PlacementObjects]
    /\ placeSeen \in [Placements -> PlacementObjects]
    /\ placeWatch \in [Placements -> Seq(PlacementObjects)]
    /\ ns \in Namespaces /\ nsSeen \in Namespaces /\ nsWatch \in Seq(Namespaces)
    /\ age \in [Targets -> 0 .. Grace + Second]
    /\ timer \in 0 .. Grace + 1
    /\ schedQueue \subseteq Placements /\ workQueue \subseteq Placements
    /\ nsQueue \in BOOLEAN
    /\ events \in Nat

(* Every handler has run.                                                   *)
Quiet ==
    /\ locSeen = loc /\ readySeen = ready
    /\ \A p \in Placements : placeWatch[p] = <<>>
    /\ nsWatch = <<>>
    /\ schedQueue = {} /\ workQueue = {} /\ ~nsQueue /\ timer = 0

(* The placements the namespace takes its targets from.                     *)
Used == {p \in ns.selects : ns.bound /\ placement[p].phase # "Pending"
                                     /\ placement[p].ready # "False"}

ScheduledTo == {placement[p].target : p \in Used} \ {NoTarget}

(* The targets placement p may have.                                        *)
Usable(p) ==
    IF placement[p].loc = NoLocation THEN {}
    ELSE IF loc[placement[p].loc] = "gone" THEN {}
    ELSE Members[placement[p].loc] \cap ready

(* When every handler has run, the namespace is labelled with the targets   *)
(* of its placements, and every other label is leaving: no change of a      *)
(* location, a target, a placement or a label is lost between the caches.   *)
NamespaceFollows ==
    Quiet => /\ ScheduledTo \subseteq ns.label
             /\ Active(ns) \subseteq ScheduledTo
             /\ ns.bound <=> Used # {}

(* ... and every placement has a target of its location if there is one.    *)
PlacementsAreScheduled ==
    Quiet => \A p \in Placements :
                IF placement[p].target = NoTarget THEN Usable(p) \subseteq evicted
                ELSE placement[p].target \in Usable(p)

(* ... and its phase says whether the namespace is bound to it.             *)
PhaseIsRight ==
    Quiet => \A p \in Placements : placement[p].phase # "Pending" =>
                (placement[p].phase = "Bound" <=> ns.bound /\ p \in ns.selects)

(* The committer panics on a change of metadata and status in one iteration *)
(* ("programmer error"); the chain of namespace reconcilers must not make   *)
(* one.                                                                     *)
CommitsAreSplit ==
    [][ns'.scheduled # ns.scheduled =>
          [ns' EXCEPT !.scheduled = ns.scheduled] = ns]_vars

(* A label is not taken away before its grace period is over, though the    *)
(* timestamp is rounded and the copy the removal starts from may be old.    *)
RemovedAfterGrace ==
    [][\A t \in ns.label \ ns'.label : t \in ns.del /\ age[t] > Grace]_vars

(* A namespace that is selected by a placement ends up with a target, if    *)
(* every location that placements may select has a usable one.              *)
NamespaceArrives ==
    <>[](/\ ns.selects # {}
         /\ \E l \in Locations : loc[l] = "match"
         /\ \A l \in Locations : loc[l] = "match" => (Members[l] \cap ready) \ evicted # {})
    => <>[](Active(ns) # {} /\ ns.scheduled = "True")

(* A target that is not ready, or evicting, is emptied.                     *)
UnusableIsLeft ==
    \A t \in Targets : <>[](t \notin ready \/ t \in evicted) => <>[](t \notin ns.label)

(* "The placement will turn back to Unbound state when no namespace uses    *)
(* this placement any more."  The code does not keep this: the README tells *)
(* how.                                                                     *)
UnusedIsUnbound ==
    \A p \in Placements : <>[](p \notin Used) => <>[](placement[p].phase # "Bound")

-----------------------------------------------------------------------------
(* The inductive invariants behind the theorems of Scheduling_proofs *)

(* A placement that is pending has lost its location.                       *)
Coherent == {q \in PlacementObjects : q.phase = "Pending" => q.loc = NoLocation}

(* The cache of placements catches up: it, or the last version on its way,  *)
(* is the placement.                                                        *)
PlacementCacheCatchesUp ==
    \A p \in Placements :
        /\ placement[p] \in Coherent /\ placeSeen[p] \in Coherent /\ placeWatch[p] \in Seq(Coherent)
        /\ placement[p] = IF placeWatch[p] = <<>> THEN placeSeen[p]
                          ELSE placeWatch[p][Len(placeWatch[p])]

(* When the namespace is not queued and none of its versions is on its way, *)
(* it is as the cached placements want it.                                  *)
NamespaceSettled ==
    ~nsQueue /\ nsWatch = <<>> =>
        /\ nsSeen.bound <=> FilterValidPlacements(nsSeen) # {}
        /\ ScheduledSyncTargets(nsSeen) \subseteq nsSeen.label
        /\ Active(nsSeen) \subseteq ScheduledSyncTargets(nsSeen)

(* What a placement may have by the caches.                                 *)
UsableSeen(q) ==
    IF q.loc = NoLocation THEN {}
    ELSE IF locSeen[q.loc] = "gone" THEN {}
    ELSE Members[q.loc] \cap readySeen

(* When a placement is not queued at the workload controller and none of    *)
(* its versions is on its way, its target is as the caches want it.         *)
TargetsSettled ==
    \A p \in Placements \ workQueue :
        placeWatch[p] = <<>> =>
            IF placeSeen[p].target = NoTarget THEN UsableSeen(placeSeen[p]) \subseteq evicted
            ELSE placeSeen[p].target \in UsableSeen(placeSeen[p])

(* The same for the phase and the scheduling controller; it is told of      *)
(* annotations of the namespace only, so nobody may change its labels.      *)
SelectedThroughout ==
    /\ ns.selects = Placements /\ nsSeen.selects = Placements
    /\ \A i \in 1 .. Len(nsWatch) : nsWatch[i].selects = Placements

PhasesSettled ==
    \A p \in Placements \ schedQueue :
        placeWatch[p] = <<>> /\ placeSeen[p].phase # "Pending" =>
            (placeSeen[p].phase = "Bound" <=> nsSeen.bound /\ p \in nsSeen.selects)
=============================================================================
