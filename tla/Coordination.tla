---------------------------- MODULE Coordination ----------------------------
(***************************************************************************)
(* One object on several SyncTargets: what the transformer of the syncer   *)
(* virtual workspace makes of the syncers' writes and reads, and how the   *)
(* coordination controller of deployments divides the replicas and sums    *)
(* the statuses.                                                           *)
(*                                                                         *)
(* On one target the status of the syncer is promoted to the object and an *)
(* annotation says so; on several each syncer has its status in its own    *)
(* annotation.  Targets join and leave, so statuses move back and forth.   *)
(* Writes carry the resourceVersion of the copy that was read: each action *)
(* of a syncer is one write, or one that fails and is tried again.  Status *)
(* stands for the counts of a status, as one number.                       *)
(***************************************************************************)
EXTENDS Integers, FiniteSets, FiniteSetsExt, Functions

CONSTANTS
    Targets,    \* keys of SyncTargets, numbers: the first one takes the rest
    Kinds,      \* kinds of objects: "deployment", "ingress" (has a status), "configmap" (has none)
    Replicas,   \* replicas that a user may ask for
    Counts,     \* statuses that a syncer may report
    None,
    Promoted,   \* in an annotation: the status is in the object
    MaxEvents   \* bound: events of the environment in one behaviour

VARIABLES
    kind,     \* of the object
    up,       \* the object
    seen,     \* the object as the coordination controller knows it
    changed,  \* a syncer view changes with the events on their way there
    toSplit,  \* the object is in the upstream view queue
    toSum,    \* the object is in the syncer view queue
    wrote,    \* [t]: history: the status that the syncer of t wrote last
    rescued,  \* history: the owners that were to leave and were told to stay
    events

vars == <<kind, up, seen, changed, toSplit, toSum, wrote, rescued, events>>

NoView == [found |-> FALSE, status |-> None]

HasStatus == kind # "configmap"

Intents(o) == o.label

-----------------------------------------------------------------------------
(* The transformer *)

(* The promoted value goes with the object, any other one with the annotation. *)
StatusInView(o, t) == IF o.view[t].status = Promoted THEN o.status ELSE o.view[t].status

ToSyncerView(o, t) == IF o.diff[t] = None THEN o.replicas ELSE o.diff[t]

AfterRead(o, t) == [replicas |-> ToSyncerView(o, t), status |-> StatusInView(o, t)]

(* Mutant: a second target joins and the status stays promoted.                *)
StillPromoted(o) == o

(* A second target is about to join: the status of the only owner leaves the   *)
(* object.                                                                     *)
Unpromoted(o) ==
    IF Cardinality(Intents(o)) > 1 /\ Cardinality(o.fin) = 1
    THEN [o EXCEPT !.view = [t \in Targets |->
            IF t \in o.fin /\ @[t].status = Promoted
            THEN [@[t] EXCEPT !.status = o.status] ELSE @[t]]]
    ELSE o

(* Writes of the object itself keep the status of the annotation.              *)
BeforeWrite(o, t) ==
    LET p == Unpromoted(o)
    IN  [p EXCEPT !.view[t] = [found |-> TRUE, status |-> @.status], !.fin = @ \cup {t}]

BeforeWriteStatus(o, t, v) ==
    LET p == Unpromoted(o)
    IN  IF Cardinality(Intents(o)) = 1
        THEN [p EXCEPT !.status = v, !.view[t] = [found |-> TRUE, status |-> Promoted]]
        ELSE [p EXCEPT !.view[t] = [found |-> TRUE, status |-> v]]

(* The targets whose status is promoted when t leaves.                         *)
Remaining(o, t) ==
    {u \in Intents(o) \ {t} : /\ Intents(o) \ {t} = {u} /\ u \in o.fin
                              /\ o.view[u].found /\ o.view[u].status # Promoted}

(* Mutant: the mark is set and the value is not moved.                         *)
MarkRemaining(o, u) == [o EXCEPT !.view[u].status = Promoted]

PromoteRemaining(o, u) == [o EXCEPT !.status = o.view[u].status, !.view[u].status = Promoted]

(* The annotation with the difference of the spec stays.                       *)
RemovedFromSyncer(o, t) ==
    [o EXCEPT !.label = @ \ {t}, !.fin = @ \ {t}, !.del = @ \ {t}, !.view[t] = NoView]

-----------------------------------------------------------------------------
(* The syncers *)

AnySyncerViewChanged(old, new) == old.view # new.view

Write(o) ==
    /\ up' = o /\ changed' = (changed \/ AnySyncerViewChanged(up, o))
    /\ UNCHANGED <<kind, seen, toSplit, toSum>>

TakeOver(t) ==
    /\ t \in up.label \ (up.fin \cup up.del)
    /\ Write(BeforeWrite(up, t))
    /\ UNCHANGED <<wrote, rescued, events>>

WriteStatus(t) ==
    /\ HasStatus /\ t \in up.fin
    /\ \E v \in Counts \ {StatusInView(up, t)} :
         /\ Write(BeforeWriteStatus(up, t, v))
         /\ wrote' = [wrote EXCEPT ![t] = v]
    /\ events < MaxEvents /\ events' = events + 1
    /\ UNCHANGED rescued

(* The status of the remaining target is promoted by a request of its own,     *)
(* before the one that removes t; that one may fail, and then all of it is     *)
(* tried again.                                                                *)
PromoteBeforeRemoval(t) ==
    /\ t \in up.del /\ HasStatus
    /\ \E u \in Remaining(up, t) : Write(PromoteRemaining(up, u))
    /\ UNCHANGED <<wrote, rescued, events>>

Remove(t) ==
    /\ t \in up.del /\ Remaining(up, t) = {}
    /\ Write(RemovedFromSyncer(up, t))
    /\ wrote' = [wrote EXCEPT ![t] = None] /\ rescued' = rescued \ {t}
    /\ UNCHANGED events

-----------------------------------------------------------------------------
(* The coordination controller of deployments *)

(* Every update reaches the upstream view queue: the comparison takes the      *)
(* annotations of the syncer views out of the old object and the others out of *)
(* the new one.                                                                *)
UpstreamViewChanged(old, new) == TRUE

Deliver ==
    /\ kind = "deployment" /\ (seen # up \/ changed)
    /\ seen' = up
    /\ toSplit' = (toSplit \/ UpstreamViewChanged(seen, up))
    /\ toSum' = (toSum \/ changed) /\ changed' = FALSE
    /\ UNCHANGED <<kind, up, wrote, rescued, events>>

SyncerViews(o) == o.label \ o.del

Split(o) ==
    LET views == SyncerViews(o)
        n == Cardinality(views)
        share(t) == (o.replicas \div n) + (IF t = Min(views) THEN o.replicas % n ELSE 0)
    IN  [t \in Targets |-> IF t \in views THEN share(t) ELSE None]

(* The patch is refused when the object has changed since; the key is queued   *)
(* again.                                                                      *)
ProcessUpstreamView ==
    /\ toSplit /\ toSplit' = FALSE
    /\ seen = up
    /\ up' = [up EXCEPT !.diff = Split(seen)]
    /\ UNCHANGED <<kind, seen, changed, toSum, wrote, rescued, events>>

Count(s) == IF s = None THEN 0 ELSE s

Found(o) == {t \in Targets : o.view[t].found}

Summarized(o) == SumFunction([t \in Found(o) |-> Count(AfterRead(o, t).status)])

ProcessSyncerView ==
    /\ toSum /\ toSum' = FALSE
    /\ seen = up
    /\ up' = IF Count(seen.status) = Summarized(seen) THEN up
             ELSE [up EXCEPT !.status = Summarized(seen)]
    /\ UNCHANGED <<kind, seen, changed, toSplit, wrote, rescued, events>>

-----------------------------------------------------------------------------
(* Environment: the controller that assigns targets, and users *)

Event == events < MaxEvents /\ events' = events + 1

Schedule(t) ==
    /\ Event /\ t \notin up.label
    /\ Write([up EXCEPT !.label = @ \cup {t}])
    /\ UNCHANGED <<wrote, rescued>>

(* A target that was to leave stays after all.  What its view shows counts as  *)
(* what its syncer wrote: its status may be lost by then.                      *)
Rescue(t) ==
    /\ Event /\ t \in up.del
    /\ Write([up EXCEPT !.del = @ \ {t}])
    /\ wrote' = [wrote EXCEPT ![t] = StatusInView(up, t)]
    /\ rescued' = rescued \cup ({t} \cap up.fin)

Unschedule(t) ==
    /\ Event /\ t \in up.label \ up.del
    /\ Write([up EXCEPT !.del = @ \cup {t}])
    /\ UNCHANGED <<wrote, rescued>>

Scale ==
    /\ Event /\ kind = "deployment"
    /\ \E r \in Replicas \ {up.replicas} : Write([up EXCEPT !.replicas = r])
    /\ UNCHANGED <<wrote, rescued>>

-----------------------------------------------------------------------------
(* Specification *)

Init ==
    /\ kind \in Kinds
    /\ \E r \in Replicas :
         up = [replicas |-> r, label |-> {}, del |-> {}, fin |-> {}, status |-> None,
               view |-> [t \in Targets |-> NoView], diff |-> [t \in Targets |-> None]]
    /\ seen = up /\ changed = FALSE /\ toSplit = (kind = "deployment") /\ toSum = (kind = "deployment")
    /\ wrote = [t \in Targets |-> None] /\ rescued = {} /\ events = 0

Syncer(t) == TakeOver(t) \/ PromoteBeforeRemoval(t) \/ Remove(t)

Next ==
    \/ \E t \in Targets : Syncer(t) \/ WriteStatus(t) \/ Schedule(t) \/ Rescue(t) \/ Unschedule(t)
    \/ Deliver \/ ProcessUpstreamView \/ ProcessSyncerView \/ Scale

Spec == Init /\ [][Next]_vars

-----------------------------------------------------------------------------
(* Properties *)

(* The view of a syncer that stays shows the status that it wrote last,        *)
(* wherever that is kept: it is promoted, taken back when a second target      *)
(* joins and promoted again, by the write of another syncer, when that one     *)
(* leaves.  A target that was to leave and stays after all shows what it       *)
(* showed when it was told to stay: when two targets are to leave, each        *)
(* promotes the status of the other one and the first to be promoted is lost.  *)
OwnStatus ==
    kind # "deployment" => \A t \in up.fin \ up.del : AfterRead(up, t).status = wrote[t]

Quiet == kind = "deployment" /\ seen = up /\ ~changed /\ ~toSplit /\ ~toSum

(* A status is in the object only while no other target has a view.            *)
Alone(o) == \A t \in Targets : o.view[t].status = Promoted => Found(o) \subseteq {t}

(* When the coordination controller has nothing left to do, the replicas that  *)
(* the targets of a deployment are shown add up to what the user asked for,    *)
(* and the status is the sum of theirs: no change of targets, of views or of   *)
(* replicas goes unnoticed and no pass works with a stale copy.  The removal   *)
(* of a target promotes the status of the other one by a request of its own.   *)
(* If the removal does not follow, because the target was told to stay, or if  *)
(* a third one takes over before it does, a status is in the object while      *)
(* others have views: the sum then counts itself, and nothing is said here.    *)
QuietMeansCoordinated ==
    Quiet =>
        /\ SyncerViews(up) # {} =>
             up.replicas = SumFunction([t \in SyncerViews(up) |-> AfterRead(up, t).replicas])
        /\ Alone(up) \/ (Cardinality(Targets) < 3 /\ up.del = {} /\ rescued = {}) =>
             Count(up.status) = Summarized(up)

-----------------------------------------------------------------------------
(* What the proofs need: the types, and what is known at any time *)

Constants ==
    /\ IsFiniteSet(Targets) /\ Targets \subseteq Int
    /\ Replicas \subseteq Nat /\ Counts \subseteq Nat
    /\ None \notin Nat /\ Promoted \notin Nat /\ Promoted # None

Object == [replicas : Nat, label : SUBSET Targets, del : SUBSET Targets, fin : SUBSET Targets,
           status : Nat \cup {None},
           view : [Targets -> [found : BOOLEAN, status : Nat \cup {None, Promoted}]],
           diff : [Targets -> Nat \cup {None}]]

TypeOK ==
    /\ up \in Object /\ seen \in Object
    /\ changed \in BOOLEAN /\ toSplit \in BOOLEAN /\ toSum \in BOOLEAN
    /\ wrote \in [Targets -> Nat \cup {None}] /\ rescued \subseteq Targets /\ events \in Nat

(* The targets that own the object are those with a view.                      *)
OwnersHaveViews ==
    /\ up.fin \subseteq up.label /\ up.del \subseteq up.label /\ Found(up) = up.fin
    /\ \A t \in Targets \ up.fin : up.view[t].status = None /\ wrote[t] = None

(* With two targets that were never told to stay, one of them leaves if both   *)
(* have a view and a status is promoted.                                       *)
PromotedIsAlone ==
    Cardinality(Targets) < 3 /\ rescued = {} =>
        \A t, u \in Targets : up.view[t].status = Promoted /\ up.view[u].found /\ t # u =>
            t \in up.del \/ u \in up.del

OnlyDeployments == toSplit \/ toSum => kind = "deployment"

SplitIsWritten == kind = "deployment" /\ ~toSplit => up.diff = Split(seen)

SumIsWritten ==
    kind = "deployment" /\ ~toSum /\ ~changed /\ Alone(up) => Count(up.status) = Summarized(up)

CopyIInv ==
    /\ TypeOK /\ OwnersHaveViews /\ OwnStatus /\ PromotedIsAlone
    /\ OnlyDeployments /\ SplitIsWritten /\ SumIsWritten
=============================================================================
