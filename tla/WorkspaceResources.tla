------------------------- MODULE WorkspaceResources -------------------------
(***************************************************************************)
(* The resource controller of the TMC server for the objects that do not   *)
(* follow a namespace (ResourceSync is about those that do):               *)
(*                                                                         *)
(*   "scoped"    a cluster-scoped object, which goes to the sync targets   *)
(*               of all placements of its workspace;                       *)
(*   "upsynced"  an object that a syncer has brought into the workspace,   *)
(*               which goes with its SyncTarget.                           *)
(*                                                                         *)
(* Nobody looks through all objects when a placement changes: the handler  *)
(* looks up those that carry the label or the finalizer of the target that *)
(* the placement had before, in a cache that may be old.                   *)
(***************************************************************************)
EXTENDS Naturals

CONSTANTS
    Keys,         \* the keys of the sync targets
    Places,       \* the placements of the workspace
    Unplaced,     \* a placement without the annotation of a target
    NoPlacement,  \* a placement that does not exist
    WsBound       \* bound: events of the environment in one behaviour

ASSUME WsConstants == Unplaced \notin Keys /\ NoPlacement \notin Keys /\ WsBound \in Nat

VARIABLES
    wsKind,      \* the kind of the object
    wsObj,       \* the object
    wsSeen,      \* the object in the controller's cache
    wsFresh,     \* which of "seen" and "work" has the latest resourceVersion
    wsQueued,    \* the object's key is in the queue
    wsWork,      \* what the worker is about to send
    placed,      \* [p]: the target in the annotation of the placement
    placedSeen,  \* [p]: the same in the controller's cache
    wsLive,      \* the SyncTargets in the controller's cache
    wsEvents

wsVars == <<wsKind, wsObj, wsSeen, wsFresh, wsQueued, wsWork, placed, placedSeen, wsLive, wsEvents>>

WsKinds == {"scoped", "upsynced"}

WsObjects == [exists : BOOLEAN, deleting : BOOLEAN, label : SUBSET Keys, pending : SUBSET Keys,
              fin : SUBSET Keys, del : SUBSET Keys, soft : SUBSET Keys]

WsGone == [exists |-> FALSE, deleting |-> FALSE, label |-> {}, pending |-> {}, fin |-> {},
           del |-> {}, soft |-> {}]

Annotations == Keys \cup {Unplaced, NoPlacement}

Resting == [at |-> "idle", obj |-> WsGone]

-----------------------------------------------------------------------------
(* What the controller wants *)

(* The targets of all placements in the cache, getSyncTargetPlacement-      *)
(* Annotations.                                                             *)
ExpectedKeys(annotations) == {annotations[p] : p \in Places} \cap Keys

(* The targets that the labels of an object name, "Pending" or "Sync", and  *)
(* those of a set of keys that are in the cache, getSyncTargetFromKey.      *)
GetLocations(o) == o.label

Found(keys) == keys \cap wsLive

(* What keeps an object on a target: the syncer's finalizer, or a soft      *)
(* finalizer, which is an annotation.                                       *)
Holders(o) == o.fin \cup o.soft

(* A target that is not expected any more is marked for deletion while      *)
(* something holds the object there, and forgotten otherwise.  A new one    *)
(* starts as "Pending".                                                     *)
ComputeScopedPlacement(o, expected) ==
    LET unexpected == GetLocations(o) \ expected
        held == unexpected \cap Holders(o)
        forgotten == unexpected \ held
        new == expected \ GetLocations(o)
    IN  [o EXCEPT !.label = (@ \ forgotten) \cup new,
                  !.pending = (@ \ forgotten) \cup new,
                  !.del = (@ \ (forgotten \cup (GetLocations(o) \cap expected))) \cup held]

(* A deletion of the object is passed on to all its targets.                *)
PropagateScopedDeletion(o) == [o EXCEPT !.del = @ \cup GetLocations(o)]

(* The finalizers of SyncTargets that are gone are removed.  As in          *)
(* ResourceSync, the lookup cannot fail: no two SyncTargets share a key.    *)
Reconciled(o) ==
    LET assigned == IF o.deleting THEN PropagateScopedDeletion(o)
                    ELSE ComputeScopedPlacement(o, ExpectedKeys(placedSeen))
    IN  [assigned EXCEPT !.fin = Found(@)]

-----------------------------------------------------------------------------
(* The worker *)

(* The key is taken from the queue and the caches are read.  Nothing is     *)
(* sent when the object is as it should be.                                 *)
ReadResource ==
    /\ wsQueued /\ wsWork = Resting
    /\ wsQueued' = FALSE
    /\ \/ /\ wsSeen.exists /\ wsKind = "upsynced" /\ Found(wsSeen.label) # wsSeen.label
          /\ wsWork' = [at |-> "delete", obj |-> wsSeen] /\ UNCHANGED wsFresh
       \/ /\ wsSeen.exists /\ wsKind = "scoped" /\ Reconciled(wsSeen) # wsSeen
          /\ wsWork' = [at |-> "patch", obj |-> Reconciled(wsSeen)]
          /\ wsFresh' = IF "seen" \in wsFresh THEN wsFresh \cup {"work"} ELSE wsFresh \ {"work"}
       \/ /\ \/ ~wsSeen.exists
             \/ wsKind = "upsynced" /\ Found(wsSeen.label) = wsSeen.label
             \/ wsKind = "scoped" /\ Reconciled(wsSeen) = wsSeen
          /\ UNCHANGED <<wsWork, wsFresh>>
    /\ UNCHANGED <<wsKind, wsObj, wsSeen, placed, placedSeen, wsLive, wsEvents>>

(* A write: everybody's copy is old.  The API server drops an object that   *)
(* is being deleted with its last finalizer.                                *)
WriteResource(o) ==
    /\ wsObj' = IF o.deleting /\ o.fin = {} THEN WsGone ELSE o
    /\ wsFresh' = {}

(* A patch has the resourceVersion of the copy; what fails is tried again.  *)
PatchResource ==
    /\ wsWork.at = "patch" /\ wsWork' = Resting
    /\ \/ "work" \in wsFresh /\ WriteResource(wsWork.obj) /\ UNCHANGED wsQueued
       \/ "work" \notin wsFresh /\ wsQueued' = TRUE /\ UNCHANGED <<wsObj, wsFresh>>
    /\ UNCHANGED <<wsKind, wsSeen, placed, placedSeen, wsLive, wsEvents>>

(* A deletion is by name, and changes nothing the second time.              *)
DeleteResource ==
    /\ wsWork.at = "delete" /\ wsWork' = Resting
    /\ \/ /\ wsObj.exists /\ ~wsObj.deleting
          /\ WriteResource([wsObj EXCEPT !.deleting = TRUE]) /\ UNCHANGED wsQueued
       \/ wsObj.exists /\ wsObj.deleting /\ UNCHANGED <<wsObj, wsFresh, wsQueued>>
       \/ ~wsObj.exists /\ wsQueued' = TRUE /\ UNCHANGED <<wsObj, wsFresh>>
    /\ UNCHANGED <<wsKind, wsSeen, placed, placedSeen, wsLive, wsEvents>>

-----------------------------------------------------------------------------
(* The event handlers *)

(* The informer shows the latest object; a deletion enqueues nothing.       *)
SeeResource ==
    /\ "seen" \notin wsFresh
    /\ wsSeen' = wsObj /\ wsFresh' = wsFresh \cup {"seen"}
    /\ wsQueued' = (wsQueued \/ wsObj.exists)
    /\ UNCHANGED <<wsKind, wsObj, wsWork, placed, placedSeen, wsLive, wsEvents>>

(* The object is found in the cache under a key by its label or by its      *)
(* finalizer.                                                               *)
Indexed(key) == wsSeen.exists /\ key \in wsSeen.label \cup wsSeen.fin

(* Mutant: the objects of the new target are looked up.                     *)
LatestPlacement(p) == placed[p]

(* An update enqueues by the old placement, an addition by the new one.     *)
HandledPlacement(p) == IF placedSeen[p] = NoPlacement THEN placed[p] ELSE placedSeen[p]

SeePlacement(p) ==
    /\ placedSeen[p] # placed[p]
    /\ placedSeen' = [placedSeen EXCEPT ![p] = placed[p]]
    /\ wsQueued' = (wsQueued \/ Indexed(HandledPlacement(p)))
    /\ UNCHANGED <<wsKind, wsObj, wsSeen, wsFresh, wsWork, placed, wsLive, wsEvents>>

-----------------------------------------------------------------------------
(* Environment *)

WsEvent == wsEvents < WsBound /\ wsEvents' = wsEvents + 1

(* SyncTargets disappear, which enqueues their objects, and come back,      *)
(* which enqueues nothing.                                                  *)
SyncTargetDeleted(t) ==
    /\ WsEvent /\ t \in wsLive
    /\ wsLive' = wsLive \ {t} /\ wsQueued' = (wsQueued \/ Indexed(t))
    /\ UNCHANGED <<wsKind, wsObj, wsSeen, wsFresh, wsWork, placed, placedSeen>>

SyncTargetCreated(t) ==
    /\ WsEvent /\ t \notin wsLive
    /\ wsLive' = wsLive \cup {t}
    /\ UNCHANGED <<wsKind, wsObj, wsSeen, wsFresh, wsQueued, wsWork, placed, placedSeen>>

(* Placements are created, scheduled, unscheduled and deleted.              *)
ChangePlacement(p, a) ==
    /\ WsEvent /\ a # placed[p] /\ placed' = [placed EXCEPT ![p] = a]
    /\ UNCHANGED <<wsKind, wsObj, wsSeen, wsFresh, wsQueued, wsWork, placedSeen, wsLive>>

(* What others write.  The object is created, an upsynced one by a syncer.  *)
SomebodyWrites(o) ==
    /\ WsEvent /\ WriteResource(o)
    /\ UNCHANGED <<wsKind, wsSeen, wsQueued, wsWork, placed, placedSeen, wsLive>>

CreateObject(t) ==
    /\ ~wsObj.exists
    /\ SomebodyWrites(IF wsKind = "scoped" THEN [WsGone EXCEPT !.exists = TRUE]
                      ELSE [WsGone EXCEPT !.exists = TRUE, !.label = {t}, !.fin = {t}])

DeleteObject ==
    /\ wsObj.exists /\ ~wsObj.deleting
    /\ SomebodyWrites([wsObj EXCEPT !.deleting = TRUE])

(* A coordinator turns "Pending" into "Sync", ...                           *)
Coordinate(t) ==
    t \in wsObj.pending /\ SomebodyWrites([wsObj EXCEPT !.pending = @ \ {t}])

(* ... the syncer of the target then sets its finalizer, ...                *)
SyncerClaims(t) ==
    /\ wsKind = "scoped" /\ t \in wsObj.label \ (wsObj.pending \cup wsObj.fin)
    /\ SomebodyWrites([wsObj EXCEPT !.fin = @ \cup {t}])

(* ... and lets go when the object is marked and no soft finalizer is set.  *)
(* An upsynced object it forces out of the workspace.                       *)
SyncerReleases(t) ==
    \/ /\ wsKind = "scoped" /\ t \in (wsObj.label \cap wsObj.del) \ (wsObj.soft \cup wsObj.pending)
       /\ SomebodyWrites([wsObj EXCEPT !.label = @ \ {t}, !.fin = @ \ {t}, !.del = @ \ {t}])
    \/ /\ wsKind = "upsynced" /\ t \in wsObj.fin
       /\ SomebodyWrites([wsObj EXCEPT !.fin = @ \ {t}])

SetSoftFinalizer(t) ==
    /\ wsKind = "scoped" /\ t \in wsObj.label
    /\ SomebodyWrites([wsObj EXCEPT !.soft = IF t \in @ THEN @ \ {t} ELSE @ \cup {t}])

ResourceRequestFails ==
    /\ WsEvent /\ wsWork # Resting
    /\ wsWork' = Resting /\ wsQueued' = TRUE
    /\ UNCHANGED <<wsKind, wsObj, wsSeen, wsFresh, placed, placedSeen, wsLive>>

(* The informers list everything before the workers start again.            *)
RestartServer ==
    /\ WsEvent
    /\ wsWork' = Resting /\ wsSeen' = wsObj /\ wsFresh' = {"seen"} /\ wsQueued' = wsObj.exists
    /\ placedSeen' = placed
    /\ UNCHANGED <<wsKind, wsObj, placed, wsLive>>

-----------------------------------------------------------------------------
(* Specification *)

WsInit ==
    /\ wsKind \in WsKinds
    /\ wsObj = WsGone /\ wsSeen = WsGone /\ wsFresh = {"seen"} /\ wsQueued = FALSE
    /\ wsWork = Resting
    /\ placed = [p \in Places |-> NoPlacement] /\ placedSeen = placed
    /\ wsLive = Keys /\ wsEvents = 0

WsNext ==
    \/ ReadResource \/ PatchResource \/ DeleteResource \/ SeeResource
    \/ ResourceRequestFails \/ RestartServer \/ DeleteObject
    \/ \E p \in Places : SeePlacement(p) \/ \E a \in Annotations : ChangePlacement(p, a)
    \/ \E t \in Keys :
          \/ SyncTargetDeleted(t) \/ SyncTargetCreated(t)
          \/ CreateObject(t) \/ Coordinate(t) \/ SyncerClaims(t) \/ SyncerReleases(t)
          \/ SetSoftFinalizer(t)

WsSpec == WsInit /\ [][WsNext]_wsVars

-----------------------------------------------------------------------------
(* Properties *)

(* Every variable has its type.                                             *)
WsTypeOK ==
    /\ wsKind \in WsKinds /\ wsObj \in WsObjects /\ wsSeen \in WsObjects
    /\ wsFresh \subseteq {"seen", "work"} /\ wsQueued \in BOOLEAN
    /\ wsWork \in [at : {"idle", "patch", "delete"}, obj : WsObjects]
    /\ placed \in [Places -> Annotations] /\ placedSeen \in [Places -> Annotations]
    /\ wsLive \subseteq Keys /\ wsEvents \in Nat

(* A cluster-scoped object is on no target that it should not be on, unless *)
(* it is marked there and held there; an upsynced one has its SyncTarget.   *)
InPlace(o) ==
    o.exists =>
        /\ wsKind = "scoped" =>
              /\ o.fin \subseteq wsLive
              /\ o.deleting => o.label \subseteq o.del
              /\ ~o.deleting => o.label \ ExpectedKeys(placedSeen) \subseteq o.del \cap Holders(o)
        /\ wsKind = "upsynced" => o.deleting \/ o.label \subseteq wsLive

NothingToDo == ~wsQueued /\ wsWork = Resting /\ "seen" \in wsFresh

(* When nothing is on its way and nobody works, every object is in its      *)
(* place, although the handlers of placements and SyncTargets have only     *)
(* looked up the objects that an old cache showed, while workers were about *)
(* to write labels that they could not find.                                *)
QuietMeansPlaced == NothingToDo /\ placedSeen = placed => InPlace(wsObj)

(* What the code does not give: an object of the workspace has the labels   *)
(* of all its targets when nothing is on its way.  A placement that is      *)
(* scheduled for the first time enqueues nothing.                           *)
EveryTargetIsLabelled ==
    NothingToDo /\ placedSeen = placed /\ wsObj.exists /\ wsKind = "scoped" /\ ~wsObj.deleting
        => ExpectedKeys(placed) \subseteq wsObj.label

-----------------------------------------------------------------------------
(* The inductive invariant behind the theorems of Kcp_proofs                *)

(* The cache that is said to be up to date is.  When the controller has     *)
(* nothing to do the object is in its place by the cache of the placements. *)
WsIInv ==
    /\ WsTypeOK
    /\ "seen" \in wsFresh => wsSeen = wsObj
    /\ wsWork.at = "delete" => wsKind = "upsynced"
    /\ NothingToDo => InPlace(wsObj)
=============================================================================
