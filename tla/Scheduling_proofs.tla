-------------------------- MODULE Scheduling_proofs --------------------------
(***************************************************************************)
(* Theorems about Scheduling, for any placements, locations and targets,   *)
(* any grace period and any bounds.                                        *)
(***************************************************************************)
EXTENDS Scheduling, SequenceTheorems, WellFoundedInduction, TLAPS

-----------------------------------------------------------------------------
(* The operators the reconcilers are made of *)

(* A non-empty set of natural numbers has a least element.                  *)
LEMMA LeastNat ==
    ASSUME NEW S \in SUBSET Nat, S # {}
    PROVE  \E w \in S : \A v \in S : w <= v
<1> DEFINE R == OpToRel(<, Nat)
<1>1. PICK w \in S : \A v \in S : ~(<<v, w>> \in R)
  <2>1. IsWellFoundedOn(R, Nat)
    BY NatLessThanWellFounded
  <2> HIDE DEF R
  <2> QED BY <2>1, WFMin, Zenon
<1>2. ASSUME NEW v \in S
      PROVE  w <= v
  <2>1. ~(v < w)
    BY <1>1, Zenon DEF OpToRel
  <2> QED BY <2>1
<1> QED BY <1>2

(* The timer of the namespace is never set for longer than a grace period.  *)
LEMMA RequeueAfterType ==
    ASSUME TypeOK, NEW n \in Namespaces
    PROVE  RequeueAfter(n) \in 0 .. Grace + 1
<1> DEFINE waits == {Grace - age[t] : t \in PendingRemoval(n) \ Expired(n)}
<1>1. waits \subseteq 0 .. Grace
  <2> SUFFICES ASSUME NEW t \in PendingRemoval(n) \ Expired(n)
               PROVE  Grace - age[t] \in 0 .. Grace
    OBVIOUS
  <2>1. t \in Targets
    BY DEF PendingRemoval, Namespaces
  <2>2. age[t] \in 0 .. Grace + Second
    BY <2>1 DEF TypeOK
  <2>3. ~(age[t] > Grace)
    BY DEF Expired
  <2> QED BY <2>2, <2>3, Constants
<1>2. CASE waits = {} \/ 0 \in waits
  BY <1>2 DEF RequeueAfter, TypeOK
<1>3. CASE waits # {} /\ 0 \notin waits
  <2> DEFINE least == CHOOSE w \in waits : \A v \in waits : w <= v
  <2>1. waits \in SUBSET Nat
    BY <1>1, Constants
  <2>2. \E w \in waits : \A v \in waits : w <= v
    <3> HIDE DEF waits
    <3> QED BY <1>3, <2>1, LeastNat
  <2>3. least \in waits
    <3> HIDE DEF waits
    <3> QED BY <2>2
  <2>4. 1 + least \in 0 .. Grace + 1
    <3>1. least \in 0 .. Grace
      <4> HIDE DEF waits, least
      <4> QED BY <1>1, <2>3
    <3> HIDE DEF least
    <3> QED BY <3>1, Constants
  <2>5. RequeueAfter(n) \in {timer, Earlier(timer, 1 + least)}
    BY DEF RequeueAfter
  <2> HIDE DEF least
  <2> QED BY <2>4, <2>5 DEF Earlier, TypeOK
<1> QED BY <1>2, <1>3

(* What the chain of reconcilers makes of a namespace is a namespace.       *)
LEMMA ReconciledNamespaceType ==
    ASSUME TypeOK, NEW n \in Namespaces
    PROVE  ReconciledNamespace(n) \in Namespaces
<1>1. ReconcilePlacementBind(n) \in Namespaces
  BY DEF ReconcilePlacementBind, Namespaces
<1>2. ReconcileScheduling(n) \in Namespaces
  <2>1. ScheduledSyncTargets(n) \subseteq Targets
    <3> SUFFICES ASSUME NEW p \in FilterValidPlacements(n), placeSeen[p].target # NoTarget
                 PROVE  placeSeen[p].target \in Targets
      BY DEF ScheduledSyncTargets
    <3>1. p \in Placements
      BY DEF FilterValidPlacements, Namespaces
    <3>2. placeSeen[p] \in PlacementObjects
      BY <3>1 DEF TypeOK
    <3> QED BY <3>2 DEF PlacementObjects
  <2>2. Expired(n) \subseteq Targets /\ Active(n) \subseteq Targets
    BY DEF Expired, PendingRemoval, Active, Namespaces
  <2> QED BY <2>1, <2>2 DEF ReconcileScheduling, Namespaces
<1>3. ReconcileStatus(n) \in Namespaces
  BY DEF ReconcileStatus, Namespaces, Conditions
<1> QED BY <1>1, <1>2, <1>3 DEF ReconciledNamespace

(* What the placement controller makes of a placement is a placement.       *)
LEMMA ReconciledPlacementType ==
    ASSUME TypeOK, NEW p \in Placements, NEW o \in PlacementObjects,
           NEW q \in SelectLocation(o)
    PROVE  SetPhase(p, q) \in PlacementObjects
<1>1. ValidLocationNames \subseteq Locations
  BY DEF ValidLocationNames
<1>2. q \in PlacementObjects
  <2>1. CASE o.phase = "Bound"
    BY <2>1 DEF SelectLocation, PlacementObjects, Conditions
  <2>2. CASE o.phase = "Unbound" /\ o.loc \in ValidLocationNames
    BY <2>2 DEF SelectLocation, PlacementObjects, Conditions
  <2>3. CASE o.phase # "Bound" /\ ValidLocationNames = {}
    BY <2>3 DEF SelectLocation, PlacementObjects, Conditions
  <2>4. CASE /\ o.phase # "Bound" /\ ValidLocationNames # {}
             /\ ~(o.phase = "Unbound" /\ o.loc \in ValidLocationNames)
    <3>1. q \in {[o EXCEPT !.phase = "Unbound", !.loc = l, !.ready = "True"] :
                    l \in ValidLocationNames}
      BY <2>4 DEF SelectLocation
    <3>2. PICK l \in ValidLocationNames :
             q = [o EXCEPT !.phase = "Unbound", !.loc = l, !.ready = "True"]
      BY <3>1
    <3>3. l \in Locations
      BY <1>1
    <3> QED BY <3>2, <3>3 DEF PlacementObjects, Conditions
  <2> QED BY <2>1, <2>2, <2>3, <2>4
<1> QED BY <1>2 DEF SetPhase, PlacementObjects

-----------------------------------------------------------------------------
(* Type correctness *)

LEMMA WritePlacementType ==
    ASSUME TypeOK, NEW p \in Placements, NEW q \in PlacementObjects, WritePlacement(p, q)
    PROVE  /\ placement' \in [Placements -> PlacementObjects]
           /\ placeWatch' \in [Placements -> Seq(PlacementObjects)]
<1>1. Append(placeWatch[p], q) \in Seq(PlacementObjects)
  BY DEF TypeOK
<1> QED BY <1>1 DEF TypeOK, WritePlacement

LEMMA CommitPlacementType ==
    ASSUME TypeOK, NEW p \in Placements, NEW q \in PlacementObjects, CommitPlacement(p, q)
    PROVE  /\ placement' \in [Placements -> PlacementObjects]
           /\ placeWatch' \in [Placements -> Seq(PlacementObjects)]
BY WritePlacementType DEF CommitPlacement, placeVars, TypeOK

LEMMA PatchPlacementType ==
    ASSUME TypeOK, NEW p \in Placements, NEW t \in Targets \cup {NoTarget}, PatchPlacement(p, t)
    PROVE  /\ placement' \in [Placements -> PlacementObjects]
           /\ placeWatch' \in [Placements -> Seq(PlacementObjects)]
<1>1. [placement[p] EXCEPT !.target = t] \in PlacementObjects
  BY DEF TypeOK, PlacementObjects
<1> QED BY <1>1, WritePlacementType DEF PatchPlacement, placeVars, TypeOK

(* A new deletion timestamp is not older than a second.                     *)
LEMMA WriteNamespaceType ==
    ASSUME TypeOK, NEW n \in Namespaces, WriteNamespace(n)
    PROVE  /\ ns' \in Namespaces
           /\ nsWatch' \in Seq(Namespaces)
           /\ age' \in [Targets -> 0 .. Grace + Second]
<1>1. nsWatch' \in Seq(Namespaces)
  BY DEF WriteNamespace, TypeOK
<1>2. PICK k \in 0 .. Second - 1 :
         age' = [t \in Targets |-> IF t \in n.del \ ns.del THEN k ELSE age[t]]
  BY DEF WriteNamespace, Mark
<1>3. k \in 0 .. Grace + Second
  BY Constants
<1>4. age' \in [Targets -> 0 .. Grace + Second]
  BY <1>2, <1>3 DEF TypeOK
<1> QED BY <1>1, <1>4 DEF WriteNamespace

(* Every step keeps the types.                                              *)
LEMMA TypeStep ==
    ASSUME TypeOK, [Next]_vars
    PROVE  TypeOK'
<1>1. ASSUME NEW p \in Placements, ReconcilePlacement(p)
      PROVE  TypeOK'
  <2>1. PICK q \in SelectLocation(placeSeen[p]) :
           CommitPlacement(p, SetPhase(p, q)) /\ schedQueue' \subseteq schedQueue
    BY <1>1 DEF ReconcilePlacement, ReconciledPlacement
  <2>2. SetPhase(p, q) \in PlacementObjects
    BY ReconciledPlacementType DEF TypeOK
  <2> QED BY <1>1, <2>1, <2>2, CommitPlacementType
          DEF TypeOK, ReconcilePlacement, envVars, seenVars, nsVars
<1>2. ASSUME NEW p \in Placements, ReconcileSyncTarget(p)
      PROVE  TypeOK'
  <2>1. placeSeen[p] \in PlacementObjects
    BY DEF TypeOK
  <2>2. ASSUME NEW c \in Conditions
        PROVE  [placeSeen[p] EXCEPT !.sched = c] \in PlacementObjects
    BY <2>1 DEF PlacementObjects
  <2>3. ValidSyncTargets(placeSeen[p]) \subseteq Targets
    BY DEF ValidSyncTargets, TypeOK
  <2>4. /\ placement' \in [Placements -> PlacementObjects]
        /\ placeWatch' \in [Placements -> Seq(PlacementObjects)]
        /\ workQueue' \subseteq workQueue
    <3>1. CASE KeepTarget(p)
      BY <3>1, <2>2, CommitPlacementType DEF KeepTarget, Conditions
    <3>2. CASE DropTarget(p)
      BY <3>2, <2>2, CommitPlacementType, PatchPlacementType DEF DropTarget, Conditions
    <3>3. CASE ChooseTarget(p)
      BY <3>3, <2>3, PatchPlacementType DEF ChooseTarget
    <3> QED BY <1>2, <3>1, <3>2, <3>3 DEF ReconcileSyncTarget, ReconcileTarget
  <2> QED BY <1>2, <2>4 DEF TypeOK, ReconcileSyncTarget, envVars, seenVars, nsVars
<1>3. CASE ReconcileNamespace
  <2>1. nsSeen \in Namespaces
    BY DEF TypeOK
  <2>2. timer' \in 0 .. Grace + 1
    BY <1>3, <2>1, RequeueAfterType DEF ReconcileNamespace
  <2>3. ReconciledNamespace(nsSeen) \in Namespaces
    BY <2>1, ReconciledNamespaceType
  <2>4. /\ ns' \in Namespaces /\ nsWatch' \in Seq(Namespaces)
        /\ age' \in [Targets -> 0 .. Grace + Second]
        /\ nsQueue' \in BOOLEAN
    <3>1. CASE WriteNamespace(ReconciledNamespace(nsSeen)) /\ nsQueue' = FALSE
      BY <3>1, <2>3, WriteNamespaceType
    <3>2. CASE UNCHANGED nsVars /\ nsQueue' \in {FALSE, nsQueue}
      BY <3>2 DEF nsVars, TypeOK
    <3> QED BY <1>3, <3>1, <3>2 DEF ReconcileNamespace
  <2> QED BY <1>3, <2>2, <2>4 DEF TypeOK, ReconcileNamespace, envVars, seenVars, placeVars
<1>4. ASSUME NEW p \in Placements, DeliverPlacement(p)
      PROVE  TypeOK'
  <2>1. /\ Head(placeWatch[p]) \in PlacementObjects
        /\ Tail(placeWatch[p]) \in Seq(PlacementObjects)
    BY <1>4 DEF TypeOK, DeliverPlacement
  <2>2. /\ placeSeen' \in [Placements -> PlacementObjects]
        /\ placeWatch' \in [Placements -> Seq(PlacementObjects)]
    BY <1>4, <2>1 DEF TypeOK, DeliverPlacement
  <2> QED BY <1>4, <2>2 DEF TypeOK, DeliverPlacement, envVars, nsVars
<1>5. CASE DeliverNamespace
  <2>1. Head(nsWatch) \in Namespaces /\ Tail(nsWatch) \in Seq(Namespaces)
    BY <1>5 DEF TypeOK, DeliverNamespace
  <2> QED BY <1>5, <2>1 DEF TypeOK, DeliverNamespace, envVars, placeVars
<1>6. ASSUME NEW l \in Locations, DeliverLocation(l)
      PROVE  TypeOK'
  BY <1>6 DEF TypeOK, DeliverLocation, Referring, Selecting, envVars, placeVars, nsVars
<1>7. CASE DeliverTarget
  BY <1>7 DEF TypeOK, DeliverTarget, Selecting, envVars, placeVars, nsVars
<1>8. CASE Resync
  BY <1>8 DEF TypeOK, Resync, envVars, seenVars, placeVars, nsVars
<1>9. CASE Tick
  <2>1. age' \in [Targets -> 0 .. Grace + Second]
    BY <1>9, Constants DEF TypeOK, Tick
  <2>2. timer' \in 0 .. Grace + 1
    BY <1>9, Constants DEF TypeOK, Tick
  <2> QED BY <1>9, <2>1, <2>2 DEF TypeOK, Tick, envVars, seenVars, placeVars
<1>10. ASSUME NEW l \in Locations, NEW s \in LocationStates, LocationChanges(l, s)
       PROVE  TypeOK'
  BY <1>10 DEF TypeOK, LocationChanges, Event, seenVars, placeVars, nsVars, queues
<1>11. ASSUME NEW t \in Targets, TargetChanges(t)
       PROVE  TypeOK'
  BY <1>11 DEF TypeOK, TargetChanges, Event, seenVars, placeVars, nsVars, queues
<1>12. ASSUME NEW t \in Targets, EvictionDue(t)
       PROVE  TypeOK'
  BY <1>12 DEF TypeOK, EvictionDue, Event, seenVars, placeVars, nsVars, queues
<1>13. ASSUME NEW s \in SUBSET Placements, NamespaceRelabelled(s)
       PROVE  TypeOK'
  <2>1. [ns EXCEPT !.selects = s] \in Namespaces
    BY DEF TypeOK, Namespaces
  <2> QED BY <1>13, <2>1, WriteNamespaceType
          DEF TypeOK, NamespaceRelabelled, Event, envVars, seenVars, placeVars, queues
<1>14. CASE UNCHANGED vars
  BY <1>14 DEF TypeOK, vars
<1> QED BY <1>1, <1>2, <1>3, <1>4, <1>5, <1>6, <1>7, <1>8, <1>9, <1>10, <1>11, <1>12,
           <1>13, <1>14
        DEF Next, Controllers, Informers, Environment

LEMMA TypeInit == Init => TypeOK
<1> SUFFICES ASSUME Init
             PROVE  TypeOK
  OBVIOUS
<1>1. {Fresh("Pending"), Fresh("")} \subseteq PlacementObjects
  BY DEF Fresh, PlacementObjects, Conditions
<1>2. placement \in [Placements -> PlacementObjects]
  BY <1>1 DEF Init, Start
<1>3. ns \in Namespaces
  BY DEF Init, Start, Namespaces, Conditions
<1>4. age \in [Targets -> 0 .. Grace + Second] /\ timer \in 0 .. Grace + 1
  <2>1. 0 \in 0 .. Grace + Second /\ 0 \in 0 .. Grace + 1
    BY Constants
  <2> QED BY <2>1 DEF Init, Start
<1>5. /\ placeWatch \in [Placements -> Seq(PlacementObjects)]
      /\ nsWatch \in Seq(Namespaces)
  <2>1. <<>> \in Seq(PlacementObjects) /\ <<>> \in Seq(Namespaces)
    BY EmptySeq
  <2> QED BY <2>1 DEF Init, Start
<1> QED BY <1>2, <1>3, <1>4, <1>5 DEF Init, Start, TypeOK, LocationStates

(* Every variable keeps its type: in particular the timer of the namespace  *)
(* stays within a grace period and the age of a deletion timestamp, cut to  *)
(* seconds, within a second of it.                                          *)
THEOREM TypeCorrect == Spec => []TypeOK
<1> QED BY TypeInit, TypeStep, PTL DEF Spec

-----------------------------------------------------------------------------
(* What the commit of the namespace starts from *)

(* The cache of namespaces catches up: it, or the last version on its way,  *)
(* is the namespace.  A commit that is not refused starts from the present  *)
(* namespace.                                                               *)
NamespaceCacheCatchesUp ==
    ns = IF nsWatch = <<>> THEN nsSeen ELSE nsWatch[Len(nsWatch)]

(* Taking the first element off a sequence leaves its last one in place.    *)
LEMMA TailLast ==
    ASSUME NEW S, NEW s \in Seq(S), s # <<>>
    PROVE  s[Len(s)] = IF Tail(s) = <<>> THEN Head(s) ELSE Tail(s)[Len(Tail(s))]
<1>1. PICK r \in Seq(S) : /\ r = Tail(s)
                          /\ Len(r) = Len(s) - 1
                          /\ \A i \in 1 .. Len(r) : r[i] = s[i + 1]
  BY HeadTailProperties
<1>2. Len(r) = Len(s) - 1
  BY <1>1
<1>3. \A i \in 1 .. Len(r) : r[i] = s[i + 1]
  BY <1>1
<1>4. Len(s) \in Nat
  BY LenProperties
<1>5. CASE r = <<>>
  <2>1. Len(s) = 1
    BY <1>2, <1>4, <1>5
  <2> QED BY <1>1, <1>5, <2>1
<1>6. CASE r # <<>>
  <2>1. Len(r) \in Nat /\ Len(r) # 0
    BY <1>6, EmptySeq
  <2>2. Len(r) \in 1 .. Len(r) /\ Len(r) + 1 = Len(s)
    BY <1>2, <1>4, <2>1
  <2>3. r[Len(r)] = s[Len(s)]
    BY <1>3, <2>2
  <2> QED BY <1>1, <1>6, <2>3
<1> QED BY <1>5, <1>6

(* Writing the namespace leaves it last on its way to the cache.            *)
LEMMA WriteCatchesUp ==
    ASSUME TypeOK, NEW n \in Namespaces, WriteNamespace(n)
    PROVE  NamespaceCacheCatchesUp'
<1>1. nsWatch \in Seq(Namespaces)
  BY DEF TypeOK
<1>2. nsWatch' = Append(nsWatch, n) /\ ns' = n
  BY DEF WriteNamespace
<1>3. Len(nsWatch') = Len(nsWatch) + 1 /\ nsWatch'[Len(nsWatch) + 1] = n /\ nsWatch' # <<>>
  BY <1>1, <1>2
<1> QED BY <1>2, <1>3 DEF NamespaceCacheCatchesUp

(* Every step lets the cache catch up.                                      *)
LEMMA CacheStep ==
    ASSUME TypeOK, NamespaceCacheCatchesUp, [Next]_vars
    PROVE  NamespaceCacheCatchesUp'
<1>1. ASSUME UNCHANGED <<ns, nsWatch, nsSeen>>
      PROVE  NamespaceCacheCatchesUp'
  BY <1>1 DEF NamespaceCacheCatchesUp
<1>2. CASE ReconcileNamespace
  <2>1. ReconciledNamespace(nsSeen) \in Namespaces
    BY ReconciledNamespaceType DEF TypeOK
  <2>2. CASE WriteNamespace(ReconciledNamespace(nsSeen))
    BY <2>1, <2>2, WriteCatchesUp
  <2>3. CASE UNCHANGED nsVars
    BY <1>1, <1>2, <2>3 DEF ReconcileNamespace, nsVars, seenVars
  <2> QED BY <1>2, <2>2, <2>3 DEF ReconcileNamespace
<1>3. CASE DeliverNamespace
  <2>1. /\ nsWatch \in Seq(Namespaces) /\ nsWatch # <<>>
        /\ ns' = ns /\ nsSeen' = Head(nsWatch) /\ nsWatch' = Tail(nsWatch)
    BY <1>3 DEF DeliverNamespace, TypeOK
  <2>2. ns = nsWatch[Len(nsWatch)]
    BY <2>1 DEF NamespaceCacheCatchesUp
  <2> QED BY <2>1, <2>2, TailLast DEF NamespaceCacheCatchesUp
<1>4. ASSUME NEW s \in SUBSET Placements, NamespaceRelabelled(s)
      PROVE  NamespaceCacheCatchesUp'
  <2>1. [ns EXCEPT !.selects = s] \in Namespaces
    BY DEF TypeOK, Namespaces
  <2> QED BY <1>4, <2>1, WriteCatchesUp DEF NamespaceRelabelled
<1>5. CASE Tick
  BY <1>1, <1>5 DEF Tick, seenVars
<1>6. ASSUME NEW p \in Placements,
             ReconcilePlacement(p) \/ ReconcileSyncTarget(p) \/ DeliverPlacement(p)
      PROVE  NamespaceCacheCatchesUp'
  BY <1>1, <1>6 DEF ReconcilePlacement, ReconcileSyncTarget, DeliverPlacement, nsVars, seenVars
<1>7. ASSUME NEW l \in Locations, NEW s \in LocationStates, LocationChanges(l, s)
      PROVE  NamespaceCacheCatchesUp'
  BY <1>1, <1>7 DEF LocationChanges, nsVars, seenVars
<1>8. ASSUME NEW t \in Targets, TargetChanges(t) \/ EvictionDue(t)
      PROVE  NamespaceCacheCatchesUp'
  BY <1>1, <1>8 DEF TargetChanges, EvictionDue, nsVars, seenVars
<1>9. CASE DeliverTarget \/ Resync
  BY <1>1, <1>9 DEF DeliverTarget, Resync, nsVars, seenVars
<1>10. CASE UNCHANGED vars
  BY <1>1, <1>10 DEF vars
<1>11. ASSUME NEW l \in Locations, DeliverLocation(l)
       PROVE  NamespaceCacheCatchesUp'
  BY <1>1, <1>11 DEF DeliverLocation, nsVars
<1> QED BY <1>2, <1>3, <1>4, <1>5, <1>6, <1>7, <1>8, <1>9, <1>10, <1>11
        DEF Next, Controllers, Informers, Environment

(* The cache of namespaces is the namespace or the copies on their way to   *)
(* it end in the namespace: a commit that is not refused (committer.go,     *)
(* resourceVersion) starts from the present namespace.                      *)
THEOREM CacheIsHonest == Spec => []NamespaceCacheCatchesUp
<1>1. Init => NamespaceCacheCatchesUp
  BY DEF Init, Start, NamespaceCacheCatchesUp
<1> QED BY <1>1, TypeCorrect, CacheStep, PTL DEF Spec

-----------------------------------------------------------------------------
(* What a step does to the namespace *)

(* The only steps that write the namespace are a relabelling and a commit   *)
(* of what the reconcilers make of the present namespace.                   *)
LEMMA NamespaceWrites ==
    ASSUME TypeOK, NamespaceCacheCatchesUp, [Next]_vars, ns' # ns
    PROVE  \/ ns' = ReconciledNamespace(ns)
           \/ \E s \in SUBSET Placements : ns' = [ns EXCEPT !.selects = s]
<1>1. CASE ReconcileNamespace
  <2>1. WriteNamespace(ReconciledNamespace(nsSeen)) /\ nsWatch = <<>>
    BY <1>1 DEF ReconcileNamespace, nsVars
  <2>2. ns = nsSeen
    BY <2>1 DEF NamespaceCacheCatchesUp
  <2> QED BY <2>1, <2>2 DEF WriteNamespace
<1>2. ASSUME NEW s \in SUBSET Placements, NamespaceRelabelled(s)
      PROVE  ns' = [ns EXCEPT !.selects = s]
  BY <1>2 DEF NamespaceRelabelled, WriteNamespace
<1>3. ASSUME NEW p \in Placements,
             ReconcilePlacement(p) \/ ReconcileSyncTarget(p) \/ DeliverPlacement(p)
      PROVE  FALSE
  BY <1>3 DEF ReconcilePlacement, ReconcileSyncTarget, DeliverPlacement, nsVars
<1>4. ASSUME NEW l \in Locations, DeliverLocation(l)
      PROVE  FALSE
  BY <1>4 DEF DeliverLocation, nsVars
<1>5. ASSUME NEW l \in Locations, NEW s \in LocationStates, LocationChanges(l, s)
      PROVE  FALSE
  BY <1>5 DEF LocationChanges, nsVars
<1>6. ASSUME NEW t \in Targets, TargetChanges(t) \/ EvictionDue(t)
      PROVE  FALSE
  BY <1>6 DEF TargetChanges, EvictionDue, nsVars
<1>7. CASE DeliverTarget \/ Resync \/ Tick \/ DeliverNamespace \/ UNCHANGED vars
  BY <1>7 DEF DeliverTarget, Resync, Tick, DeliverNamespace, nsVars, vars
<1> QED BY <1>1, <1>2, <1>3, <1>4, <1>5, <1>6, <1>7
        DEF Next, Controllers, Informers, Environment

LEMMA SplitStep ==
    ASSUME TypeOK, NamespaceCacheCatchesUp, [Next]_vars, ns'.scheduled # ns.scheduled
    PROVE  [ns' EXCEPT !.scheduled = ns.scheduled] = ns
<1>1. ns \in Namespaces
  BY DEF TypeOK
<1>2. ASSUME NEW s \in SUBSET Placements, ns' = [ns EXCEPT !.selects = s]
      PROVE  FALSE
  BY <1>1, <1>2 DEF Namespaces
<1>3. ns' = ReconciledNamespace(ns)
  BY <1>2, NamespaceWrites
<1>4. ReconcilePlacementBind(ns).scheduled = ns.scheduled
  BY <1>1 DEF ReconcilePlacementBind, Namespaces
<1>5. ReconcileScheduling(ns).scheduled = ns.scheduled
  BY <1>1 DEF ReconcileScheduling, Namespaces
<1>6. ns' = ReconcileStatus(ns)
  BY <1>3, <1>4, <1>5 DEF ReconciledNamespace
<1> QED BY <1>1, <1>6 DEF ReconcileStatus, Namespaces

(* No commit of the namespace changes both its metadata and its status, on  *)
(* which the committer (committer.go) would panic: every reconciler that    *)
(* changes annotations or labels stops the chain before the condition.      *)
THEOREM NeverCommitsBoth == Spec => CommitsAreSplit
<1>1. TypeOK /\ NamespaceCacheCatchesUp /\ [Next]_vars
         => [ns'.scheduled # ns.scheduled =>
               [ns' EXCEPT !.scheduled = ns.scheduled] = ns]_vars
  BY SplitStep
<1> QED BY <1>1, TypeCorrect, CacheIsHonest, PTL DEF Spec, CommitsAreSplit

LEMMA GraceStep ==
    ASSUME TypeOK, NamespaceCacheCatchesUp, [Next]_vars, NEW t \in ns.label \ ns'.label
    PROVE  t \in ns.del /\ age[t] > Grace
<1>1. ns \in Namespaces
  BY DEF TypeOK
<1>2. ASSUME NEW s \in SUBSET Placements, ns' = [ns EXCEPT !.selects = s]
      PROVE  FALSE
  BY <1>1, <1>2 DEF Namespaces
<1>3. ns' = ReconciledNamespace(ns)
  BY <1>2, NamespaceWrites
<1>4. ReconcilePlacementBind(ns).label = ns.label /\ ReconcileStatus(ns).label = ns.label
  BY <1>1 DEF ReconcilePlacementBind, ReconcileStatus, Namespaces
<1>5. ns' = ReconcileScheduling(ns)
  BY <1>3, <1>4 DEF ReconciledNamespace
<1>6. ns'.label = (ns.label \ Expired(ns)) \cup (ScheduledSyncTargets(ns) \ ns.label)
  BY <1>1, <1>5 DEF ReconcileScheduling, Namespaces
<1>7. t \in Expired(ns)
  BY <1>6
<1> QED BY <1>7 DEF Expired, PendingRemoval

(* For every grace period and every rounding of the timestamp, a sync       *)
(* target keeps its label until it has been marked for longer than the      *)
(* grace period, from however old a copy the reconciler starts.             *)
THEOREM GraceIsKept == Spec => RemovedAfterGrace
<1>1. TypeOK /\ NamespaceCacheCatchesUp /\ [Next]_vars
         => [\A t \in ns.label \ ns'.label : t \in ns.del /\ age[t] > Grace]_vars
  BY GraceStep
<1> QED BY <1>1, TypeCorrect, CacheIsHonest, PTL DEF Spec, RemovedAfterGrace

-----------------------------------------------------------------------------
(* What the caches tell the reconcilers *)

LEMMA CoherentIsPlacement == Coherent \subseteq PlacementObjects
BY DEF Coherent

(* What the placement controller makes of a placement: a phase that follows *)
(* the namespace and a location for all but the pending ones.               *)
LEMMA SetPhaseIsRight ==
    ASSUME TypeOK, NEW p \in Placements, NEW o \in PlacementObjects,
           NEW q \in SelectLocation(o)
    PROVE  /\ SetPhase(p, q) \in Coherent
           /\ SetPhase(p, q).phase # "Pending" =>
                (SetPhase(p, q).phase = "Bound" <=> nsSeen.bound /\ p \in nsSeen.selects)
<1>1. ValidLocationNames \subseteq Locations
  BY DEF ValidLocationNames
<1>2. q \in PlacementObjects /\ (q.phase = "Pending" => q.loc = NoLocation)
  <2>0. CASE o.phase = "Bound"
    BY <2>0 DEF SelectLocation, PlacementObjects, Conditions
  <2>1. CASE o.phase = "Unbound" /\ o.loc \in ValidLocationNames
    BY <2>1 DEF SelectLocation, PlacementObjects, Conditions
  <2>2. CASE o.phase # "Bound" /\ ValidLocationNames = {}
    BY <2>2 DEF SelectLocation, PlacementObjects, Conditions
  <2>3. CASE /\ o.phase # "Bound" /\ ValidLocationNames # {}
             /\ ~(o.phase = "Unbound" /\ o.loc \in ValidLocationNames)
    <3>1. PICK l \in ValidLocationNames :
             q = [o EXCEPT !.phase = "Unbound", !.loc = l, !.ready = "True"]
      BY <2>3 DEF SelectLocation
    <3>2. l \in Locations
      BY <1>1
    <3> QED BY <3>1, <3>2 DEF PlacementObjects, Conditions
  <2> QED BY <2>0, <2>1, <2>2, <2>3
<1>3. CASE q.phase = "Pending"
  BY <1>2, <1>3 DEF SetPhase, Coherent
<1>4. CASE q.phase # "Pending" /\ q.loc = NoLocation
  <2>1. SetPhase(p, q) = [q EXCEPT !.phase = "Pending"]
    BY <1>4 DEF SetPhase
  <2> QED BY <1>2, <1>4, <2>1 DEF Coherent, PlacementObjects
<1>5. CASE q.phase # "Pending" /\ q.loc # NoLocation
  <2>1. CASE nsSeen.bound /\ p \in nsSeen.selects
    <3>1. SetPhase(p, q) = [q EXCEPT !.phase = "Bound"]
      BY <1>5, <2>1 DEF SetPhase
    <3> QED BY <1>2, <2>1, <3>1 DEF Coherent, PlacementObjects
  <2>2. CASE ~(nsSeen.bound /\ p \in nsSeen.selects)
    <3>1. SetPhase(p, q) = [q EXCEPT !.phase = "Unbound"]
      BY <1>5, <2>2 DEF SetPhase
    <3> QED BY <1>2, <2>2, <3>1 DEF Coherent, PlacementObjects
  <2> QED BY <2>1, <2>2
<1> QED BY <1>3, <1>4, <1>5

LEMMA WritePlacementCatchesUp ==
    ASSUME TypeOK, PlacementCacheCatchesUp, NEW p \in Placements, NEW q \in Coherent,
           WritePlacement(p, q), placeSeen' = placeSeen
    PROVE  PlacementCacheCatchesUp' /\ placeWatch'[p] # <<>>
<1> DEFINE w == Append(placeWatch[p], q)
<1>1. placeWatch[p] \in Seq(Coherent)
  BY DEF PlacementCacheCatchesUp
<1>2. w \in Seq(Coherent) /\ w # <<>> /\ Len(w) = Len(placeWatch[p]) + 1 /\ w[Len(w)] = q
  BY <1>1
<1>3. placement' = [placement EXCEPT ![p] = q] /\ placeWatch' = [placeWatch EXCEPT ![p] = w]
  BY DEF WritePlacement
<1> HIDE DEF w
<1>4. placement'[p] = q /\ placeWatch'[p] = w
  BY <1>3 DEF TypeOK
<1>5. ASSUME NEW r \in Placements
      PROVE  /\ placement'[r] \in Coherent /\ placeSeen'[r] \in Coherent
             /\ placeWatch'[r] \in Seq(Coherent)
             /\ placement'[r] = IF placeWatch'[r] = <<>> THEN placeSeen'[r]
                                ELSE placeWatch'[r][Len(placeWatch'[r])]
  <2>1. CASE r = p
    BY <1>2, <1>4, <2>1 DEF PlacementCacheCatchesUp
  <2>2. CASE r # p
    <3>1. placement'[r] = placement[r] /\ placeWatch'[r] = placeWatch[r]
      BY <1>3, <2>2 DEF TypeOK
    <3> QED BY <3>1 DEF PlacementCacheCatchesUp
  <2> QED BY <2>1, <2>2
<1> QED BY <1>2, <1>4, <1>5 DEF PlacementCacheCatchesUp

LEMMA UnchangedPlacementsCatchUp ==
    ASSUME PlacementCacheCatchesUp, UNCHANGED <<placement, placeWatch, placeSeen>>
    PROVE  PlacementCacheCatchesUp'
BY DEF PlacementCacheCatchesUp

LEMMA CommitCatchesUp ==
    ASSUME TypeOK, PlacementCacheCatchesUp, NEW p \in Placements, NEW q \in Coherent,
           CommitPlacement(p, q), placeSeen' = placeSeen
    PROVE  PlacementCacheCatchesUp'
BY WritePlacementCatchesUp, UnchangedPlacementsCatchUp DEF CommitPlacement, placeVars

LEMMA PatchCatchesUp ==
    ASSUME TypeOK, PlacementCacheCatchesUp, NEW p \in Placements,
           NEW t \in Targets \cup {NoTarget}, PatchPlacement(p, t), placeSeen' = placeSeen
    PROVE  PlacementCacheCatchesUp'
<1>1. placement[p] \in Coherent
  BY DEF PlacementCacheCatchesUp
<1>2. [placement[p] EXCEPT !.target = t] \in Coherent
  BY <1>1 DEF Coherent, PlacementObjects
<1> QED BY <1>2, WritePlacementCatchesUp, UnchangedPlacementsCatchUp DEF PatchPlacement, placeVars

(* The informers hand over the oldest version.                              *)
LEMMA DeliverPlacementCatchesUp ==
    ASSUME TypeOK, PlacementCacheCatchesUp, NEW p \in Placements, DeliverPlacement(p)
    PROVE  PlacementCacheCatchesUp'
<1>1. placeWatch[p] \in Seq(Coherent) /\ placeWatch[p] # <<>>
  BY DEF PlacementCacheCatchesUp, DeliverPlacement
<1>2. Head(placeWatch[p]) \in Coherent /\ Tail(placeWatch[p]) \in Seq(Coherent)
  BY <1>1
<1>3. placement' = placement
  BY DEF DeliverPlacement
<1>4. placeSeen'[p] = Head(placeWatch[p]) /\ placeWatch'[p] = Tail(placeWatch[p])
  BY DEF DeliverPlacement, TypeOK
<1>5. placement[p] = placeWatch[p][Len(placeWatch[p])]
  BY <1>1 DEF PlacementCacheCatchesUp
<1>6. placement[p] = IF Tail(placeWatch[p]) = <<>> THEN Head(placeWatch[p])
                     ELSE Tail(placeWatch[p])[Len(Tail(placeWatch[p]))]
  BY <1>1, <1>5, TailLast
<1>7. ASSUME NEW r \in Placements
      PROVE  /\ placement'[r] \in Coherent /\ placeSeen'[r] \in Coherent
             /\ placeWatch'[r] \in Seq(Coherent)
             /\ placement'[r] = IF placeWatch'[r] = <<>> THEN placeSeen'[r]
                                ELSE placeWatch'[r][Len(placeWatch'[r])]
  <2>1. CASE r = p
    BY <1>2, <1>3, <1>4, <1>6, <2>1 DEF PlacementCacheCatchesUp
  <2>2. CASE r # p
    <3>1. placeSeen'[r] = placeSeen[r] /\ placeWatch'[r] = placeWatch[r]
      BY <2>2 DEF TypeOK, DeliverPlacement
    <3> QED BY <1>3, <3>1 DEF PlacementCacheCatchesUp
  <2> QED BY <2>1, <2>2
<1> QED BY <1>7 DEF PlacementCacheCatchesUp

LEMMA PlacementCacheStep ==
    ASSUME TypeOK, PlacementCacheCatchesUp, [Next]_vars
    PROVE  PlacementCacheCatchesUp'
<1>1. ASSUME NEW p \in Placements, ReconcilePlacement(p)
      PROVE  PlacementCacheCatchesUp'
  <2>1. PICK q \in SelectLocation(placeSeen[p]) : CommitPlacement(p, SetPhase(p, q))
    BY <1>1 DEF ReconcilePlacement, ReconciledPlacement
  <2>2. placeSeen[p] \in PlacementObjects
    BY DEF TypeOK
  <2>3. SetPhase(p, q) \in Coherent
    BY <2>2, SetPhaseIsRight
  <2> QED BY <1>1, <2>1, <2>3, CommitCatchesUp DEF ReconcilePlacement, seenVars
<1>2. ASSUME NEW p \in Placements, ReconcileSyncTarget(p)
      PROVE  PlacementCacheCatchesUp'
  <2>1. placeSeen[p] \in Coherent
    BY DEF PlacementCacheCatchesUp
  <2>2. ASSUME NEW c \in Conditions
        PROVE  [placeSeen[p] EXCEPT !.sched = c] \in Coherent
    BY <2>1 DEF Coherent, PlacementObjects
  <2>3. ValidSyncTargets(placeSeen[p]) \subseteq Targets
    BY DEF ValidSyncTargets, TypeOK
  <2>4. placeSeen' = placeSeen
    BY <1>2 DEF ReconcileSyncTarget, seenVars
  <2>5. CASE KeepTarget(p)
    BY <2>2, <2>4, <2>5, CommitCatchesUp DEF KeepTarget, Conditions
  <2>6. CASE DropTarget(p)
    BY <2>2, <2>4, <2>6, CommitCatchesUp, PatchCatchesUp DEF DropTarget, Conditions
  <2>7. CASE ChooseTarget(p)
    BY <2>3, <2>4, <2>7, PatchCatchesUp DEF ChooseTarget
  <2> QED BY <1>2, <2>5, <2>6, <2>7 DEF ReconcileSyncTarget, ReconcileTarget
<1>3. ASSUME NEW p \in Placements, DeliverPlacement(p)
      PROVE  PlacementCacheCatchesUp'
  BY <1>3, DeliverPlacementCatchesUp
<1>4. CASE ReconcileNamespace \/ DeliverNamespace
  BY <1>4, UnchangedPlacementsCatchUp DEF ReconcileNamespace, DeliverNamespace, placeVars, seenVars
<1>5. ASSUME NEW l \in Locations, DeliverLocation(l)
      PROVE  PlacementCacheCatchesUp'
  BY <1>5, UnchangedPlacementsCatchUp DEF DeliverLocation, placeVars
<1>6. CASE DeliverTarget \/ Resync \/ Tick \/ UNCHANGED vars
  BY <1>6, UnchangedPlacementsCatchUp DEF DeliverTarget, Resync, Tick, vars, placeVars, seenVars
<1>7. ASSUME NEW l \in Locations, NEW s \in LocationStates, LocationChanges(l, s)
      PROVE  PlacementCacheCatchesUp'
  BY <1>7, UnchangedPlacementsCatchUp DEF LocationChanges, placeVars, seenVars
<1>8. ASSUME NEW t \in Targets, TargetChanges(t) \/ EvictionDue(t)
      PROVE  PlacementCacheCatchesUp'
  BY <1>8, UnchangedPlacementsCatchUp DEF TargetChanges, EvictionDue, placeVars, seenVars
<1>9. ASSUME NEW s \in SUBSET Placements, NamespaceRelabelled(s)
      PROVE  PlacementCacheCatchesUp'
  BY <1>9, UnchangedPlacementsCatchUp DEF NamespaceRelabelled, placeVars, seenVars
<1> QED BY <1>1, <1>2, <1>3, <1>4, <1>5, <1>6, <1>7, <1>8, <1>9
        DEF Next, Controllers, Informers, Environment

LEMMA PlacementCacheInit == Init => PlacementCacheCatchesUp
<1> SUFFICES ASSUME Init
             PROVE  PlacementCacheCatchesUp
  OBVIOUS
<1>1. {Fresh("Pending"), Fresh("")} \subseteq Coherent
  <2>1. ASSUME NEW c \in {"", "Pending"}
        PROVE  Fresh(c) \in PlacementObjects /\ Fresh(c).loc = NoLocation
    BY DEF Fresh, PlacementObjects, Conditions
  <2> QED BY <2>1 DEF Coherent
<1>2. <<>> \in Seq(Coherent)
  BY EmptySeq
<1>3. ASSUME NEW p \in Placements
      PROVE  /\ placement[p] \in Coherent /\ placeSeen[p] = placement[p]
             /\ placeWatch[p] = <<>>
  BY <1>1 DEF Init, Start
<1> QED BY <1>2, <1>3 DEF PlacementCacheCatchesUp

(* The cache of placements is the placement or the copies on their way to   *)
(* it end in the placement, and a placement is pending only without a       *)
(* location (placement_reconciler_scheduling.go): what the three            *)
(* controllers decide from the cache they decide from the placement, once   *)
(* the informer has caught up.                                              *)
THEOREM PlacementCacheIsHonest == Spec => []PlacementCacheCatchesUp
<1> QED BY PlacementCacheInit, TypeCorrect, PlacementCacheStep, PTL DEF Spec

-----------------------------------------------------------------------------
(* The namespace follows its placements *)

(* A namespace the chain of reconcilers leaves as it is has the targets of  *)
(* its placements.                                                          *)
LEMMA NothingToReconcile ==
    ASSUME TypeOK, NEW n \in Namespaces, ReconciledNamespace(n) = n
    PROVE  /\ n.bound <=> FilterValidPlacements(n) # {}
           /\ ScheduledSyncTargets(n) \subseteq n.label
           /\ Active(n) \subseteq ScheduledSyncTargets(n)
<1>1. ReconcilePlacementBind(n) = n /\ ReconcileScheduling(n) = n
  BY DEF ReconciledNamespace
<1>2. n.bound = (FilterValidPlacements(n) # {})
  <2>1. ReconcilePlacementBind(n).bound = (FilterValidPlacements(n) # {})
    BY DEF ReconcilePlacementBind, Namespaces
  <2> QED BY <1>1, <2>1
<1>3. /\ n.label = (n.label \ Expired(n)) \cup (ScheduledSyncTargets(n) \ n.label)
      /\ n.del = (n.del \cup (Active(n) \ ScheduledSyncTargets(n))) \ Expired(n)
  <2>1. /\ ReconcileScheduling(n).label
             = (n.label \ Expired(n)) \cup (ScheduledSyncTargets(n) \ n.label)
        /\ ReconcileScheduling(n).del
             = (n.del \cup (Active(n) \ ScheduledSyncTargets(n))) \ Expired(n)
    BY DEF ReconcileScheduling, Namespaces
  <2> QED BY <1>1, <2>1
<1>4. ScheduledSyncTargets(n) \subseteq n.label
  BY <1>3
<1>5. ASSUME NEW t \in Active(n)
      PROVE  t \in ScheduledSyncTargets(n)
  <2>1. t \in n.label /\ t \notin n.del
    BY DEF Active
  <2>2. t \notin Expired(n)
    BY <2>1 DEF Expired, PendingRemoval
  <2> QED BY <1>3, <1>5, <2>1, <2>2
<1> QED BY <1>2, <1>4, <1>5

LEMMA NamespaceSettledKept ==
    ASSUME NamespaceSettled, UNCHANGED <<placeSeen, nsSeen, nsWatch>>, nsQueue => nsQueue'
    PROVE  NamespaceSettled'
<1>1. /\ FilterValidPlacements(nsSeen)' = FilterValidPlacements(nsSeen)
      /\ ScheduledSyncTargets(nsSeen)' = ScheduledSyncTargets(nsSeen)
      /\ Active(nsSeen)' = Active(nsSeen)
  BY DEF FilterValidPlacements, ScheduledSyncTargets, Active
<1> QED BY <1>1 DEF NamespaceSettled

LEMMA NamespaceSettledStep ==
    ASSUME TypeOK, NamespaceSettled, [Next]_vars
    PROVE  NamespaceSettled'
<1>1. CASE ReconcileNamespace
  <2> DEFINE new == ReconciledNamespace(nsSeen)
  <2>1. CASE new = nsSeen
    <3>1. UNCHANGED <<placeSeen, nsSeen>>
      BY <1>1 DEF ReconcileNamespace, seenVars
    <3>2. nsSeen \in Namespaces
      BY DEF TypeOK
    <3>3. /\ nsSeen.bound <=> FilterValidPlacements(nsSeen) # {}
          /\ ScheduledSyncTargets(nsSeen) \subseteq nsSeen.label
          /\ Active(nsSeen) \subseteq ScheduledSyncTargets(nsSeen)
      BY <2>1, <3>2, NothingToReconcile
    <3>4. /\ FilterValidPlacements(nsSeen)' = FilterValidPlacements(nsSeen)
          /\ ScheduledSyncTargets(nsSeen)' = ScheduledSyncTargets(nsSeen)
          /\ Active(nsSeen)' = Active(nsSeen)
      BY <3>1 DEF FilterValidPlacements, ScheduledSyncTargets, Active
    <3> QED BY <3>1, <3>3, <3>4 DEF NamespaceSettled
  <2>2. CASE new # nsSeen /\ nsWatch = <<>>
    <3>1. nsWatch' = Append(nsWatch, new) /\ nsWatch \in Seq(Namespaces)
      BY <1>1, <2>2 DEF ReconcileNamespace, WriteNamespace, TypeOK
    <3>2. nsWatch' # <<>>
      BY <3>1
    <3> QED BY <3>2 DEF NamespaceSettled
  <2>3. CASE new # nsSeen /\ nsWatch # <<>>
    <3>1. nsWatch' = nsWatch
      BY <1>1, <2>3 DEF ReconcileNamespace, nsVars
    <3> QED BY <2>3, <3>1 DEF NamespaceSettled
  <2> QED BY <2>1, <2>2, <2>3
<1>2. ASSUME NEW p \in Placements, ReconcilePlacement(p) \/ ReconcileSyncTarget(p)
      PROVE  NamespaceSettled'
  BY <1>2, NamespaceSettledKept DEF ReconcilePlacement, ReconcileSyncTarget, seenVars, nsVars
<1>3. ASSUME NEW p \in Placements, DeliverPlacement(p)
      PROVE  NamespaceSettled'
  BY <1>3 DEF DeliverPlacement, NamespaceSettled
<1>4. CASE DeliverNamespace \/ Resync
  BY <1>4 DEF DeliverNamespace, Resync, NamespaceSettled
<1>5. ASSUME NEW l \in Locations, DeliverLocation(l)
      PROVE  NamespaceSettled'
  BY <1>5, NamespaceSettledKept DEF DeliverLocation, nsVars
<1>6. CASE DeliverTarget \/ UNCHANGED vars
  BY <1>6, NamespaceSettledKept DEF DeliverTarget, vars, nsVars
<1>10. CASE Tick
  <2>1. nsQueue => nsQueue'
    BY <1>10, Zenon DEF Tick
  <2>2. UNCHANGED <<placeSeen, nsSeen, nsWatch>>
    BY <1>10 DEF Tick, seenVars
  <2> QED BY <2>1, <2>2, NamespaceSettledKept
<1>7. ASSUME NEW l \in Locations, NEW s \in LocationStates, LocationChanges(l, s)
      PROVE  NamespaceSettled'
  BY <1>7, NamespaceSettledKept DEF LocationChanges, nsVars, seenVars, queues
<1>8. ASSUME NEW t \in Targets, TargetChanges(t) \/ EvictionDue(t)
      PROVE  NamespaceSettled'
  BY <1>8, NamespaceSettledKept DEF TargetChanges, EvictionDue, nsVars, seenVars, queues
<1>9. ASSUME NEW s \in SUBSET Placements, NamespaceRelabelled(s)
      PROVE  NamespaceSettled'
  <2>1. nsWatch' = Append(nsWatch, [ns EXCEPT !.selects = s]) /\ nsWatch \in Seq(Namespaces)
    BY <1>9 DEF NamespaceRelabelled, WriteNamespace, TypeOK
  <2>2. [ns EXCEPT !.selects = s] \in Namespaces
    BY DEF TypeOK, Namespaces
  <2>3. nsWatch' # <<>>
    BY <2>1, <2>2
  <2> QED BY <2>3 DEF NamespaceSettled
<1> QED BY <1>1, <1>2, <1>3, <1>4, <1>5, <1>6, <1>7, <1>8, <1>9, <1>10
        DEF Next, Controllers, Informers, Environment

(* When every handler has run the caches are the objects.                   *)
LEMMA QuietIsSeen ==
    ASSUME PlacementCacheCatchesUp, NamespaceCacheCatchesUp, Quiet
    PROVE  /\ \A p \in Placements : placeSeen[p] = placement[p] /\ placeWatch[p] = <<>>
           /\ nsSeen = ns /\ nsWatch = <<>> /\ locSeen = loc /\ readySeen = ready
BY DEF Quiet, PlacementCacheCatchesUp, NamespaceCacheCatchesUp

LEMMA SettledFollows ==
    ASSUME TypeOK, PlacementCacheCatchesUp, NamespaceCacheCatchesUp, NamespaceSettled
    PROVE  NamespaceFollows
<1> SUFFICES ASSUME Quiet
             PROVE  /\ ScheduledTo \subseteq ns.label
                    /\ Active(ns) \subseteq ScheduledTo
                    /\ ns.bound <=> Used # {}
  BY DEF NamespaceFollows
<1>1. /\ \A p \in Placements : placeSeen[p] = placement[p]
      /\ nsSeen = ns /\ nsWatch = <<>> /\ ~nsQueue
  BY QuietIsSeen DEF Quiet
<1>2. /\ ns.bound <=> FilterValidPlacements(ns) # {}
      /\ ScheduledSyncTargets(ns) \subseteq ns.label
      /\ Active(ns) \subseteq ScheduledSyncTargets(ns)
  BY <1>1 DEF NamespaceSettled
<1>3. ns.selects \subseteq Placements
  BY DEF TypeOK, Namespaces
<1>4. Used = IF ns.bound THEN FilterValidPlacements(ns) ELSE {}
  BY <1>1, <1>3 DEF Used, FilterValidPlacements
<1>5. ScheduledTo = ScheduledSyncTargets(ns)
  <2>1. Used \subseteq Placements
    BY <1>3 DEF Used
  <2>2. {placement[p].target : p \in Used} = {placeSeen[p].target : p \in Used}
    BY <1>1, <2>1
  <2> QED BY <1>4, <2>2 DEF ScheduledTo, ScheduledSyncTargets
<1> QED BY <1>2, <1>4, <1>5

(* Whatever the order of events, deliveries and reconciliations, once every *)
(* handler has run the namespace has the labels of the targets of its       *)
(* placements, all others are leaving, and it is bound exactly when a       *)
(* placement is usable: no handler of the namespace controller              *)
(* (namespace_controller.go) misses an event that matters.                  *)
THEOREM NamespaceIsFollowing == Spec => []NamespaceFollows
<1>1. Init => NamespaceSettled
  BY DEF Init, Start, NamespaceSettled
<1>2. Spec => []NamespaceSettled
  BY <1>1, TypeCorrect, NamespaceSettledStep, PTL DEF Spec
<1>3. TypeOK /\ PlacementCacheCatchesUp /\ NamespaceCacheCatchesUp /\ NamespaceSettled
         => NamespaceFollows
  BY SettledFollows
<1> QED BY <1>2, <1>3, TypeCorrect, PlacementCacheIsHonest, CacheIsHonest, PTL

-----------------------------------------------------------------------------
(* Placements keep to the targets of their location *)

(* The target of placement p is as the caches want it.                      *)
TargetSettled(p) ==
    IF placeSeen[p].target = NoTarget THEN UsableSeen(placeSeen[p]) \subseteq evicted
    ELSE placeSeen[p].target \in UsableSeen(placeSeen[p])

(* A version that is written is on its way.                                 *)
LEMMA WrittenIsOnItsWay ==
    ASSUME TypeOK, NEW r \in Placements, NEW q \in PlacementObjects, WritePlacement(r, q),
           NEW p \in Placements, placeWatch'[p] = <<>>
    PROVE  p # r /\ placeWatch[p] = <<>>
<1>1. Append(placeWatch[r], q) # <<>>
  <2>1. placeWatch[r] \in Seq(PlacementObjects)
    BY DEF TypeOK
  <2> QED BY <2>1
<1>2. p # r
  BY <1>1 DEF WritePlacement, TypeOK
<1> QED BY <1>2 DEF WritePlacement, TypeOK

(* A commit leaves nothing on its way only if there was nothing, and        *)
(* nothing to commit.                                                       *)
LEMMA CommittedIsOnItsWay ==
    ASSUME TypeOK, NEW r \in Placements, NEW q \in PlacementObjects, CommitPlacement(r, q),
           NEW p \in Placements, placeWatch'[p] = <<>>
    PROVE  placeWatch[p] = <<>> /\ (p = r => q = placeSeen[p])
<1>1. CASE placeWatch[r] = <<>> /\ q # placeSeen[r]
  BY <1>1, WrittenIsOnItsWay DEF CommitPlacement
<1>2. CASE ~(placeWatch[r] = <<>> /\ q # placeSeen[r])
  BY <1>2 DEF CommitPlacement, placeVars
<1> QED BY <1>1, <1>2

(* The same of a patch, because the cache catches up.                       *)
LEMMA PatchedIsOnItsWay ==
    ASSUME TypeOK, PlacementCacheCatchesUp, NEW r \in Placements,
           NEW t \in Targets \cup {NoTarget}, PatchPlacement(r, t),
           NEW p \in Placements, placeWatch'[p] = <<>>
    PROVE  placeWatch[p] = <<>> /\ (p = r => placeSeen[p].target = t)
<1>1. CASE placement[r].target # t
  <2>1. [placement[r] EXCEPT !.target = t] \in PlacementObjects
    BY DEF TypeOK, PlacementObjects
  <2> QED BY <1>1, <2>1, WrittenIsOnItsWay DEF PatchPlacement
<1>2. CASE placement[r].target = t
  <2>1. placeWatch[p] = <<>>
    BY <1>2 DEF PatchPlacement, placeVars
  <2> QED BY <1>2, <2>1 DEF PlacementCacheCatchesUp
<1> QED BY <1>1, <1>2

LEMMA TargetKept ==
    ASSUME NEW p \in Placements, TargetSettled(p), UNCHANGED <<locSeen, readySeen>>,
           placeSeen'[p] = placeSeen[p], evicted \subseteq evicted'
    PROVE  TargetSettled(p)'
<1>1. UsableSeen(placeSeen[p])' = UsableSeen(placeSeen[p])
  BY DEF UsableSeen
<1> QED BY <1>1 DEF TargetSettled

(* A placement that is dropped from the queue of the workload controller    *)
(* has its target, or a version of it is on its way.                        *)
LEMMA DecidedTarget ==
    ASSUME TypeOK, PlacementCacheCatchesUp, TargetsSettled,
           NEW r \in Placements, ReconcileSyncTarget(r),
           NEW p \in Placements \ workQueue', placeWatch'[p] = <<>>
    PROVE  TargetSettled(p)
<1> DEFINE q == placeSeen[r]
<1>1. q \in PlacementObjects /\ (q.phase = "Pending" => q.loc = NoLocation)
  BY DEF PlacementCacheCatchesUp, Coherent
<1>2. ValidSyncTargets(q) = UsableSeen(q) \ evicted
  BY <1>1 DEF ValidSyncTargets, UsableSeen
<1>3. ValidSyncTargets(q) \subseteq Targets
  BY DEF ValidSyncTargets, TypeOK
<1>4. ASSUME NEW c \in Conditions
      PROVE  [q EXCEPT !.sched = c] \in PlacementObjects
  BY <1>1 DEF PlacementObjects
<1>5. CASE KeepTarget(r)
  <2>1. placeWatch[p] = <<>>
    BY <1>4, <1>5, CommittedIsOnItsWay DEF KeepTarget, Conditions
  <2>2. CASE p = r
    <3>1. q.target \in UsableSeen(q) /\ q.target # NoTarget
      BY <1>2, <1>3, <1>5, Constants DEF KeepTarget
    <3> QED BY <2>2, <3>1 DEF TargetSettled
  <2>3. CASE p # r
    BY <1>5, <2>1, <2>3 DEF KeepTarget, TargetsSettled, TargetSettled
  <2> QED BY <2>2, <2>3
<1>6. CASE DropTarget(r)
  <2>1. UsableSeen(q) \subseteq evicted
    BY <1>2, <1>6 DEF DropTarget
  <2>2. CASE q.target # NoTarget
    <3>1. placeWatch[p] = <<>> /\ p # r
      BY <1>6, <2>2, PatchedIsOnItsWay DEF DropTarget
    <3> QED BY <1>6, <2>2, <3>1 DEF DropTarget, TargetsSettled, TargetSettled
  <2>3. CASE q.target = NoTarget
    <3>1. placeWatch[p] = <<>>
      BY <1>4, <1>6, <2>3, CommittedIsOnItsWay DEF DropTarget, Conditions
    <3>2. CASE p = r
      BY <2>1, <2>3, <3>2 DEF TargetSettled
    <3>3. CASE p # r
      BY <1>6, <2>3, <3>1, <3>3 DEF DropTarget, TargetsSettled, TargetSettled
    <3> QED BY <3>2, <3>3
  <2> QED BY <2>2, <2>3
<1>7. CASE ChooseTarget(r)
  <2>1. placeWatch[p] = <<>>
    BY <1>3, <1>7, PatchedIsOnItsWay DEF ChooseTarget
  <2> QED BY <1>7, <2>1 DEF ChooseTarget, TargetsSettled, TargetSettled
<1> QED BY <1>5, <1>6, <1>7 DEF ReconcileSyncTarget, ReconcileTarget

LEMMA TargetsSettledStep ==
    ASSUME TypeOK, PlacementCacheCatchesUp, TargetsSettled, [Next]_vars
    PROVE  TargetsSettled'
<1> SUFFICES ASSUME NEW p \in Placements \ workQueue', placeWatch'[p] = <<>>
             PROVE  TargetSettled(p)'
  BY DEF TargetsSettled, TargetSettled
<1>0. p \notin workQueue /\ placeWatch[p] = <<>> => TargetSettled(p)
  BY DEF TargetsSettled, TargetSettled
<1>1. ASSUME NEW r \in Placements, ReconcilePlacement(r)
      PROVE  TargetSettled(p)'
  <2>1. PICK q \in SelectLocation(placeSeen[r]) : CommitPlacement(r, SetPhase(r, q))
    BY <1>1 DEF ReconcilePlacement, ReconciledPlacement
  <2>2. SetPhase(r, q) \in PlacementObjects
    BY ReconciledPlacementType DEF TypeOK
  <2>3. placeWatch[p] = <<>>
    BY <2>1, <2>2, CommittedIsOnItsWay
  <2> QED BY <1>0, <1>1, <2>3, TargetKept DEF ReconcilePlacement, seenVars, envVars
<1>2. ASSUME NEW r \in Placements, ReconcileSyncTarget(r)
      PROVE  TargetSettled(p)'
  BY <1>2, DecidedTarget, TargetKept DEF ReconcileSyncTarget, seenVars, envVars
<1>3. ASSUME NEW r \in Placements, DeliverPlacement(r)
      PROVE  TargetSettled(p)'
  <2>1. p # r /\ p \notin workQueue
    BY <1>3 DEF DeliverPlacement
  <2>2. placeWatch[p] = <<>> /\ placeSeen'[p] = placeSeen[p]
    BY <1>3, <2>1 DEF DeliverPlacement, TypeOK
  <2> QED BY <1>0, <1>3, <2>1, <2>2, TargetKept DEF DeliverPlacement, envVars
<1>4. CASE ReconcileNamespace
  BY <1>0, <1>4, TargetKept DEF ReconcileNamespace, placeVars, seenVars, envVars
<1>5. CASE DeliverNamespace
  BY <1>0, <1>5, TargetKept DEF DeliverNamespace, placeVars, envVars
<1>6. ASSUME NEW l \in Locations, DeliverLocation(l)
      PROVE  TargetSettled(p)'
  <2>1. p \notin workQueue /\ p \notin Selecting /\ UNCHANGED <<placeSeen, placeWatch, evicted>>
    BY <1>6 DEF DeliverLocation, placeVars, envVars
  <2>2. placeSeen[p].loc = NoLocation
    BY <2>1 DEF Selecting
  <2>3. UsableSeen(placeSeen[p]) = {} /\ UsableSeen(placeSeen[p])' = {}
    BY <2>1, <2>2 DEF UsableSeen
  <2> QED BY <1>0, <2>1, <2>3 DEF TargetSettled
<1>7. CASE DeliverTarget
  <2>1. p \notin workQueue /\ UNCHANGED <<placeSeen, placeWatch, evicted, locSeen>>
    BY <1>7 DEF DeliverTarget, placeVars, envVars
  <2>2. placeSeen[p] \in PlacementObjects
    BY DEF TypeOK
  <2>3. placeSeen[p].loc = NoLocation \/ locSeen[placeSeen[p].loc] = "gone"
    BY <1>7, <2>1, <2>2 DEF DeliverTarget, Selecting, PlacementObjects
  <2>4. UsableSeen(placeSeen[p]) = {} /\ UsableSeen(placeSeen[p])' = {}
    BY <2>1, <2>3 DEF UsableSeen
  <2> QED BY <1>0, <2>1, <2>4 DEF TargetSettled
<1>8. CASE Resync
  BY <1>8 DEF Resync
<1>9. CASE Tick \/ UNCHANGED vars
  BY <1>0, <1>9, TargetKept DEF Tick, vars, placeVars, seenVars, envVars
<1>10. ASSUME NEW l \in Locations, NEW s \in LocationStates, LocationChanges(l, s)
       PROVE  TargetSettled(p)'
  BY <1>0, <1>10, TargetKept DEF LocationChanges, placeVars, seenVars, queues
<1>11. ASSUME NEW t \in Targets, TargetChanges(t) \/ EvictionDue(t)
       PROVE  TargetSettled(p)'
  BY <1>0, <1>11, TargetKept DEF TargetChanges, EvictionDue, placeVars, seenVars, queues
<1>12. ASSUME NEW s \in SUBSET Placements, NamespaceRelabelled(s)
       PROVE  TargetSettled(p)'
  BY <1>0, <1>12, TargetKept DEF NamespaceRelabelled, placeVars, seenVars, envVars, queues
<1> QED BY <1>1, <1>2, <1>3, <1>4, <1>5, <1>6, <1>7, <1>8, <1>9, <1>10, <1>11, <1>12
        DEF Next, Controllers, Informers, Environment

(* Once every handler has run, a placement has a ready sync target of its   *)
(* location, or none and there is none but evicting ones; the handlers of   *)
(* the workload placement controller (placement_controller.go) queue every  *)
(* placement that a change of a location or of a sync target concerns.      *)
THEOREM PlacementsGetTargets == Spec => []PlacementsAreScheduled
<1>1. Init => TargetsSettled
  BY DEF Init, Start, TargetsSettled
<1>2. Spec => []TargetsSettled
  BY <1>1, TypeCorrect, PlacementCacheIsHonest, TargetsSettledStep, PTL DEF Spec
<1>3. ASSUME PlacementCacheCatchesUp, NamespaceCacheCatchesUp, TargetsSettled
      PROVE  PlacementsAreScheduled
  <2> SUFFICES ASSUME Quiet, NEW p \in Placements
               PROVE  IF placement[p].target = NoTarget THEN Usable(p) \subseteq evicted
                      ELSE placement[p].target \in Usable(p)
    BY DEF PlacementsAreScheduled
  <2>1. /\ placeSeen[p] = placement[p] /\ placeWatch[p] = <<>> /\ p \notin workQueue
        /\ locSeen = loc /\ readySeen = ready
    BY <1>3, QuietIsSeen DEF Quiet
  <2>2. UsableSeen(placeSeen[p]) = Usable(p)
    BY <2>1 DEF UsableSeen, Usable
  <2> QED BY <1>3, <2>1, <2>2 DEF TargetsSettled
<1> QED BY <1>2, <1>3, PlacementCacheIsHonest, CacheIsHonest, PTL

-----------------------------------------------------------------------------
(* The phase of a placement, when the namespace keeps its labels *)

(* The phase of placement p is as the cached namespace wants it.            *)
PhaseSettled(p) ==
    placeSeen[p].phase # "Pending" =>
        (placeSeen[p].phase = "Bound" <=> nsSeen.bound /\ p \in nsSeen.selects)

(* The chain of reconcilers does not change the labels placements select.   *)
LEMMA ReconciledSelects ==
    ASSUME NEW n \in Namespaces
    PROVE  ReconciledNamespace(n).selects = n.selects
<1>1. ReconcilePlacementBind(n).selects = n.selects
  BY DEF ReconcilePlacementBind, Namespaces
<1>2. ReconcileScheduling(n).selects = n.selects
  BY DEF ReconcileScheduling, Namespaces
<1>3. ReconcileStatus(n).selects = n.selects
  BY DEF ReconcileStatus, Namespaces
<1> QED BY <1>1, <1>2, <1>3 DEF ReconciledNamespace

LEMMA SelectedStep ==
    ASSUME "relabel" \notin Events, TypeOK, SelectedThroughout, [Next]_vars
    PROVE  SelectedThroughout'
<1>1. ASSUME UNCHANGED <<ns, nsSeen, nsWatch>>
      PROVE  SelectedThroughout'
  BY <1>1 DEF SelectedThroughout
<1>2. CASE ReconcileNamespace
  <2> DEFINE new == ReconciledNamespace(nsSeen)
  <2>1. nsSeen' = nsSeen
    BY <1>2 DEF ReconcileNamespace, seenVars
  <2>2. CASE WriteNamespace(new)
    <3>1. new \in Namespaces /\ new.selects = Placements
      BY ReconciledNamespaceType, ReconciledSelects DEF TypeOK, SelectedThroughout
    <3>2. nsWatch \in Seq(Namespaces)
      BY DEF TypeOK
    <3> HIDE DEF new
    <3>3. ns' = new /\ nsWatch' = Append(nsWatch, new)
      BY <2>2 DEF WriteNamespace
    <3>4. ASSUME NEW i \in 1 .. Len(nsWatch')
          PROVE  nsWatch'[i].selects = Placements
      <4>1. Len(nsWatch') = Len(nsWatch) + 1
        BY <3>1, <3>2, <3>3
      <4>2. CASE i = Len(nsWatch) + 1
        BY <3>1, <3>2, <3>3, <4>2
      <4>3. CASE i \in 1 .. Len(nsWatch)
        <5>1. nsWatch'[i] = nsWatch[i]
          BY <3>1, <3>2, <3>3, <4>3
        <5> QED BY <4>3, <5>1 DEF SelectedThroughout
      <4> QED BY <3>2, <4>1, <4>2, <4>3
    <3> QED BY <2>1, <3>1, <3>3, <3>4 DEF SelectedThroughout
  <2>3. CASE UNCHANGED nsVars
    BY <1>1, <2>1, <2>3 DEF nsVars
  <2> QED BY <1>2, <2>2, <2>3 DEF ReconcileNamespace
<1>3. CASE DeliverNamespace
  <2>1. nsWatch \in Seq(Namespaces) /\ nsWatch # <<>>
    BY <1>3 DEF DeliverNamespace, TypeOK
  <2>2. ns' = ns /\ nsSeen' = Head(nsWatch) /\ nsWatch' = Tail(nsWatch)
    BY <1>3 DEF DeliverNamespace
  <2>3. Head(nsWatch) = nsWatch[1] /\ 1 \in 1 .. Len(nsWatch)
    BY <2>1
  <2>4. nsSeen'.selects = Placements
    BY <2>2, <2>3 DEF SelectedThroughout
  <2>5. ASSUME NEW i \in 1 .. Len(nsWatch')
        PROVE  nsWatch'[i].selects = Placements
    <3>1. i + 1 \in 1 .. Len(nsWatch) /\ nsWatch'[i] = nsWatch[i + 1]
      BY <2>1, <2>2
    <3> QED BY <3>1 DEF SelectedThroughout
  <2> QED BY <2>2, <2>4, <2>5 DEF SelectedThroughout
<1>4. ASSUME NEW p \in Placements,
             ReconcilePlacement(p) \/ ReconcileSyncTarget(p) \/ DeliverPlacement(p)
      PROVE  SelectedThroughout'
  BY <1>1, <1>4 DEF ReconcilePlacement, ReconcileSyncTarget, DeliverPlacement, nsVars, seenVars
<1>5. ASSUME NEW l \in Locations, DeliverLocation(l)
      PROVE  SelectedThroughout'
  BY <1>1, <1>5 DEF DeliverLocation, nsVars
<1>6. CASE DeliverTarget \/ Resync \/ Tick \/ UNCHANGED vars
  BY <1>1, <1>6 DEF DeliverTarget, Resync, Tick, vars, nsVars, seenVars
<1>7. ASSUME NEW l \in Locations, NEW s \in LocationStates, LocationChanges(l, s)
      PROVE  SelectedThroughout'
  BY <1>1, <1>7 DEF LocationChanges, nsVars, seenVars
<1>8. ASSUME NEW t \in Targets, TargetChanges(t) \/ EvictionDue(t)
      PROVE  SelectedThroughout'
  BY <1>1, <1>8 DEF TargetChanges, EvictionDue, nsVars, seenVars
<1>9. ASSUME NEW s \in SUBSET Placements, NamespaceRelabelled(s)
      PROVE  FALSE
  BY <1>9 DEF NamespaceRelabelled, Event
<1> QED BY <1>2, <1>3, <1>4, <1>5, <1>6, <1>7, <1>8, <1>9
        DEF Next, Controllers, Informers, Environment

LEMMA PhaseKept ==
    ASSUME NEW p \in Placements, PhaseSettled(p), nsSeen' = nsSeen,
           placeSeen'[p] = placeSeen[p]
    PROVE  PhaseSettled(p)'
BY DEF PhaseSettled

LEMMA PhasesSettledStep ==
    ASSUME TypeOK, SelectedThroughout, SelectedThroughout', PlacementCacheCatchesUp,
           PhasesSettled, [Next]_vars
    PROVE  PhasesSettled'
<1> SUFFICES ASSUME NEW p \in Placements \ schedQueue', placeWatch'[p] = <<>>
             PROVE  PhaseSettled(p)'
  BY DEF PhasesSettled, PhaseSettled
<1>0. p \notin schedQueue /\ placeWatch[p] = <<>> => PhaseSettled(p)
  BY DEF PhasesSettled, PhaseSettled
<1>1. ASSUME NEW r \in Placements, ReconcilePlacement(r)
      PROVE  PhaseSettled(p)'
  <2>1. PICK q \in SelectLocation(placeSeen[r]) :
           /\ CommitPlacement(r, SetPhase(r, q))
           /\ schedQueue \ {r} \subseteq schedQueue'
    BY <1>1 DEF ReconcilePlacement, ReconciledPlacement
  <2>2. placeSeen[r] \in PlacementObjects
    BY DEF TypeOK
  <2>3. SetPhase(r, q) \in PlacementObjects
    BY <2>2, ReconciledPlacementType
  <2>4. placeWatch[p] = <<>> /\ (p = r => SetPhase(r, q) = placeSeen[p])
    BY <2>1, <2>3, CommittedIsOnItsWay
  <2>5. UNCHANGED <<placeSeen, nsSeen>>
    BY <1>1 DEF ReconcilePlacement, seenVars
  <2>6. CASE p = r
    <3>1. PhaseSettled(p)
      BY <2>2, <2>4, <2>6, SetPhaseIsRight DEF PhaseSettled
    <3> QED BY <2>5, <3>1, PhaseKept
  <2>7. CASE p # r
    BY <1>0, <2>1, <2>4, <2>5, <2>7, PhaseKept
  <2> QED BY <2>6, <2>7
<1>2. ASSUME NEW r \in Placements, ReconcileSyncTarget(r)
      PROVE  PhaseSettled(p)'
  <2>1. placeSeen[r] \in PlacementObjects
    BY DEF TypeOK
  <2>2. ASSUME NEW c \in Conditions
        PROVE  [placeSeen[r] EXCEPT !.sched = c] \in PlacementObjects
    BY <2>1 DEF PlacementObjects
  <2>3. ValidSyncTargets(placeSeen[r]) \subseteq Targets
    BY DEF ValidSyncTargets, TypeOK
  <2>4. placeWatch[p] = <<>>
    <3>1. CASE KeepTarget(r)
      BY <2>2, <3>1, CommittedIsOnItsWay DEF KeepTarget, Conditions
    <3>2. CASE DropTarget(r)
      BY <2>2, <3>2, CommittedIsOnItsWay, PatchedIsOnItsWay DEF DropTarget, Conditions
    <3>3. CASE ChooseTarget(r)
      BY <2>3, <3>3, PatchedIsOnItsWay DEF ChooseTarget
    <3> QED BY <1>2, <3>1, <3>2, <3>3 DEF ReconcileSyncTarget, ReconcileTarget
  <2> QED BY <1>0, <1>2, <2>4, PhaseKept DEF ReconcileSyncTarget, seenVars
<1>3. ASSUME NEW r \in Placements, DeliverPlacement(r)
      PROVE  PhaseSettled(p)'
  <2>1. p # r /\ p \notin schedQueue
    BY <1>3 DEF DeliverPlacement
  <2>2. placeWatch[p] = <<>> /\ placeSeen'[p] = placeSeen[p]
    BY <1>3, <2>1 DEF DeliverPlacement, TypeOK
  <2> QED BY <1>0, <1>3, <2>1, <2>2, PhaseKept DEF DeliverPlacement
<1>4. CASE ReconcileNamespace
  BY <1>0, <1>4, PhaseKept DEF ReconcileNamespace, placeVars, seenVars
<1>5. CASE DeliverNamespace
  <2>1. UNCHANGED <<placeSeen, placeWatch>> /\ nsSeen' = Head(nsWatch)
    BY <1>5 DEF DeliverNamespace, placeVars
  <2>2. SameAnnotations(nsSeen, Head(nsWatch)) /\ p \notin schedQueue
    BY <1>5 DEF DeliverNamespace
  <2>3. nsSeen'.bound = nsSeen.bound /\ nsSeen'.selects = nsSeen.selects
    BY <2>1, <2>2 DEF SameAnnotations, SelectedThroughout
  <2>4. PhaseSettled(p)
    BY <1>0, <2>1, <2>2
  <2> QED BY <2>1, <2>3, <2>4 DEF PhaseSettled
<1>6. ASSUME NEW l \in Locations, DeliverLocation(l)
      PROVE  PhaseSettled(p)'
  BY <1>0, <1>6, PhaseKept DEF DeliverLocation, placeVars
<1>7. CASE DeliverTarget \/ Tick \/ UNCHANGED vars
  BY <1>0, <1>7, PhaseKept DEF DeliverTarget, Tick, vars, placeVars, seenVars
<1>8. CASE Resync
  BY <1>8 DEF Resync
<1>10. ASSUME NEW l \in Locations, NEW s \in LocationStates, LocationChanges(l, s)
       PROVE  PhaseSettled(p)'
  BY <1>0, <1>10, PhaseKept DEF LocationChanges, placeVars, seenVars, queues
<1>11. ASSUME NEW t \in Targets, TargetChanges(t) \/ EvictionDue(t)
       PROVE  PhaseSettled(p)'
  BY <1>0, <1>11, PhaseKept DEF TargetChanges, EvictionDue, placeVars, seenVars, queues
<1>12. ASSUME NEW s \in SUBSET Placements, NamespaceRelabelled(s)
       PROVE  PhaseSettled(p)'
  BY <1>0, <1>12, PhaseKept DEF NamespaceRelabelled, placeVars, seenVars, queues
<1> QED BY <1>1, <1>2, <1>3, <1>4, <1>5, <1>6, <1>7, <1>8, <1>10, <1>11, <1>12
        DEF Next, Controllers, Informers, Environment

(* While nobody changes the labels of the namespace, a placement is bound   *)
(* exactly when the namespace is bound and selected, once every handler has *)
(* run: the scheduling controller (placement_controller.go) queues the      *)
(* placements for every change of the namespace's annotations.  It compares *)
(* nothing else, so that the hypothesis is needed: UnusedIsUnbound fails    *)
(* when labels change.                                                      *)
THEOREM PhasesFollow ==
    ASSUME "relabel" \notin Events
    PROVE  Spec => []PhaseIsRight
<1>1. Init => PhasesSettled /\ SelectedThroughout
  <2> SUFFICES ASSUME Init
               PROVE  PhasesSettled /\ SelectedThroughout
    OBVIOUS
  <2>1. nsWatch = <<>> /\ ns = nsSeen /\ ns.selects = Placements
    BY DEF Init, Start
  <2>2. \A i \in 1 .. Len(nsWatch) : nsWatch[i].selects = Placements
    BY <2>1
  <2>3. PhasesSettled
    BY DEF Init, Start, PhasesSettled
  <2> QED BY <2>1, <2>2, <2>3 DEF SelectedThroughout
<1>2. Spec => []SelectedThroughout
  <2>1. TypeOK /\ SelectedThroughout /\ [Next]_vars => SelectedThroughout'
    BY SelectedStep
  <2> QED BY <1>1, <2>1, TypeCorrect, PTL DEF Spec
<1>3. Spec => []PhasesSettled
  BY <1>1, <1>2, TypeCorrect, PlacementCacheIsHonest, PhasesSettledStep, PTL DEF Spec
<1>4. ASSUME PlacementCacheCatchesUp, NamespaceCacheCatchesUp, PhasesSettled
      PROVE  PhaseIsRight
  <2> SUFFICES ASSUME Quiet, NEW p \in Placements, placement[p].phase # "Pending"
               PROVE  placement[p].phase = "Bound" <=> ns.bound /\ p \in ns.selects
    BY DEF PhaseIsRight
  <2>1. /\ placeSeen[p] = placement[p] /\ placeWatch[p] = <<>> /\ p \notin schedQueue
        /\ nsSeen = ns
    BY <1>4, QuietIsSeen DEF Quiet
  <2> QED BY <1>4, <2>1 DEF PhasesSettled
<1> QED BY <1>3, <1>4, PlacementCacheIsHonest, CacheIsHonest, PTL
=============================================================================
