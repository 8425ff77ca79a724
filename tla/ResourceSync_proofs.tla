------------------------ MODULE ResourceSync_proofs ------------------------
(***************************************************************************)
(* Theorems about ResourceSync, for any set of sync targets, any bounds    *)
(* and any environment.                                                    *)
(*                                                                         *)
(* The last part is about an object's only stay on its targets (OneStay):  *)
(* it is created once, its namespace is labelled with a target once, and   *)
(* nobody but the syncer deletes it from a cluster.  In a second stay a    *)
(* copy that a worker kept from the first may be applied; what is proved   *)
(* before the last part holds there too.                                   *)
(***************************************************************************)
EXTENDS ResourceSync, SequenceTheorems, TLAPS

-----------------------------------------------------------------------------
(* Type correctness *)

(* Gone is an object, and every object has views and a finalized form.      *)
LEMMA ValueTypes ==
    /\ Gone \in Objects
    /\ \A o \in Objects, t \in Targets : ViewOf(o, t) \in Views \cup {NoView}
    /\ \A o \in Objects : Finalized(o) \in Objects
<1>1. Gone \in Objects
  BY NatBounds DEF Gone, Objects, Specs
<1>2. \A o \in Objects, t \in Targets : ViewOf(o, t) \in Views \cup {NoView}
  BY DEF ViewOf, Selected, AfterRead, Objects, Views
<1>3. \A o \in Objects : Finalized(o) \in Objects
  BY <1>1 DEF Finalized
<1> QED BY <1>1, <1>2, <1>3

(* A write of a well-typed object keeps the types of what it changes.       *)
LEMMA WriteType ==
    ASSUME TypeOK, NEW o \in Objects, Write(o)
    PROVE  /\ upstream' \in Objects
           /\ watch' \in [Targets -> Seq(Views \cup {NoView})]
           /\ toReconcile' \in BOOLEAN
           /\ fresh' \subseteq Targets \X Controllers
<1> DEFINE new == Finalized(o)
<1>1. new \in Objects
  BY ValueTypes
<1>2. upstream' = new
  BY DEF Write
<1>3. ASSUME NEW t \in Targets
      PROVE  Append(watch[t], ViewOf(new, t)) \in Seq(Views \cup {NoView})
  <2>1. watch[t] \in Seq(Views \cup {NoView})
    BY DEF TypeOK
  <2>2. ViewOf(new, t) \in Views \cup {NoView}
    BY <1>1, ValueTypes
  <2> QED BY <2>1, <2>2
<1>4. watch' \in [Targets -> Seq(Views \cup {NoView})]
  <2>1. watch' = [t \in Targets |->
                    IF Selected(upstream, t) \/ Selected(new, t)
                    THEN Append(watch[t], ViewOf(new, t)) ELSE watch[t]]
    BY DEF Write
  <2>2. ASSUME NEW t \in Targets
        PROVE  (IF Selected(upstream, t) \/ Selected(new, t)
                THEN Append(watch[t], ViewOf(new, t)) ELSE watch[t])
               \in Seq(Views \cup {NoView})
    BY <1>3 DEF TypeOK
  <2> HIDE DEF new
  <2> QED BY <2>1, <2>2
<1>5. toReconcile' \in BOOLEAN /\ fresh' \subseteq Targets \X Controllers
  BY DEF Write
<1> QED BY <1>1, <1>2, <1>4, <1>5

(* What the resource controller computes is an object.                      *)
LEMMA ReconciledType ==
    ASSUME TypeOK
    PROVE  Reconciled(upstream, nsSeen) \in Objects
<1>1. PropagateDeletionTimestamp(upstream) \in Objects
  BY DEF PropagateDeletionTimestamp, TypeOK, Objects
<1>2. ComputePlacement(upstream, nsSeen) \in Objects
  BY DEF ComputePlacement, TypeOK, Objects, NsStates
<1> QED BY <1>1, <1>2 DEF Reconciled, Objects

(* The bookkeeping of the workers keeps its types.                          *)
LEMMA GotoType ==
    ASSUME TypeOK, NEW t \in Targets, NEW c \in Controllers,
           NEW s \in Steps, NEW v \in Views \cup {NoView}, Goto(t, c, s, v)
    PROVE  /\ step' \in [Targets -> [Controllers -> Steps]]
           /\ copy' \in [Targets -> [Controllers -> Views \cup {NoView}]]
           /\ fresh' \subseteq Targets \X Controllers
BY DEF TypeOK, Goto

LEMMA FinishType ==
    ASSUME TypeOK, NEW t \in Targets, NEW c \in Controllers, Finish(t, c)
    PROVE  /\ step' \in [Targets -> [Controllers -> Steps]]
           /\ copy' \in [Targets -> [Controllers -> Views \cup {NoView}]]
BY DEF TypeOK, Finish, Steps

LEMMA DoneType ==
    ASSUME TypeOK, NEW t \in Targets, NEW c \in Controllers, Done(t, c)
    PROVE  /\ step' \in [Targets -> [Controllers -> Steps]]
           /\ copy' \in [Targets -> [Controllers -> Views \cup {NoView}]]
           /\ fresh' \subseteq Targets \X Controllers
BY FinishType DEF TypeOK, Done

(* Every step keeps the types.                                              *)
LEMMA TypeStep ==
    ASSUME TypeOK, WorkersHoldCopies, [Next]_vars
    PROVE  TypeOK'
<1> DEFINE ViewSet == Views \cup {NoView}
<1>1. CASE ReconcileResource
  <2>1. CASE Write(Reconciled(upstream, nsSeen))
    BY <1>1, <2>1, ReconciledType, WriteType
       DEF TypeOK, ReconcileResource, nsVars, downVars, workVars
  <2>2. CASE toReconcile' = FALSE /\ UNCHANGED <<upstream, watch, fresh>>
    BY <1>1, <2>2 DEF TypeOK, ReconcileResource, nsVars, downVars, workVars
  <2> QED BY <1>1, <2>1, <2>2 DEF ReconcileResource
<1>2. CASE EnqueueNamespace
  BY <1>2 DEF TypeOK, EnqueueNamespace, nsVars, downVars, workVars
<1>3. ASSUME NEW t \in Targets, DeliverUpstream(t)
      PROVE  TypeOK'
  <2>1. Head(watch[t]) \in ViewSet /\ Tail(watch[t]) \in Seq(ViewSet)
    BY <1>3 DEF TypeOK, DeliverUpstream
  <2>2. cached' \in [Targets -> ViewSet] /\ watch' \in [Targets -> Seq(ViewSet)]
    BY <1>3, <2>1 DEF TypeOK, DeliverUpstream
  <2>3. queue' \in [Targets -> SUBSET Controllers]
    BY <1>3 DEF TypeOK, DeliverUpstream, Controllers, SpecSyncers
  <2> QED BY <1>3, <2>2, <2>3 DEF TypeOK, DeliverUpstream, nsVars, downVars, workVars
<1>4. ASSUME NEW t \in Targets, DeliverDownstream(t)
      PROVE  TypeOK'
  <2>1. downWatch' \in [Targets -> Seq(DownEvents)]
    BY <1>4 DEF TypeOK, DeliverDownstream
  <2>2. downSeen' \in [Targets -> BOOLEAN]
    BY <1>4 DEF TypeOK, DeliverDownstream
  <2>3. queue' \in [Targets -> SUBSET Controllers]
    BY <1>4 DEF TypeOK, DeliverDownstream, Controllers, SpecSyncers
  <2> QED BY <1>4, <2>1, <2>2, <2>3
          DEF TypeOK, DeliverDownstream, nsVars, upVars, workVars
<1>5. ASSUME NEW t \in Targets, NEW c \in Controllers, SpecProcess(t, c)
      PROVE  TypeOK'
  <2>1. SpecStep(cached[t], t) \in Steps
    BY DEF SpecStep, Steps
  <2>2. Goto(t, c, SpecStep(cached[t], t), cached[t]) /\ cached[t] \in ViewSet
    BY <1>5 DEF SpecProcess, TypeOK
  <2>3. /\ step' \in [Targets -> [Controllers -> Steps]]
        /\ copy' \in [Targets -> [Controllers -> ViewSet]]
        /\ fresh' \subseteq Targets \X Controllers
    BY <2>1, <2>2, GotoType
  <2>4. queue' \in [Targets -> SUBSET Controllers]
    BY <1>5 DEF TypeOK, SpecProcess, Dequeue
  <2> QED BY <1>5, <2>3, <2>4 DEF TypeOK, SpecProcess, nsVars, downVars
<1>6. ASSUME NEW t \in Targets, NEW c \in Controllers, Failed(t, c),
             UNCHANGED <<nsVars, live, cached, downVars, downSeen>>, events' \in Nat
      PROVE  TypeOK'
  <2>1. queue' \in [Targets -> SUBSET Controllers]
    BY <1>6 DEF TypeOK, Failed
  <2> QED BY <1>6, <2>1, DoneType DEF TypeOK, Failed, nsVars, downVars
<1>7. ASSUME NEW t \in Targets, NEW c \in Controllers, NEW o \in Objects,
             Write(o), Finish(t, c), UNCHANGED queue,
             UNCHANGED <<nsVars, live, cached, downVars, downSeen, events>>
      PROVE  TypeOK'
  BY <1>7, WriteType, FinishType DEF TypeOK, nsVars, downVars
<1>8. ASSUME NEW t \in Targets, NEW c \in Controllers, EnsureSyncerFinalizer(t, c)
      PROVE  TypeOK'
  <2>1. [upstream EXCEPT !.fin = @ \cup {t}] \in Objects
    BY DEF TypeOK, Objects
  <2> QED BY <1>6, <1>7, <1>8, <2>1 DEF EnsureSyncerFinalizer, TypeOK
<1>9. ASSUME NEW t \in Targets, NEW c \in Controllers, ApplyToDownstream(t, c)
      PROVE  TypeOK'
  <2>1. copy[t][c].spec \in Specs
    <3>1. copy[t][c] \in Views
      BY <1>9 DEF TypeOK, WorkersHoldCopies, ApplyToDownstream, At
    <3> QED BY <3>1 DEF Views
  <2>2. [st |-> IF down[t].st = "absent" THEN "present" ELSE down[t].st,
         spec |-> copy[t][c].spec] \in DownStates
    BY <2>1 DEF TypeOK, DownStates
  <2>3. down' \in [Targets -> DownStates]
    BY <1>9, <2>2 DEF TypeOK, ApplyToDownstream
  <2>4. downWatch' \in [Targets -> Seq(DownEvents)]
    BY <1>9 DEF TypeOK, ApplyToDownstream, DownEvents
  <2> QED BY <1>9, <2>3, <2>4, DoneType DEF TypeOK, ApplyToDownstream, nsVars
<1>10. ASSUME NEW t \in Targets, Deleted(t)
       PROVE  down' \in [Targets -> DownStates]
  BY <1>10 DEF TypeOK, Deleted, DownStates
<1>11. ASSUME NEW t \in Targets, NEW c \in Controllers, DeleteFromDownstream(t, c)
       PROVE  TypeOK'
  <2>1. /\ step' \in [Targets -> [Controllers -> Steps]]
        /\ copy' \in [Targets -> [Controllers -> ViewSet]]
        /\ fresh' \subseteq Targets \X Controllers
    <3>1. CASE Done(t, c)
      BY <3>1, DoneType
    <3>2. CASE step' = [step EXCEPT ![t][c] = "release"] /\ UNCHANGED <<copy, fresh>>
      BY <3>2 DEF TypeOK, Steps
    <3> QED BY <1>11, <3>1, <3>2 DEF DeleteFromDownstream
  <2> QED BY <1>10, <1>11, <2>1 DEF TypeOK, DeleteFromDownstream, nsVars
<1>12. ASSUME NEW t \in Targets, NEW c \in Controllers, DeleteOrphan(t, c)
       PROVE  TypeOK'
  BY <1>10, <1>12, DoneType DEF TypeOK, DeleteOrphan, nsVars
<1>13. ASSUME NEW t \in Targets, NEW c \in Controllers,
              EnsureUpstreamFinalizerRemoved(t, c)
       PROVE  TypeOK'
  <2>1. /\ step' \in [Targets -> [Controllers -> Steps]]
        /\ copy' \in [Targets -> [Controllers -> ViewSet]]
        /\ fresh' \subseteq Targets \X Controllers
    <3>1. "unclaim" \in Steps /\ cached[t] \in ViewSet
      BY DEF Steps, TypeOK
    <3> QED BY <1>13, <3>1, GotoType, DoneType DEF EnsureUpstreamFinalizerRemoved
  <2> QED BY <1>13, <2>1 DEF TypeOK, EnsureUpstreamFinalizerRemoved, nsVars, downVars
<1>14. ASSUME NEW t \in Targets, NEW c \in Controllers, RemoveUpstreamFinalizer(t, c)
       PROVE  TypeOK'
  <2>1. RemovedFromSyncer(upstream, t) \in Objects
    BY DEF RemovedFromSyncer, TypeOK, Objects
  <2> QED BY <1>6, <1>7, <1>14, <2>1 DEF RemoveUpstreamFinalizer, TypeOK
<1>15. ASSUME NEW t \in Targets, StatusProcess(t)
       PROVE  TypeOK'
  <2>1. "status" \in Controllers
    BY DEF Controllers
  <2>2. (IF downSeen[t] THEN "report" ELSE "release") \in Steps
    BY DEF Steps
  <2>3. cached[t] \in ViewSet
    BY DEF TypeOK
  <2>4. /\ step' \in [Targets -> [Controllers -> Steps]]
        /\ copy' \in [Targets -> [Controllers -> ViewSet]]
        /\ fresh' \subseteq Targets \X Controllers
    BY <1>15, <2>1, <2>2, <2>3, GotoType DEF StatusProcess
  <2>5. queue' \in [Targets -> SUBSET Controllers]
    BY <1>15 DEF TypeOK, StatusProcess, Dequeue
  <2> QED BY <1>15, <2>4, <2>5 DEF TypeOK, StatusProcess, nsVars, downVars
<1>16. ASSUME NEW t \in Targets, UpdateStatusInUpstream(t)
       PROVE  TypeOK'
  <2>1. "status" \in Controllers
    BY DEF Controllers
  <2>2. CASE Done(t, "status") /\ UNCHANGED <<queue, upstream, watch, toReconcile>>
    BY <1>16, <2>1, <2>2, DoneType DEF TypeOK, UpdateStatusInUpstream, nsVars, downVars
  <2>3. CASE Write(upstream) /\ Finish(t, "status") /\ UNCHANGED queue
    <3>1. upstream \in Objects
      BY DEF TypeOK
    <3> QED BY <1>7, <1>16, <2>1, <2>3, <3>1 DEF UpdateStatusInUpstream
  <2>4. CASE Failed(t, "status")
    BY <1>6, <1>16, <2>1, <2>4 DEF UpdateStatusInUpstream, TypeOK
  <2> QED BY <1>16, <2>2, <2>3, <2>4 DEF UpdateStatusInUpstream
<1>17. ASSUME NEW o \in Objects, Write(o), events' \in Nat,
              UNCHANGED <<nsVars, live, cached, downVars, downSeen, queue, workVars>>
       PROVE  TypeOK'
  BY <1>17, WriteType DEF TypeOK, nsVars, downVars, workVars
<1>18. \A kind : Event(kind) => events' \in Nat
  BY DEF Event, TypeOK
<1>19. CASE UserCreates
  <2>1. [Gone EXCEPT !.exists = TRUE] \in Objects
    BY ValueTypes DEF Objects
  <2> QED BY <1>17, <1>18, <1>19, <2>1 DEF UserCreates
<1>20. CASE UserDeletes
  <2>1. [upstream EXCEPT !.deleting = TRUE] \in Objects
    BY DEF TypeOK, Objects
  <2> QED BY <1>17, <1>18, <1>20, <2>1 DEF UserDeletes
<1>21. CASE UserEdits
  <2>1. upstream.spec + 1 \in Specs
    BY <1>21, NatBounds DEF TypeOK, Objects, Specs, UserEdits
  <2>2. [upstream EXCEPT !.spec = @ + 1] \in Objects
    BY <2>1 DEF TypeOK, Objects
  <2> QED BY <1>17, <1>18, <1>21, <2>2 DEF UserEdits
<1>22. ASSUME NEW t \in Targets, SetSoftFinalizer(t)
       PROVE  TypeOK'
  <2>1. [upstream EXCEPT !.soft = @ \cup {t}] \in Objects
    BY DEF TypeOK, Objects
  <2> QED BY <1>17, <1>18, <1>22, <2>1 DEF SetSoftFinalizer
<1>23. ASSUME NEW t \in Targets, ClearSoftFinalizer(t)
       PROVE  TypeOK'
  <2>1. [upstream EXCEPT !.soft = @ \ {t}] \in Objects
    BY DEF TypeOK, Objects
  <2>2. events' \in Nat
    BY <1>23 DEF TypeOK, ClearSoftFinalizer
  <2> QED BY <1>17, <1>23, <2>1, <2>2 DEF ClearSoftFinalizer
<1>24. ASSUME NEW n \in NsStates, NamespaceChanges(n), events' \in Nat
       PROVE  TypeOK'
  BY <1>24 DEF TypeOK, NamespaceChanges, upVars, downVars, workVars
<1>25. ASSUME NEW t \in Targets,
              ScheduleNamespace(t) \/ UnscheduleNamespace(t) \/ ExpireNamespace(t)
       PROVE  TypeOK'
  <2>1. /\ [ns EXCEPT !.label = @ \cup {t}] \in NsStates
        /\ [ns EXCEPT !.del = @ \cup {t}] \in NsStates
        /\ [label |-> ns.label \ {t}, del |-> ns.del \ {t}] \in NsStates
    BY DEF TypeOK, NsStates
  <2> QED BY <1>18, <1>24, <1>25, <2>1
          DEF ScheduleNamespace, UnscheduleNamespace, ExpireNamespace
<1>26. ASSUME NEW t \in Targets, DownstreamUserDeletes(t)
       PROVE  TypeOK'
  BY <1>10, <1>18, <1>26 DEF TypeOK, DownstreamUserDeletes, upVars, nsVars, workVars
<1>27. ASSUME NEW t \in Targets, DownstreamGone(t)
       PROVE  TypeOK'
  <2>1. down' \in [Targets -> DownStates]
    BY <1>27, NatBounds DEF TypeOK, DownstreamGone, DownStates, Specs
  <2>2. downWatch' \in [Targets -> Seq(DownEvents)]
    BY <1>27 DEF TypeOK, DownstreamGone, DownEvents
  <2> QED BY <1>27, <2>1, <2>2 DEF TypeOK, DownstreamGone, upVars, nsVars, workVars
<1>28. ASSUME NEW t \in Targets, SyncerRestarts(t)
       PROVE  TypeOK'
  <2>1. cached' \in [Targets -> ViewSet] /\ watch' \in [Targets -> Seq(ViewSet)]
    <3>1. ViewOf(upstream, t) \in ViewSet
      BY ValueTypes DEF TypeOK
    <3> QED BY <1>28, <3>1 DEF TypeOK, SyncerRestarts
  <2>2. downSeen' \in [Targets -> BOOLEAN] /\ downWatch' \in [Targets -> Seq(DownEvents)]
    BY <1>28 DEF TypeOK, SyncerRestarts
  <2>3. queue' \in [Targets -> SUBSET Controllers]
    BY <1>28 DEF TypeOK, SyncerRestarts, Controllers, SpecSyncers
  <2>4. /\ step' \in [Targets -> [Controllers -> Steps]]
        /\ copy' \in [Targets -> [Controllers -> ViewSet]]
    BY <1>28 DEF TypeOK, SyncerRestarts, Steps
  <2>5. fresh' \subseteq Targets \X Controllers
    BY <1>28 DEF TypeOK, SyncerRestarts
  <2> QED BY <1>18, <1>28, <2>1, <2>2, <2>3, <2>4, <2>5 DEF TypeOK, SyncerRestarts, nsVars
<1>29. ASSUME NEW t \in Targets, SyncTargetRemoved(t)
       PROVE  TypeOK'
  BY <1>18, <1>29 DEF TypeOK, SyncTargetRemoved, nsVars, downVars, workVars
<1>30. ASSUME NEW t \in Targets, NEW c \in Controllers, RequestFails(t, c)
       PROVE  TypeOK'
  BY <1>6, <1>18, <1>30 DEF RequestFails
<1>31. CASE UNCHANGED vars
  BY <1>31 DEF TypeOK, vars
<1> QED
  BY <1>1, <1>2, <1>3, <1>4, <1>5, <1>8, <1>9, <1>11, <1>12, <1>13, <1>14, <1>15,
     <1>16, <1>19, <1>20, <1>21, <1>22, <1>23, <1>25, <1>26, <1>27, <1>28, <1>29,
     <1>30, <1>31
  DEF Next, Server, Informers, StatusSyncer, Syncer, Environment

(* A worker that writes has read a copy: the bookkeeping keeps it so.       *)
LEMMA HoldStep ==
    ASSUME TypeOK, WorkersHoldCopies, [Next]_vars
    PROVE  WorkersHoldCopies'
<1>1. ASSUME NEW t \in Targets, NEW c \in Controllers, Finish(t, c)
      PROVE  WorkersHoldCopies'
  BY <1>1 DEF TypeOK, WorkersHoldCopies, Finish
<1>2. ASSUME UNCHANGED <<step, copy>>
      PROVE  WorkersHoldCopies'
  BY <1>2 DEF WorkersHoldCopies
<1>3. ASSUME NEW t \in Targets, NEW c \in Controllers, NEW s \in Steps, NEW v,
             Goto(t, c, s, v),
             s \in {"claim", "apply", "unclaim"} => v # NoView,
             s = "claim" => ~v.fin
      PROVE  WorkersHoldCopies'
  BY <1>3 DEF TypeOK, WorkersHoldCopies, Goto
<1>4. ASSUME NEW t \in Targets, NEW c \in Controllers, SpecProcess(t, c)
      PROVE  WorkersHoldCopies'
  <2>1. SpecStep(cached[t], t) \in Steps
    BY DEF SpecStep, Steps
  <2>2. SpecStep(cached[t], t) \in {"claim", "apply", "unclaim"} => cached[t] # NoView
    BY DEF SpecStep
  <2>3. SpecStep(cached[t], t) = "claim" => ~cached[t].fin
    BY DEF SpecStep
  <2> QED BY <1>3, <1>4, <2>1, <2>2, <2>3 DEF SpecProcess
<1>5. ASSUME NEW t \in Targets, NEW c \in Controllers, DeleteFromDownstream(t, c)
      PROVE  WorkersHoldCopies'
  <2>1. CASE step' = [step EXCEPT ![t][c] = "release"] /\ UNCHANGED <<copy, fresh>>
    BY <2>1 DEF TypeOK, WorkersHoldCopies
  <2> QED BY <1>1, <1>5, <2>1 DEF DeleteFromDownstream, Done
<1>6. ASSUME NEW t \in Targets, NEW c \in Controllers,
             EnsureUpstreamFinalizerRemoved(t, c)
      PROVE  WorkersHoldCopies'
  <2>1. "unclaim" \in Steps
    BY DEF Steps
  <2> QED BY <1>1, <1>3, <1>6, <2>1 DEF EnsureUpstreamFinalizerRemoved, Done
<1>7. ASSUME NEW t \in Targets, StatusSyncer(t)
      PROVE  WorkersHoldCopies'
  <2>1. "status" \in Controllers /\ "report" \in Steps /\ "release" \in Steps
    BY DEF Controllers, Steps
  <2>2. CASE StatusProcess(t)
    BY <1>3, <2>1, <2>2 DEF StatusProcess
  <2>3. CASE UpdateStatusInUpstream(t)
    BY <1>1, <2>1, <2>3 DEF UpdateStatusInUpstream, Done, Failed
  <2> QED BY <1>7, <2>2, <2>3 DEF StatusSyncer
<1>8. ASSUME NEW t \in Targets, NEW c \in Controllers, Syncer(t, c)
      PROVE  WorkersHoldCopies'
  BY <1>1, <1>4, <1>5, <1>6, <1>8
     DEF Syncer, EnsureSyncerFinalizer, ApplyToDownstream, DeleteOrphan,
         RemoveUpstreamFinalizer, Done, Failed
<1>9. ASSUME NEW t \in Targets, SyncerRestarts(t)
      PROVE  WorkersHoldCopies'
  BY <1>9 DEF TypeOK, WorkersHoldCopies, SyncerRestarts
<1>10. CASE Environment
  BY <1>1, <1>2, <1>9, <1>10
     DEF Environment, RequestFails, Failed, Done, UserCreates, UserDeletes, UserEdits, SetSoftFinalizer,
         ClearSoftFinalizer, ScheduleNamespace, UnscheduleNamespace, ExpireNamespace,
         NamespaceChanges, DownstreamUserDeletes, DownstreamGone, SyncTargetRemoved,
         workVars
<1>11. CASE Server \/ (\E t \in Targets : Informers(t)) \/ UNCHANGED vars
  BY <1>2, <1>11
     DEF Server, Informers, ReconcileResource, EnqueueNamespace, DeliverUpstream,
         DeliverDownstream, workVars, vars
<1> QED BY <1>7, <1>8, <1>10, <1>11 DEF Next

-----------------------------------------------------------------------------
(* The cache of a syncer, and the copies its workers hold *)

(* After a write the watch of every syncer ends with the new object.        *)
LEMMA WriteCatchesUp ==
    ASSUME TypeOK, CacheCatchesUp, NEW o \in Objects, Write(o), UNCHANGED cached
    PROVE  CacheCatchesUp' /\ fresh' = {}
<1> DEFINE new == Finalized(o)
<1>1. upstream' = new /\ fresh' = {}
  BY DEF Write
<1> SUFFICES ASSUME NEW t \in Targets
             PROVE  ViewOf(new, t) = IF watch'[t] = <<>> THEN cached[t]
                                     ELSE watch'[t][Len(watch'[t])]
  BY <1>1 DEF CacheCatchesUp
<1>2. watch[t] \in Seq(Views \cup {NoView}) /\ ViewOf(new, t) \in Views \cup {NoView}
  BY ValueTypes DEF TypeOK
<1> HIDE DEF new
<1>3. CASE Selected(upstream, t) \/ Selected(new, t)
  <2>1. watch'[t] = Append(watch[t], ViewOf(new, t))
    BY <1>3 DEF Write, new
  <2> QED BY <1>2, <2>1
<1>4. CASE ~(Selected(upstream, t) \/ Selected(new, t))
  <2>1. watch'[t] = watch[t]
    BY <1>4 DEF Write, new
  <2>2. ViewOf(new, t) = NoView /\ ViewOf(upstream, t) = NoView
    BY <1>4 DEF ViewOf
  <2> QED BY <2>1, <2>2 DEF CacheCatchesUp
<1> QED BY <1>3, <1>4

(* Taking the first element off a sequence leaves its last one in place.    *)
LEMMA TailLast ==
    ASSUME NEW S, NEW s \in Seq(S), s # <<>>
    PROVE  s[Len(s)] = IF Tail(s) = <<>> THEN Head(s) ELSE Tail(s)[Len(Tail(s))]
<1>1. PICK r \in Seq(S) : /\ r = Tail(s)
                          /\ Len(r) = Len(s) - 1
                          /\ \A i \in 1 .. Len(r) : r[i] = s[i + 1]
  BY HeadTailProperties
<1>2. Len(r) = Len(s) - 1
  BY <1>1
<1>3. \A i \in 1 .. Len(r) : r[i] = s[i + 1]
  BY <1>1
<1>4. Len(s) \in Nat
  BY LenProperties
<1>5. CASE r = <<>>
  <2>1. Len(s) = 1
    BY <1>2, <1>4, <1>5
  <2> QED BY <1>1, <1>5, <2>1
<1>6. CASE r # <<>>
  <2>1. Len(r) \in Nat /\ Len(r) # 0
    BY <1>6, EmptySeq
  <2>2. Len(r) \in 1 .. Len(r) /\ Len(r) + 1 = Len(s)
    BY <1>2, <1>4, <2>1
  <2>3. r[Len(r)] = s[Len(s)]
    BY <1>3, <2>2
  <2> QED BY <1>1, <1>6, <2>3
<1> QED BY <1>5, <1>6

(* Every step lets the caches catch up.                                     *)
LEMMA CacheStep ==
    ASSUME TypeOK, WorkersHoldCopies, CacheCatchesUp, FreshCopiesAreCurrent, [Next]_vars
    PROVE  CacheCatchesUp' /\ FreshCopiesAreCurrent'
<1>1. ASSUME NEW o \in Objects, Write(o), UNCHANGED cached
      PROVE  CacheCatchesUp' /\ FreshCopiesAreCurrent'
  BY <1>1, WriteCatchesUp DEF FreshCopiesAreCurrent
<1>2. ASSUME UNCHANGED <<upstream, watch, cached>>, fresh' \subseteq fresh,
             \A x \in fresh' : copy'[x[1]][x[2]] = copy[x[1]][x[2]]
      PROVE  CacheCatchesUp' /\ FreshCopiesAreCurrent'
  BY <1>2 DEF CacheCatchesUp, FreshCopiesAreCurrent
<1>3. ASSUME NEW t \in Targets, NEW c \in Controllers, NEW s,
             Goto(t, c, s, cached[t]), UNCHANGED <<upstream, watch, cached>>
      PROVE  CacheCatchesUp' /\ FreshCopiesAreCurrent'
  BY <1>3 DEF CacheCatchesUp, FreshCopiesAreCurrent, Goto, TypeOK
<1>4. ASSUME NEW t \in Targets, NEW c \in Controllers, Done(t, c),
             UNCHANGED <<upstream, watch, cached>>
      PROVE  CacheCatchesUp' /\ FreshCopiesAreCurrent'
  BY <1>4 DEF CacheCatchesUp, FreshCopiesAreCurrent, Done, Finish, TypeOK
<1>5. ASSUME NEW t \in Targets, DeliverUpstream(t)
      PROVE  CacheCatchesUp' /\ FreshCopiesAreCurrent'
  <2>1. watch[t] \in Seq(Views \cup {NoView}) /\ watch[t] # <<>>
    BY <1>5 DEF TypeOK, DeliverUpstream
  <2>2. /\ watch' = [watch EXCEPT ![t] = Tail(@)]
        /\ cached' = [cached EXCEPT ![t] = Head(watch[t])]
        /\ UNCHANGED <<upstream, fresh, copy>>
    BY <1>5 DEF DeliverUpstream, workVars
  <2>3. CacheCatchesUp'
    <3> SUFFICES ASSUME NEW u \in Targets
                 PROVE  ViewOf(upstream, u) = IF watch'[u] = <<>> THEN cached'[u]
                                              ELSE watch'[u][Len(watch'[u])]
      BY <2>2 DEF CacheCatchesUp
    <3>1. CASE u # t
      BY <2>2, <3>1 DEF CacheCatchesUp, TypeOK
    <3>2. CASE u = t
      <4>1. ViewOf(upstream, t) = watch[t][Len(watch[t])]
        BY <2>1 DEF CacheCatchesUp
      <4>2. watch'[t] = Tail(watch[t]) /\ cached'[t] = Head(watch[t])
        BY <2>2 DEF TypeOK
      <4> QED BY <2>1, <3>2, <4>1, <4>2, TailLast
    <3> QED BY <3>1, <3>2
  <2>4. FreshCopiesAreCurrent'
    BY <2>1, <2>2 DEF FreshCopiesAreCurrent, TypeOK
  <2> QED BY <2>3, <2>4
<1>6. ASSUME NEW t \in Targets, SyncerRestarts(t)
      PROVE  CacheCatchesUp' /\ FreshCopiesAreCurrent'
  <2>1. CacheCatchesUp'
    BY <1>6 DEF CacheCatchesUp, SyncerRestarts, TypeOK
  <2>2. FreshCopiesAreCurrent'
    <3> SUFFICES ASSUME NEW u \in Targets, NEW c \in Controllers, <<u, c>> \in fresh'
                 PROVE  watch'[u] = <<>> /\ copy'[u][c] = ViewOf(upstream, u)
      BY <1>6 DEF FreshCopiesAreCurrent, SyncerRestarts
    <3>1. u # t /\ <<u, c>> \in fresh
      BY <1>6 DEF SyncerRestarts
    <3>2. watch'[u] = watch[u] /\ copy'[u] = copy[u]
      BY <1>6, <3>1 DEF SyncerRestarts, TypeOK
    <3> QED BY <3>1, <3>2 DEF FreshCopiesAreCurrent
  <2> QED BY <2>1, <2>2
<1>7. CASE Server
  <2>1. Reconciled(upstream, nsSeen) \in Objects
    BY ReconciledType
  <2> QED BY <1>1, <1>2, <1>7, <2>1
          DEF Server, ReconcileResource, EnqueueNamespace, workVars
<1>8. ASSUME NEW t \in Targets, DeliverDownstream(t)
      PROVE  CacheCatchesUp' /\ FreshCopiesAreCurrent'
  BY <1>2, <1>8 DEF DeliverDownstream, upVars, workVars
<1>9. ASSUME NEW t \in Targets, NEW c \in Controllers, Syncer(t, c)
      PROVE  CacheCatchesUp' /\ FreshCopiesAreCurrent'
  <2>1. /\ [upstream EXCEPT !.fin = @ \cup {t}] \in Objects
        /\ RemovedFromSyncer(upstream, t) \in Objects
    BY DEF TypeOK, Objects, RemovedFromSyncer
  <2>2. CASE SpecProcess(t, c)
    BY <1>3, <2>2 DEF SpecProcess
  <2>3. CASE EnsureSyncerFinalizer(t, c) \/ RemoveUpstreamFinalizer(t, c)
    BY <1>1, <1>4, <2>1, <2>3 DEF EnsureSyncerFinalizer, RemoveUpstreamFinalizer, Failed
  <2>4. CASE ApplyToDownstream(t, c) \/ DeleteOrphan(t, c)
    BY <1>4, <2>4 DEF ApplyToDownstream, DeleteOrphan
  <2>5. CASE DeleteFromDownstream(t, c)
    BY <1>2, <1>4, <2>5 DEF DeleteFromDownstream
  <2>6. CASE EnsureUpstreamFinalizerRemoved(t, c)
    BY <1>3, <1>4, <2>6 DEF EnsureUpstreamFinalizerRemoved
  <2> QED BY <1>9, <2>2, <2>3, <2>4, <2>5, <2>6 DEF Syncer
<1>10. ASSUME NEW t \in Targets, StatusSyncer(t)
       PROVE  CacheCatchesUp' /\ FreshCopiesAreCurrent'
  <2>1. "status" \in Controllers /\ upstream \in Objects
    BY DEF Controllers, TypeOK
  <2>2. CASE StatusProcess(t)
    BY <1>3, <2>1, <2>2 DEF StatusProcess
  <2>3. CASE UpdateStatusInUpstream(t)
    BY <1>1, <1>4, <2>1, <2>3 DEF UpdateStatusInUpstream, Failed
  <2> QED BY <1>10, <2>2, <2>3 DEF StatusSyncer
<1>11. CASE UserCreates \/ UserDeletes \/ UserEdits
  <2>1. [Gone EXCEPT !.exists = TRUE] \in Objects
    BY ValueTypes DEF Objects
  <2>2. [upstream EXCEPT !.deleting = TRUE] \in Objects
    BY DEF TypeOK, Objects
  <2>3. CASE UserEdits
    <3>1. upstream.spec + 1 \in Specs
      BY <2>3, NatBounds DEF TypeOK, Objects, Specs, UserEdits
    <3>2. [upstream EXCEPT !.spec = @ + 1] \in Objects
      BY <3>1 DEF TypeOK, Objects
    <3> QED BY <1>1, <2>3, <3>2 DEF UserEdits
  <2> QED BY <1>1, <1>11, <2>1, <2>2, <2>3 DEF UserCreates, UserDeletes
<1>12. ASSUME NEW t \in Targets, SetSoftFinalizer(t) \/ ClearSoftFinalizer(t)
       PROVE  CacheCatchesUp' /\ FreshCopiesAreCurrent'
  <2>1. /\ [upstream EXCEPT !.soft = @ \cup {t}] \in Objects
        /\ [upstream EXCEPT !.soft = @ \ {t}] \in Objects
    BY DEF TypeOK, Objects
  <2> QED BY <1>1, <1>12, <2>1 DEF SetSoftFinalizer, ClearSoftFinalizer
<1>13. ASSUME NEW t \in Targets,
              \/ ScheduleNamespace(t) \/ UnscheduleNamespace(t) \/ ExpireNamespace(t)
              \/ DownstreamUserDeletes(t) \/ DownstreamGone(t) \/ SyncTargetRemoved(t)
       PROVE  CacheCatchesUp' /\ FreshCopiesAreCurrent'
  BY <1>2, <1>13
     DEF ScheduleNamespace, UnscheduleNamespace, ExpireNamespace, NamespaceChanges,
         DownstreamUserDeletes, DownstreamGone, SyncTargetRemoved, upVars, workVars
<1>14. ASSUME NEW t \in Targets, NEW c \in Controllers, RequestFails(t, c)
       PROVE  CacheCatchesUp' /\ FreshCopiesAreCurrent'
  BY <1>4, <1>14 DEF RequestFails, Failed
<1>15. CASE UNCHANGED vars
  BY <1>2, <1>15 DEF vars
<1> QED BY <1>5, <1>6, <1>7, <1>8, <1>9, <1>10, <1>11, <1>12, <1>13, <1>14, <1>15
        DEF Next, Informers, Environment

-----------------------------------------------------------------------------
(* Claims *)

(* Every step keeps finalizers and deletion annotations under a label.      *)
LEMMA ClaimsStep ==
    ASSUME TypeOK, WorkersHoldCopies, CacheCatchesUp, FreshCopiesAreCurrent,
           ClaimsAreLabelled, [Next]_vars
    PROVE  ClaimsAreLabelled'
<1> DEFINE Labelled(o) == o.fin \subseteq o.label /\ o.del \subseteq o.label
<1>1. ASSUME NEW o, Labelled(o), Write(o)
      PROVE  ClaimsAreLabelled'
  BY <1>1 DEF ClaimsAreLabelled, Write, Finalized, Gone
<1>2. ASSUME UNCHANGED upstream
      PROVE  ClaimsAreLabelled'
  BY <1>2 DEF ClaimsAreLabelled
<1>3. Labelled(upstream) /\ upstream \in Objects
  BY DEF ClaimsAreLabelled, TypeOK
<1>4. Labelled(Reconciled(upstream, nsSeen))
  <2>1. Labelled(PropagateDeletionTimestamp(upstream))
    BY <1>3 DEF PropagateDeletionTimestamp, Objects
  <2>2. Labelled(ComputePlacement(upstream, nsSeen))
    BY <1>3 DEF ComputePlacement, Objects
  <2>3. /\ PropagateDeletionTimestamp(upstream) \in Objects
        /\ ComputePlacement(upstream, nsSeen) \in Objects
    BY DEF PropagateDeletionTimestamp, ComputePlacement, TypeOK, Objects, NsStates
  <2> QED BY <2>1, <2>2, <2>3 DEF Reconciled, Objects
<1>5. CASE Server
  BY <1>1, <1>2, <1>4, <1>5 DEF Server, ReconcileResource, EnqueueNamespace
<1>6. ASSUME NEW t \in Targets, Informers(t)
      PROVE  ClaimsAreLabelled'
  BY <1>2, <1>6 DEF Informers, DeliverUpstream, DeliverDownstream, upVars
<1>7. ASSUME NEW t \in Targets, StatusSyncer(t)
      PROVE  ClaimsAreLabelled'
  BY <1>1, <1>2, <1>3, <1>7 DEF StatusSyncer, StatusProcess, UpdateStatusInUpstream, Failed
<1>8. ASSUME NEW t \in Targets, NEW c \in Controllers, EnsureSyncerFinalizer(t, c)
      PROVE  ClaimsAreLabelled'
  <2>1. CASE Failed(t, c)
    BY <1>2, <2>1 DEF Failed
  <2>2. CASE <<t, c>> \in fresh /\ Write([upstream EXCEPT !.fin = @ \cup {t}])
    <3>1. t \in upstream.label
      BY <1>8, <2>2 DEF EnsureSyncerFinalizer, At, WorkersHoldCopies,
                        FreshCopiesAreCurrent, ViewOf, Selected
    <3>2. Labelled([upstream EXCEPT !.fin = @ \cup {t}])
      BY <1>3, <3>1 DEF Objects
    <3> QED BY <1>1, <2>2, <3>2
  <2> QED BY <1>8, <2>1, <2>2 DEF EnsureSyncerFinalizer
<1>9. ASSUME NEW t \in Targets, NEW c \in Controllers, RemoveUpstreamFinalizer(t, c)
      PROVE  ClaimsAreLabelled'
  <2>1. Labelled(RemovedFromSyncer(upstream, t))
    BY <1>3 DEF RemovedFromSyncer, Objects
  <2> QED BY <1>1, <1>2, <1>9, <2>1 DEF RemoveUpstreamFinalizer, Failed
<1>10. ASSUME NEW t \in Targets, NEW c \in Controllers, Syncer(t, c)
       PROVE  ClaimsAreLabelled'
  BY <1>2, <1>8, <1>9, <1>10
     DEF Syncer, SpecProcess, ApplyToDownstream, DeleteFromDownstream, DeleteOrphan,
         EnsureUpstreamFinalizerRemoved
<1>11. ASSUME NEW t \in Targets
       PROVE  /\ Labelled([Gone EXCEPT !.exists = TRUE])
              /\ Labelled([upstream EXCEPT !.deleting = TRUE])
              /\ Labelled([upstream EXCEPT !.spec = @ + 1])
              /\ Labelled([upstream EXCEPT !.soft = @ \cup {t}])
              /\ Labelled([upstream EXCEPT !.soft = @ \ {t}])
  BY <1>3 DEF Objects, Gone
<1>12. CASE Environment
  <2>1. CASE UserCreates \/ UserDeletes \/ UserEdits
    <3>1. /\ Labelled([Gone EXCEPT !.exists = TRUE])
          /\ Labelled([upstream EXCEPT !.deleting = TRUE])
          /\ Labelled([upstream EXCEPT !.spec = @ + 1])
      BY <1>3 DEF Objects, Gone
    <3> QED BY <1>1, <2>1, <3>1 DEF UserCreates, UserDeletes, UserEdits
  <2>2. ASSUME NEW t \in Targets, SetSoftFinalizer(t) \/ ClearSoftFinalizer(t)
        PROVE  ClaimsAreLabelled'
    BY <1>1, <1>11, <2>2 DEF SetSoftFinalizer, ClearSoftFinalizer
  <2>3. ASSUME NEW t \in Targets,
              \/ ScheduleNamespace(t) \/ UnscheduleNamespace(t) \/ ExpireNamespace(t)
              \/ DownstreamUserDeletes(t) \/ DownstreamGone(t)
              \/ SyncerRestarts(t) \/ SyncTargetRemoved(t)
              \/ \E c \in Controllers : RequestFails(t, c)
        PROVE  ClaimsAreLabelled'
    BY <1>2, <2>3
       DEF ScheduleNamespace, UnscheduleNamespace, ExpireNamespace, NamespaceChanges,
           DownstreamUserDeletes, DownstreamGone, SyncerRestarts, SyncTargetRemoved,
         RequestFails, Failed, upVars
  <2> QED BY <1>12, <2>1, <2>2, <2>3 DEF Environment
<1>13. CASE UNCHANGED vars
  BY <1>2, <1>13 DEF vars
<1> QED BY <1>5, <1>6, <1>7, <1>10, <1>12, <1>13 DEF Next

(* An object that is gone stays Gone until it is created again.             *)
LEMMA AbsentStep ==
    ASSUME TypeOK, WorkersHoldCopies, FreshCopiesAreCurrent, AbsentIsGone, [Next]_vars
    PROVE  AbsentIsGone'
<1>1. ASSUME NEW o, o.exists, Write(o)
      PROVE  AbsentIsGone'
  BY <1>1 DEF AbsentIsGone, Write, Finalized
<1>2. ASSUME UNCHANGED upstream
      PROVE  AbsentIsGone'
  BY <1>2 DEF AbsentIsGone
<1>3. upstream.exists => Reconciled(upstream, nsSeen).exists
  BY DEF Reconciled, PropagateDeletionTimestamp, ComputePlacement, TypeOK, Objects
<1>4. ASSUME NEW t \in Targets, NEW c \in Controllers, <<t, c>> \in fresh,
             copy[t][c] # NoView
      PROVE  upstream.exists
  BY <1>4 DEF FreshCopiesAreCurrent, ViewOf, Selected
<1>5. CASE Server
  BY <1>1, <1>2, <1>3, <1>5 DEF Server, ReconcileResource, EnqueueNamespace
<1>6. ASSUME NEW t \in Targets, NEW c \in Controllers, Syncer(t, c)
      PROVE  AbsentIsGone'
  <2>1. CASE UNCHANGED upstream
    BY <1>2, <2>1
  <2>2. CASE EnsureSyncerFinalizer(t, c) /\ <<t, c>> \in fresh
    <3>1. upstream.exists
      BY <1>4, <2>2 DEF EnsureSyncerFinalizer, At, WorkersHoldCopies
    <3>2. [upstream EXCEPT !.fin = @ \cup {t}].exists
      BY <3>1 DEF TypeOK, Objects
    <3> QED BY <1>1, <2>1, <2>2, <3>2 DEF EnsureSyncerFinalizer, Failed
  <2>3. CASE RemoveUpstreamFinalizer(t, c) /\ <<t, c>> \in fresh
    <3>1. upstream.exists
      BY <1>4, <2>3 DEF RemoveUpstreamFinalizer, At, WorkersHoldCopies
    <3>2. RemovedFromSyncer(upstream, t).exists
      BY <3>1 DEF TypeOK, Objects, RemovedFromSyncer
    <3> QED BY <1>1, <2>1, <2>3, <3>2 DEF RemoveUpstreamFinalizer, Failed
  <2> QED BY <1>6, <2>1, <2>2, <2>3
          DEF Syncer, SpecProcess, EnsureSyncerFinalizer, ApplyToDownstream,
              DeleteFromDownstream, DeleteOrphan, EnsureUpstreamFinalizerRemoved,
              RemoveUpstreamFinalizer, Failed
<1>7. ASSUME NEW t \in Targets, StatusSyncer(t)
      PROVE  AbsentIsGone'
  <2>1. "status" \in Controllers
    BY DEF Controllers
  <2>2. CASE Write(upstream) /\ <<t, "status">> \in fresh /\ copy[t]["status"] # NoView
    BY <1>1, <1>4, <2>1, <2>2
  <2> QED BY <1>2, <1>7, <2>2
          DEF StatusSyncer, StatusProcess, UpdateStatusInUpstream, Failed
<1>8. CASE UserCreates \/ UserDeletes \/ UserEdits
  <2>1. [Gone EXCEPT !.exists = TRUE].exists
    BY DEF Gone
  <2>2. upstream.exists => /\ [upstream EXCEPT !.deleting = TRUE].exists
                           /\ [upstream EXCEPT !.spec = @ + 1].exists
    BY DEF TypeOK, Objects
  <2> QED BY <1>1, <1>8, <2>1, <2>2 DEF UserCreates, UserDeletes, UserEdits
<1>9. ASSUME NEW t \in Targets, SetSoftFinalizer(t) \/ ClearSoftFinalizer(t)
      PROVE  AbsentIsGone'
  <2>1. upstream.exists
    BY <1>9 DEF SetSoftFinalizer, ClearSoftFinalizer, Selected, AbsentIsGone, Gone,
                TypeOK, Objects
  <2>2. /\ [upstream EXCEPT !.soft = @ \cup {t}].exists
        /\ [upstream EXCEPT !.soft = @ \ {t}].exists
    BY <2>1 DEF TypeOK, Objects
  <2> QED BY <1>1, <1>9, <2>2 DEF SetSoftFinalizer, ClearSoftFinalizer
<1>10. ASSUME NEW t \in Targets,
              \/ ScheduleNamespace(t) \/ UnscheduleNamespace(t) \/ ExpireNamespace(t)
              \/ DownstreamUserDeletes(t) \/ DownstreamGone(t)
              \/ SyncerRestarts(t) \/ SyncTargetRemoved(t)
              \/ \E c \in Controllers : RequestFails(t, c)
       PROVE  AbsentIsGone'
  BY <1>2, <1>10
     DEF ScheduleNamespace, UnscheduleNamespace, ExpireNamespace, NamespaceChanges,
         DownstreamUserDeletes, DownstreamGone, SyncerRestarts, SyncTargetRemoved,
         RequestFails, Failed, upVars
<1>11. ASSUME NEW t \in Targets, Informers(t)
       PROVE  AbsentIsGone'
  BY <1>2, <1>11 DEF Informers, DeliverUpstream, DeliverDownstream, upVars
<1>12. CASE UNCHANGED vars
  BY <1>2, <1>12 DEF vars
<1> QED BY <1>5, <1>6, <1>7, <1>8, <1>9, <1>10, <1>11, <1>12 DEF Next, Environment

(* No step takes a syncer's finalizer while a soft finalizer holds it.      *)
LEMMA SoftStep ==
    ASSUME TypeOK, WorkersHoldCopies, FreshCopiesAreCurrent, AbsentIsGone,
           ClaimsAreLabelled, [Next]_vars,
           NEW t \in live', t \in upstream.soft \cap upstream.fin, upstream'.exists
    PROVE  t \in upstream'.fin /\ t \in upstream'.label
<1> DEFINE Held(o) == t \in o.fin /\ t \in o.label
<1>0. Held(upstream) /\ upstream \in Objects
  BY DEF ClaimsAreLabelled, TypeOK
<1>1. ASSUME NEW o, Held(o), Write(o)
      PROVE  Held(upstream')
  <2>1. Finalized(o) = o
    BY <1>1 DEF Finalized
  <2> QED BY <1>1, <2>1 DEF Write
<1>2. ASSUME UNCHANGED upstream
      PROVE  Held(upstream')
  BY <1>0, <1>2
<1>3. CASE ReconcileResource
  <2>1. t \in live
    BY <1>3 DEF ReconcileResource
  <2>2. Held(PropagateDeletionTimestamp(upstream))
    BY <1>0 DEF PropagateDeletionTimestamp, Objects
  <2>3. Held(ComputePlacement(upstream, nsSeen))
    BY <1>0 DEF ComputePlacement, Objects
  <2>4. /\ PropagateDeletionTimestamp(upstream) \in Objects
        /\ ComputePlacement(upstream, nsSeen) \in Objects
    BY DEF PropagateDeletionTimestamp, ComputePlacement, TypeOK, Objects, NsStates
  <2>5. Held(Reconciled(upstream, nsSeen))
    BY <2>1, <2>2, <2>3, <2>4 DEF Reconciled, Objects
  <2> QED BY <1>1, <1>2, <1>3, <2>5 DEF ReconcileResource
<1>4. ASSUME NEW u \in Targets, NEW c \in Controllers, RemoveUpstreamFinalizer(u, c)
      PROVE  Held(upstream')
  <2>1. CASE <<u, c>> \in fresh /\ Removing(copy[u][c], u)
    <3>1. copy[u][c] = ViewOf(upstream, u) /\ copy[u][c] # NoView
      BY <1>4, <2>1 DEF RemoveUpstreamFinalizer, At, WorkersHoldCopies,
                        FreshCopiesAreCurrent
    <3>2. u \notin upstream.soft
      BY <2>1, <3>1 DEF ViewOf, AfterRead, Removing
    <3>3. Held(RemovedFromSyncer(upstream, u))
      BY <1>0, <3>2 DEF RemovedFromSyncer, Objects
    <3> QED BY <1>1, <1>4, <2>1, <3>3 DEF RemoveUpstreamFinalizer
  <2> QED BY <1>2, <1>4, <2>1 DEF RemoveUpstreamFinalizer, Failed
<1>5. ASSUME NEW u \in Targets, NEW c \in Controllers, EnsureSyncerFinalizer(u, c)
      PROVE  Held(upstream')
  <2>1. Held([upstream EXCEPT !.fin = @ \cup {u}])
    BY <1>0 DEF Objects
  <2> QED BY <1>1, <1>2, <1>5, <2>1 DEF EnsureSyncerFinalizer, Failed
<1>6. ASSUME NEW u \in Targets, NEW c \in Controllers, Syncer(u, c)
      PROVE  Held(upstream')
  BY <1>2, <1>4, <1>5, <1>6
     DEF Syncer, SpecProcess, ApplyToDownstream, DeleteFromDownstream, DeleteOrphan,
         EnsureUpstreamFinalizerRemoved
<1>7. ASSUME NEW u \in Targets, StatusSyncer(u)
      PROVE  Held(upstream')
  BY <1>0, <1>1, <1>2, <1>7
     DEF StatusSyncer, StatusProcess, UpdateStatusInUpstream, Failed
<1>8. CASE UserCreates \/ UserDeletes \/ UserEdits
  <2>1. upstream.exists
    BY <1>0 DEF AbsentIsGone, Gone
  <2>2. /\ Held([upstream EXCEPT !.deleting = TRUE])
        /\ Held([upstream EXCEPT !.spec = @ + 1])
    BY <1>0 DEF Objects
  <2> QED BY <1>1, <1>8, <2>1, <2>2 DEF UserCreates, UserDeletes, UserEdits
<1>9. ASSUME NEW u \in Targets, SetSoftFinalizer(u) \/ ClearSoftFinalizer(u)
      PROVE  Held(upstream')
  <2>1. /\ Held([upstream EXCEPT !.soft = @ \cup {u}])
        /\ Held([upstream EXCEPT !.soft = @ \ {u}])
    BY <1>0 DEF Objects
  <2> QED BY <1>1, <1>9, <2>1 DEF SetSoftFinalizer, ClearSoftFinalizer
<1>10. ASSUME NEW u \in Targets,
              \/ ScheduleNamespace(u) \/ UnscheduleNamespace(u) \/ ExpireNamespace(u)
              \/ DownstreamUserDeletes(u) \/ DownstreamGone(u)
              \/ SyncerRestarts(u) \/ SyncTargetRemoved(u)
              \/ \E c \in Controllers : RequestFails(u, c)
       PROVE  Held(upstream')
  BY <1>2, <1>10
     DEF ScheduleNamespace, UnscheduleNamespace, ExpireNamespace, NamespaceChanges,
         DownstreamUserDeletes, DownstreamGone, SyncerRestarts, SyncTargetRemoved,
         RequestFails, Failed, upVars
<1>11. CASE EnqueueNamespace \/ (\E u \in Targets : Informers(u)) \/ UNCHANGED vars
  BY <1>2, <1>11
     DEF EnqueueNamespace, Informers, DeliverUpstream, DeliverDownstream, upVars, vars
<1> QED BY <1>3, <1>6, <1>7, <1>8, <1>9, <1>10, <1>11 DEF Next, Server, Environment

-----------------------------------------------------------------------------
(* No lost events *)

(* A view tells whether the object is wanted.                               *)
LEMMA WantedView ==
    ASSUME NEW o \in Objects, NEW t \in Targets
    PROVE  Selected(o, t) /\ ~Removing(o, t)
               <=> ViewOf(o, t) # NoView /\ ~Removing(ViewOf(o, t), t)
<1>1. CASE Selected(o, t)
  <2>1. ViewOf(o, t) = AfterRead(o, t) /\ AfterRead(o, t) \in Views
    BY <1>1 DEF ViewOf, AfterRead, Objects, Views
  <2>2. Removing(AfterRead(o, t), t) <=> Removing(o, t)
    BY DEF Removing, AfterRead
  <2> QED BY <1>1, <2>1, <2>2, NoViewIsNoView
<1>2. CASE ~Selected(o, t)
  BY <1>2 DEF ViewOf
<1> QED BY <1>1, <1>2

(* If the cache is not up to date, an event that differs is on its way.     *)
LEMMA BehindMeansUnseen ==
    ASSUME TypeOK, CacheCatchesUp, NEW t \in Targets, ViewOf(upstream, t) # cached[t]
    PROVE  Unseen(t)
<1>1. watch[t] \in Seq(Views \cup {NoView}) /\ watch[t] # <<>>
  BY DEF CacheCatchesUp, TypeOK
<1>2. Len(watch[t]) \in Nat /\ Len(watch[t]) # 0
  BY <1>1, EmptySeq
<1>3. Len(watch[t]) \in 1 .. Len(watch[t])
  BY <1>2
<1> QED BY <1>1, <1>3 DEF CacheCatchesUp, Unseen

(* A write keeps the unseen events, and adds one if it changes the view.    *)
LEMMA WriteUnseen ==
    ASSUME TypeOK, CacheCatchesUp, NEW o \in Objects, Write(o), UNCHANGED cached,
           NEW t \in Targets, Unseen(t) \/ ViewOf(upstream', t) # ViewOf(upstream, t)
    PROVE  Unseen(t)'
<1> DEFINE new == Finalized(o)
<1>1. upstream' = new
  BY DEF Write
<1>2. watch[t] \in Seq(Views \cup {NoView}) /\ ViewOf(new, t) \in Views \cup {NoView}
  BY ValueTypes DEF TypeOK
<1>3. Len(watch[t]) \in Nat
  BY <1>2
<1> HIDE DEF new
<1>4. CASE ~(Selected(upstream, t) \/ Selected(new, t))
  <2>1. watch'[t] = watch[t]
    BY <1>4 DEF Write, new
  <2>2. ViewOf(upstream', t) = ViewOf(upstream, t)
    BY <1>1, <1>4 DEF ViewOf
  <2> QED BY <2>1, <2>2 DEF Unseen
<1>5. CASE Selected(upstream, t) \/ Selected(new, t)
  <2>1. watch'[t] = Append(watch[t], ViewOf(new, t))
    BY <1>5 DEF Write, new
  <2>2. /\ Len(watch'[t]) = Len(watch[t]) + 1
        /\ \A i \in 1 .. Len(watch[t]) : watch'[t][i] = watch[t][i]
        /\ watch'[t][Len(watch[t]) + 1] = ViewOf(new, t)
    BY <1>2, <2>1, AppendProperties
  <2>3. CASE Unseen(t)
    <3>1. PICK i \in 1 .. Len(watch[t]) : watch[t][i] # cached[t]
      BY <2>3 DEF Unseen
    <3>2. i \in 1 .. Len(watch'[t]) /\ watch'[t][i] # cached'[t]
      BY <1>3, <2>2, <3>1
    <3> QED BY <3>2 DEF Unseen
  <2>4. CASE ~Unseen(t)
    <3>1. ViewOf(upstream, t) = cached[t]
      BY <2>4, BehindMeansUnseen
    <3>2. ViewOf(new, t) # cached'[t]
      BY <1>1, <2>4, <3>1
    <3>3. Len(watch[t]) + 1 \in 1 .. Len(watch'[t])
      BY <1>3, <2>2
    <3> QED BY <2>2, <3>2, <3>3 DEF Unseen
  <2> QED BY <2>3, <2>4
<1> QED BY <1>4, <1>5

(* What differs from the head of a sequence is in its tail.                 *)
LEMMA InTail ==
    ASSUME NEW S, NEW s \in Seq(S), s # <<>>,
           NEW i \in 1 .. Len(s), s[i] # Head(s)
    PROVE  \E j \in 1 .. Len(Tail(s)) : Tail(s)[j] = s[i]
<1>1. PICK r \in Seq(S) : /\ r = Tail(s)
                          /\ Len(r) = Len(s) - 1
                          /\ \A k \in 1 .. Len(r) : r[k] = s[k + 1]
  BY HeadTailProperties
<1>2. Len(r) = Len(s) - 1
  BY <1>1
<1>3. \A k \in 1 .. Len(r) : r[k] = s[k + 1]
  BY <1>1
<1>4. Len(s) \in Nat
  BY LenProperties
<1>5. i # 1
  OBVIOUS
<1>6. i - 1 \in 1 .. Len(r) /\ (i - 1) + 1 = i
  BY <1>2, <1>4, <1>5
<1>7. r[i - 1] = s[i]
  BY <1>3, <1>6
<1> QED BY <1>1, <1>6, <1>7

(* Every step leaves something pending for an object that is assigned to a  *)
(* target and not on its cluster.                                           *)
LEMMA ForgottenStep ==
    ASSUME TypeOK, WorkersHoldCopies, CacheCatchesUp, FreshCopiesAreCurrent,
           NothingForgotten, [Next]_vars, TypeOK'
    PROVE  NothingForgotten'
<1> DEFINE Working(t) == \E c \in SpecSyncers : step[t][c] \in {"claim", "apply"}
<1> DEFINE Queued(t) == queue[t] \cap SpecSyncers # {}
<1> SUFFICES ASSUME NEW t \in live', Wanted(t)', down'[t].st # "present"
             PROVE  Pending(t)'
  BY DEF NothingForgotten
<1>1. t \in Targets
  BY DEF TypeOK
<1>2. live' \subseteq live
  BY DEF Next, Server, ReconcileResource, EnqueueNamespace, Informers, DeliverUpstream,
         DeliverDownstream, StatusSyncer, StatusProcess, UpdateStatusInUpstream, Syncer,
         SpecProcess, EnsureSyncerFinalizer, ApplyToDownstream, DeleteFromDownstream,
         DeleteOrphan, EnsureUpstreamFinalizerRemoved, RemoveUpstreamFinalizer,
         Environment, UserCreates, UserDeletes, UserEdits, SetSoftFinalizer,
         ClearSoftFinalizer, ScheduleNamespace, UnscheduleNamespace, ExpireNamespace,
         NamespaceChanges, DownstreamUserDeletes, DownstreamGone, SyncerRestarts,
         SyncTargetRemoved, RequestFails, vars
<1>3. Wanted(t) /\ down[t].st # "present" => Pending(t)
  BY <1>2 DEF NothingForgotten
<1>4. SpecSyncers \subseteq Controllers
  BY DEF Controllers
<1>5. ASSUME UNCHANGED upstream
      PROVE  Wanted(t)
  BY <1>5 DEF Wanted
(* the parts of Pending, and what keeps each of them *)
<1>6. ASSUME Queued(t)' \/ Unseen(t)' \/ DeletionUnseen(t)' \/ down'[t].st = "deleting"
             \/ Working(t)'
      PROVE  Pending(t)'
  BY <1>6 DEF Pending
<1>7. ASSUME Pending(t)
      PROVE  \/ Queued(t) \/ Unseen(t) \/ DeletionUnseen(t)
             \/ down[t].st = "deleting" \/ Working(t)
  BY <1>7 DEF Pending
<1> HIDE DEF Working, Queued
<1>8. ASSUME queue'[t] = queue[t]
      PROVE  Queued(t) => Queued(t)'
  BY <1>8 DEF Queued
<1>9. ASSUME UNCHANGED <<watch, cached>>
      PROVE  Unseen(t) => Unseen(t)'
  BY <1>9 DEF Unseen
<1>10. ASSUME UNCHANGED downWatch
       PROVE  DeletionUnseen(t) => DeletionUnseen(t)'
  BY <1>10 DEF DeletionUnseen
<1>11. ASSUME \A c \in SpecSyncers : step'[t][c] = step[t][c]
       PROVE  Working(t) => Working(t)'
  BY <1>11 DEF Working
(* writes *)
<1>12. ASSUME NEW o \in Objects, Write(o), UNCHANGED <<cached, down, downWatch>>,
              queue'[t] = queue[t],
              Working(t) => Working(t)' \/ ViewOf(upstream', t) # ViewOf(upstream, t)
       PROVE  Pending(t)'
  <2>1. CASE ViewOf(upstream', t) # ViewOf(upstream, t)
    BY <1>1, <1>6, <1>12, <2>1, WriteUnseen
  <2>2. CASE ViewOf(upstream', t) = ViewOf(upstream, t)
    <3>1. Wanted(t)
      <4>1. upstream \in Objects /\ upstream' \in Objects
        BY DEF TypeOK
      <4>2. Selected(upstream', t) /\ ~Removing(upstream', t)
        BY DEF Wanted
      <4> QED BY <1>1, <2>2, <4>1, <4>2, WantedView DEF Wanted
    <3>2. Pending(t)
      BY <1>3, <1>12, <3>1
    <3>3. Unseen(t) => Unseen(t)'
      BY <1>1, <1>12, WriteUnseen
    <3> QED BY <1>6, <1>7, <1>8, <1>10, <1>12, <2>2, <3>2, <3>3
  <2> QED BY <2>1, <2>2
<1>13. ASSUME NEW o \in Objects, Write(o), UNCHANGED <<cached, downVars, queue, workVars>>
       PROVE  Pending(t)'
  BY <1>11, <1>12, <1>13 DEF downVars, workVars
<1>14. ASSUME NEW u \in Targets, NEW c \in Controllers, NEW o \in Objects,
              Write(o), Finish(u, c), UNCHANGED <<cached, downVars, queue>>,
              u = t /\ c \in SpecSyncers /\ step[u][c] = "claim"
                  => ViewOf(upstream', t) # ViewOf(upstream, t),
              step[u][c] # "apply" \/ c \notin SpecSyncers
       PROVE  Pending(t)'
  <2>1. CASE ViewOf(upstream', t) # ViewOf(upstream, t)
    BY <1>12, <1>14, <2>1 DEF downVars
  <2>2. CASE u # t \/ c \notin SpecSyncers
    BY <1>1, <1>4, <1>11, <1>12, <1>14, <2>2 DEF Finish, TypeOK, downVars
  <2>3. CASE u = t /\ c \in SpecSyncers /\ step[u][c] \notin {"claim", "apply"}
    <3>1. Working(t) => Working(t)'
      BY <1>1, <1>4, <1>14, <2>3 DEF Finish, TypeOK, Working
    <3> QED BY <1>12, <1>14, <3>1 DEF downVars
  <2> QED BY <1>14, <2>1, <2>2, <2>3
(* steps that leave the upstream object alone *)
<1>15. ASSUME UNCHANGED <<upstream, watch, cached>>,
              down[t].st # "present", down'[t] = down[t],
              DeletionUnseen(t) => DeletionUnseen(t)',
              Queued(t) => Queued(t)',
              Working(t) => Working(t)' \/ Queued(t)'
       PROVE  Pending(t)'
  BY <1>3, <1>5, <1>6, <1>7, <1>9, <1>15
<1>16. ASSUME UNCHANGED <<upstream, watch, cached, downVars, queue, workVars>>
       PROVE  Pending(t)'
  BY <1>8, <1>10, <1>11, <1>15, <1>16 DEF downVars, workVars
<1>17. CASE Server
  <2>1. Reconciled(upstream, nsSeen) \in Objects
    BY ReconciledType
  <2> QED BY <1>13, <1>16, <1>17, <2>1 DEF Server, ReconcileResource, EnqueueNamespace
<1>18. ASSUME NEW u \in Targets, DeliverUpstream(u)
       PROVE  Pending(t)'
  <2>1. CASE u # t
    <3>1. watch'[t] = watch[t] /\ cached'[t] = cached[t] /\ queue'[t] = queue[t]
      BY <1>18, <2>1 DEF DeliverUpstream, TypeOK
    <3>2. Unseen(t) => Unseen(t)'
      BY <3>1 DEF Unseen
    <3>3. UNCHANGED <<upstream, downVars, workVars>>
      BY <1>18 DEF DeliverUpstream
    <3> QED BY <1>3, <1>5, <1>6, <1>7, <1>8, <1>10, <1>11, <3>1, <3>2, <3>3
            DEF downVars, workVars
  <2>2. CASE u = t
    <3>1. watch[t] \in Seq(Views \cup {NoView}) /\ watch[t] # <<>>
      BY <1>1, <1>18, <2>2 DEF TypeOK, DeliverUpstream
    <3>2. /\ watch'[t] = Tail(watch[t]) /\ cached'[t] = Head(watch[t])
          /\ queue'[t] = IF Head(watch[t]) # cached[t] THEN queue[t] \cup {"up"} ELSE queue[t]
      BY <1>1, <1>18, <2>2 DEF DeliverUpstream, TypeOK, DeepEqualApartFromStatus
    <3>3. UNCHANGED <<upstream, downVars, workVars>>
      BY <1>18 DEF DeliverUpstream
    <3>4. CASE Head(watch[t]) # cached[t]
      BY <1>6, <3>2, <3>4 DEF Queued, SpecSyncers
    <3>5. CASE Head(watch[t]) = cached[t]
      <4>1. Unseen(t) => Unseen(t)'
        BY <3>1, <3>2, <3>5, InTail DEF Unseen
      <4>2. queue'[t] = queue[t]
        BY <3>2, <3>5
      <4> QED BY <1>3, <1>5, <1>6, <1>7, <1>8, <1>10, <1>11, <3>3, <4>1, <4>2
              DEF downVars, workVars
    <3> QED BY <3>4, <3>5
  <2> QED BY <2>1, <2>2
<1>19. ASSUME NEW u \in Targets, DeliverDownstream(u)
       PROVE  Pending(t)'
  <2>1. /\ UNCHANGED <<upstream, watch, cached, down, workVars>>
        /\ queue[t] \subseteq queue'[t]
    BY <1>1, <1>19 DEF DeliverDownstream, upVars, TypeOK
  <2>2. Queued(t) => Queued(t)'
    BY <2>1 DEF Queued
  <2>3. CASE u # t
    <3>1. downWatch'[t] = downWatch[t]
      BY <1>1, <1>19, <2>3 DEF DeliverDownstream, TypeOK
    <3>2. DeletionUnseen(t) => DeletionUnseen(t)'
      BY <3>1 DEF DeletionUnseen
    <3> QED BY <1>11, <1>15, <2>1, <2>2, <3>2 DEF workVars
  <2>4. CASE u = t
    <3>1. downWatch[t] \in Seq(DownEvents) /\ downWatch[t] # <<>>
      BY <1>1, <1>19, <2>4 DEF TypeOK, DeliverDownstream
    <3>2. /\ downWatch'[t] = Tail(downWatch[t])
          /\ Head(downWatch[t]) = "deleted" => "down" \in queue'[t]
      BY <1>1, <1>19, <2>4 DEF DeliverDownstream, TypeOK
    <3>3. CASE Head(downWatch[t]) = "deleted"
      BY <1>6, <3>2, <3>3 DEF Queued, SpecSyncers
    <3>4. CASE Head(downWatch[t]) # "deleted"
      <4>1. DeletionUnseen(t) => DeletionUnseen(t)'
        BY <3>1, <3>2, <3>4, InTail DEF DeletionUnseen
      <4> QED BY <1>11, <1>15, <2>1, <2>2, <4>1 DEF workVars
    <3> QED BY <3>3, <3>4
  <2> QED BY <2>3, <2>4
<1>20. ASSUME NEW u \in Targets, NEW c \in Controllers, SpecProcess(u, c)
       PROVE  Pending(t)'
  <2>1. /\ UNCHANGED <<upstream, watch, cached, down, downWatch>>
        /\ step' = [step EXCEPT ![u][c] = SpecStep(cached[u], u)]
        /\ queue' = [queue EXCEPT ![u] = @ \ {c}]
        /\ c \in SpecSyncers /\ step[u][c] = "idle"
    BY <1>20 DEF SpecProcess, Goto, Dequeue, Start, downVars
  <2>2. CASE u # t
    <3>1. queue'[t] = queue[t] /\ step'[t] = step[t]
      BY <1>1, <2>1, <2>2 DEF TypeOK
    <3> QED BY <1>8, <1>10, <1>11, <1>15, <2>1, <3>1
  <2>3. CASE u = t /\ SpecStep(cached[t], t) \in {"claim", "apply"}
    <3>1. step'[t][c] \in {"claim", "apply"}
      BY <1>1, <2>1, <2>3 DEF TypeOK
    <3> QED BY <1>6, <2>1, <3>1 DEF Working
  <2>4. CASE SpecStep(cached[t], t) \notin {"claim", "apply"}
    <3>1. cached[t] = NoView \/ Removing(cached[t], t)
      BY <2>4 DEF SpecStep
    <3>2. ViewOf(upstream, t) # NoView /\ ~Removing(ViewOf(upstream, t), t)
      BY <1>1, <1>5, <2>1, WantedView DEF Wanted, TypeOK
    <3>3. Unseen(t)
      BY <1>1, <3>1, <3>2, BehindMeansUnseen
    <3> QED BY <1>6, <1>9, <2>1, <3>3
  <2> QED BY <2>2, <2>3, <2>4
<1>21. ASSUME NEW u \in Targets, NEW c \in Controllers, Done(u, c)
       PROVE  /\ (c \in SpecSyncers /\ u = t) \/ (Working(t) => Working(t)')
              /\ step[u][c] \notin {"claim", "apply"} => (Working(t) => Working(t)')
  BY <1>1, <1>4, <1>21 DEF Done, Finish, TypeOK, Working
<1>22. ASSUME NEW u \in Targets, NEW c \in Controllers, Failed(u, c),
              UNCHANGED <<cached, downVars>>
       PROVE  Pending(t)'
  <2>1. UNCHANGED <<upstream, watch>> /\ queue' = [queue EXCEPT ![u] = @ \cup {c}]
    BY <1>22 DEF Failed
  <2>2. CASE u = t /\ c \in SpecSyncers
    <3>1. c \in queue'[t]
      BY <1>1, <2>1, <2>2 DEF TypeOK
    <3> QED BY <1>6, <2>2, <3>1 DEF Queued
  <2>3. CASE ~(u = t /\ c \in SpecSyncers)
    <3>1. Working(t) => Working(t)'
      BY <1>21, <1>22, <2>3 DEF Failed
    <3>2. queue[t] \subseteq queue'[t]
      BY <1>1, <2>1 DEF TypeOK
    <3>3. Queued(t) => Queued(t)'
      BY <3>2 DEF Queued
    <3> QED BY <1>10, <1>15, <1>22, <2>1, <3>1, <3>3 DEF downVars
  <2> QED BY <2>2, <2>3
<1>23. ASSUME NEW u \in Targets, NEW c \in Controllers, EnsureSyncerFinalizer(u, c)
       PROVE  Pending(t)'
  <2>1. CASE Failed(u, c)
    BY <1>22, <1>23, <2>1 DEF EnsureSyncerFinalizer
  <2>2. CASE <<u, c>> \in fresh /\ Write([upstream EXCEPT !.fin = @ \cup {u}])
             /\ Finish(u, c) /\ UNCHANGED queue
    <3> DEFINE o == [upstream EXCEPT !.fin = @ \cup {u}]
    <3>1. o \in Objects /\ upstream \in Objects
      BY DEF TypeOK, Objects
    <3>2. step[u][c] = "claim" /\ UNCHANGED <<cached, downVars>>
      BY <1>23 DEF EnsureSyncerFinalizer, At
    <3>3. /\ copy[u][c] # NoView /\ ~copy[u][c].fin
          /\ copy[u][c] = ViewOf(upstream, u)
      BY <2>2, <3>2 DEF WorkersHoldCopies, FreshCopiesAreCurrent
    <3>5. upstream' = o
      <4>1. o.fin # {}
        BY <3>1 DEF Objects
      <4>2. Finalized(o) = o
        BY <4>1 DEF Finalized
      <4> QED BY <2>2, <4>2 DEF Write
    <3>6. Selected(o, u) /\ u \in o.fin
      BY <3>1, <3>3 DEF ViewOf, Selected, Objects
    <3>7. ViewOf(upstream', u).fin
      BY <3>5, <3>6 DEF ViewOf, AfterRead
    <3>8. ViewOf(upstream', u) # ViewOf(upstream, u)
      <4>1. ~ViewOf(upstream, u).fin
        BY <3>3
      <4> QED BY <3>7, <4>1
    <3> HIDE DEF o
    <3> QED BY <1>14, <2>2, <3>1, <3>2, <3>8 DEF o
  <2> QED BY <1>23, <2>1, <2>2 DEF EnsureSyncerFinalizer
<1>24. ASSUME NEW u \in Targets, NEW c \in Controllers, ApplyToDownstream(u, c)
       PROVE  Pending(t)'
  <2>1. /\ UNCHANGED <<upstream, watch, cached, queue>> /\ Done(u, c)
        /\ down[u].st = "absent" => down'[u].st = "present"
        /\ down[u].st # "absent" => down'[u].st = down[u].st
        /\ u # t => down'[t] = down[t] /\ downWatch'[t] = downWatch[t]
    BY <1>1, <1>24 DEF ApplyToDownstream, TypeOK
  <2>2. CASE u = t
    BY <1>1, <1>6, <2>1, <2>2 DEF TypeOK, DownStates
  <2>3. CASE u # t
    <3>1. DeletionUnseen(t) => DeletionUnseen(t)'
      BY <2>1, <2>3 DEF DeletionUnseen
    <3>2. Working(t) => Working(t)'
      BY <1>21, <2>1, <2>3
    <3> QED BY <1>8, <1>15, <2>1, <2>3, <3>1, <3>2
  <2> QED BY <2>2, <2>3
<1>25. ASSUME NEW u \in Targets, NEW c \in Controllers,
              DeleteFromDownstream(u, c) \/ DeleteOrphan(u, c)
       PROVE  Pending(t)'
  <2>1. /\ UNCHANGED <<upstream, watch, cached, queue, downWatch>> /\ Deleted(u)
        /\ step[u][c] \notin {"claim", "apply"}
    BY <1>25 DEF DeleteFromDownstream, DeleteOrphan, At
  <2>2. Working(t) => Working(t)'
    <3>1. CASE Done(u, c)
      BY <1>21, <2>1, <3>1
    <3>2. CASE step' = [step EXCEPT ![u][c] = "release"]
      BY <1>1, <1>4, <2>1, <3>2 DEF TypeOK, Working
    <3> QED BY <1>25, <3>1, <3>2 DEF DeleteFromDownstream, DeleteOrphan
  <2>3. CASE u = t /\ down[t].st # "absent"
    <3>1. down'[t].st = "deleting"
      BY <1>1, <2>1, <2>3 DEF Deleted, TypeOK, DownStates
    <3> QED BY <1>6, <3>1
  <2>4. CASE u # t \/ down[t].st = "absent"
    <3>1. down'[t] = down[t]
      BY <1>1, <2>1, <2>4 DEF Deleted, TypeOK, DownStates
    <3> QED BY <1>8, <1>10, <1>15, <2>1, <2>2, <3>1
  <2> QED BY <2>3, <2>4
<1>26. ASSUME NEW u \in Targets, NEW c \in Controllers,
              EnsureUpstreamFinalizerRemoved(u, c)
       PROVE  Pending(t)'
  <2>1. /\ UNCHANGED <<upstream, watch, cached, queue, downVars>>
        /\ step[u][c] = "release"
        /\ \E s \in {"idle", "unclaim"} : step' = [step EXCEPT ![u][c] = s]
    BY <1>26 DEF EnsureUpstreamFinalizerRemoved, At, Goto, Done, Finish
  <2>2. Working(t) => Working(t)'
    BY <1>1, <1>4, <2>1 DEF TypeOK, Working
  <2> QED BY <1>8, <1>10, <1>15, <2>1, <2>2 DEF downVars
<1>27. ASSUME NEW u \in Targets, NEW c \in Controllers, RemoveUpstreamFinalizer(u, c)
       PROVE  Pending(t)'
  <2>1. RemovedFromSyncer(upstream, u) \in Objects
    BY DEF RemovedFromSyncer, TypeOK, Objects
  <2> QED BY <1>14, <1>22, <1>27, <2>1 DEF RemoveUpstreamFinalizer, At
<1>28. ASSUME NEW u \in Targets, StatusSyncer(u)
       PROVE  Pending(t)'
  <2>1. "status" \in Controllers /\ "status" \notin SpecSyncers /\ upstream \in Objects
    BY DEF Controllers, SpecSyncers, TypeOK
  <2>2. CASE StatusProcess(u)
    <3>1. UNCHANGED <<upstream, watch, cached, downVars>>
      BY <2>2 DEF StatusProcess
    <3>2. queue' = [queue EXCEPT ![u] = @ \ {"status"}]
      BY <2>2 DEF StatusProcess, Dequeue
    <3>3. Queued(t) => Queued(t)'
      BY <1>1, <2>1, <3>2 DEF Queued, TypeOK
    <3>4. \E s : step' = [step EXCEPT ![u]["status"] = s]
      BY <2>2 DEF StatusProcess, Goto
    <3>5. Working(t) => Working(t)'
      BY <1>1, <1>4, <2>1, <3>4 DEF Working, TypeOK
    <3> QED BY <1>10, <1>15, <3>1, <3>3, <3>5 DEF downVars
  <2>3. CASE UpdateStatusInUpstream(u)
    <3>1. CASE Done(u, "status") /\ UNCHANGED <<queue, upstream, watch, toReconcile>>
      <4>1. Working(t) => Working(t)'
        BY <1>21, <2>1, <3>1
      <4> QED BY <1>8, <1>10, <1>15, <2>3, <3>1, <4>1 DEF UpdateStatusInUpstream, downVars
    <3>2. CASE Write(upstream) /\ Finish(u, "status") /\ UNCHANGED queue
      BY <1>14, <2>1, <2>3, <3>2 DEF UpdateStatusInUpstream
    <3>3. CASE Failed(u, "status")
      BY <1>22, <2>1, <2>3, <3>3 DEF UpdateStatusInUpstream
    <3> QED BY <2>3, <3>1, <3>2, <3>3 DEF UpdateStatusInUpstream
  <2> QED BY <1>28, <2>2, <2>3 DEF StatusSyncer
<1>29. CASE UserCreates \/ UserDeletes \/ UserEdits
  <2>1. [Gone EXCEPT !.exists = TRUE] \in Objects
    BY ValueTypes DEF Objects
  <2>2. [upstream EXCEPT !.deleting = TRUE] \in Objects
    BY DEF TypeOK, Objects
  <2>3. CASE UserEdits
    <3>1. upstream.spec + 1 \in Specs
      BY <2>3, NatBounds DEF TypeOK, Objects, Specs, UserEdits
    <3>2. [upstream EXCEPT !.spec = @ + 1] \in Objects
      BY <3>1 DEF TypeOK, Objects
    <3> QED BY <1>13, <2>3, <3>2 DEF UserEdits
  <2> QED BY <1>13, <1>29, <2>1, <2>2, <2>3 DEF UserCreates, UserDeletes
<1>30. ASSUME NEW u \in Targets, SetSoftFinalizer(u) \/ ClearSoftFinalizer(u)
       PROVE  Pending(t)'
  <2>1. /\ [upstream EXCEPT !.soft = @ \cup {u}] \in Objects
        /\ [upstream EXCEPT !.soft = @ \ {u}] \in Objects
    BY DEF TypeOK, Objects
  <2> QED BY <1>13, <1>30, <2>1 DEF SetSoftFinalizer, ClearSoftFinalizer
<1>31. ASSUME NEW u \in Targets,
              \/ ScheduleNamespace(u) \/ UnscheduleNamespace(u) \/ ExpireNamespace(u)
              \/ SyncTargetRemoved(u)
       PROVE  Pending(t)'
  BY <1>16, <1>31 DEF ScheduleNamespace, UnscheduleNamespace, ExpireNamespace,
                      NamespaceChanges, SyncTargetRemoved, upVars
<1>32. ASSUME NEW u \in Targets, DownstreamUserDeletes(u)
       PROVE  Pending(t)'
  <2>1. /\ UNCHANGED <<upstream, watch, cached, queue, downWatch, workVars>>
        /\ Deleted(u) /\ down[u].st = "present"
    BY <1>32 DEF DownstreamUserDeletes, upVars
  <2>2. CASE u = t
    <3>1. down'[t].st = "deleting"
      BY <1>1, <2>1, <2>2 DEF Deleted, TypeOK, DownStates
    <3> QED BY <1>6, <3>1
  <2>3. CASE u # t
    <3>1. down'[t] = down[t]
      BY <1>1, <2>1, <2>3 DEF Deleted, TypeOK
    <3> QED BY <1>8, <1>10, <1>11, <1>15, <2>1, <3>1 DEF workVars
  <2> QED BY <2>2, <2>3
<1>33. ASSUME NEW u \in Targets, DownstreamGone(u)
       PROVE  Pending(t)'
  <2>1. /\ UNCHANGED <<upstream, watch, cached, queue, workVars>>
        /\ down' = [down EXCEPT ![u] = [st |-> "absent", spec |-> 0]]
        /\ downWatch' = [downWatch EXCEPT ![u] = Append(@, "deleted")]
    BY <1>33 DEF DownstreamGone, upVars
  <2>2. CASE u = t
    <3>1. downWatch[t] \in Seq(DownEvents) /\ "deleted" \in DownEvents
      BY <1>1 DEF TypeOK, DownEvents
    <3>2. downWatch'[t] = Append(downWatch[t], "deleted")
      BY <1>1, <2>1, <2>2 DEF TypeOK
    <3>3. /\ Len(downWatch'[t]) = Len(downWatch[t]) + 1
          /\ downWatch'[t][Len(downWatch[t]) + 1] = "deleted"
      BY <3>1, <3>2, AppendProperties
    <3>4. Len(downWatch[t]) \in Nat
      BY <3>1
    <3>5. Len(downWatch[t]) + 1 \in 1 .. Len(downWatch'[t])
      BY <3>3, <3>4
    <3> QED BY <1>6, <3>3, <3>5 DEF DeletionUnseen
  <2>3. CASE u # t
    <3>1. down'[t] = down[t] /\ downWatch'[t] = downWatch[t]
      BY <1>1, <2>1, <2>3 DEF TypeOK
    <3>2. DeletionUnseen(t) => DeletionUnseen(t)'
      BY <3>1 DEF DeletionUnseen
    <3> QED BY <1>8, <1>11, <1>15, <2>1, <3>1, <3>2 DEF workVars
  <2> QED BY <2>2, <2>3
<1>34. ASSUME NEW u \in Targets, SyncerRestarts(u)
       PROVE  Pending(t)'
  <2>1. CASE u = t
    <3>1. Selected(upstream, t)
      BY <1>5, <1>34 DEF SyncerRestarts, Wanted
    <3>2. "up" \in queue'[t]
      BY <1>1, <1>34, <2>1, <3>1 DEF SyncerRestarts, TypeOK
    <3> QED BY <1>6, <3>2 DEF Queued, SpecSyncers
  <2>2. CASE u # t
    <3>1. /\ UNCHANGED <<upstream, down>> /\ queue'[t] = queue[t]
          /\ watch'[t] = watch[t] /\ cached'[t] = cached[t]
          /\ downWatch'[t] = downWatch[t] /\ step'[t] = step[t]
      BY <1>1, <1>34, <2>2 DEF SyncerRestarts, TypeOK
    <3>2. /\ Unseen(t) => Unseen(t)'
          /\ DeletionUnseen(t) => DeletionUnseen(t)'
      BY <3>1 DEF Unseen, DeletionUnseen
    <3> QED BY <1>3, <1>5, <1>6, <1>7, <1>8, <1>11, <3>1, <3>2
  <2> QED BY <2>1, <2>2
<1>35. ASSUME NEW u \in Targets, NEW c \in Controllers, RequestFails(u, c)
       PROVE  Pending(t)'
  BY <1>22, <1>35 DEF RequestFails
<1>36. CASE UNCHANGED vars
  BY <1>16, <1>36 DEF vars, downVars, workVars
<1> QED BY <1>17, <1>18, <1>19, <1>20, <1>23, <1>24, <1>25, <1>26, <1>27, <1>28, <1>29,
           <1>30, <1>31, <1>32, <1>33, <1>34, <1>35, <1>36
        DEF Next, Informers, Syncer, Environment

-----------------------------------------------------------------------------
(* Theorems *)

(* It holds when an object is created and no syncer knows of it.            *)
LEMMA InitIInv == Init => IInv
<1> SUFFICES ASSUME Init
             PROVE  IInv
  OBVIOUS
<1>1. upstream \in Objects
  BY ValueTypes DEF Init, Objects
<1>2. down \in [Targets -> DownStates]
  BY NatBounds DEF Init, DownStates, Specs
<1>3. TypeOK
  BY <1>1, <1>2 DEF Init, TypeOK, NsStates, Steps
<1>4. WorkersHoldCopies /\ FreshCopiesAreCurrent
  BY DEF Init, WorkersHoldCopies, FreshCopiesAreCurrent
<1>5. upstream.label = {} /\ upstream.fin = {} /\ upstream.del = {} /\ upstream.exists
  BY DEF Init, Gone
<1>6. CacheCatchesUp
  BY <1>5 DEF Init, CacheCatchesUp, ViewOf, Selected
<1>7. AbsentIsGone /\ ClaimsAreLabelled
  BY <1>5 DEF AbsentIsGone, ClaimsAreLabelled
<1>8. NothingForgotten
  BY <1>3, <1>5 DEF NothingForgotten, Wanted, Selected
<1> QED BY <1>3, <1>4, <1>6, <1>7, <1>8 DEF IInv, WellFormed

(* ... and every step of the server, the syncers and their environment      *)
(* keeps it.                                                                *)
THEOREM Inductive == Spec => []IInv
<1>1. IInv /\ [Next]_vars => IInv'
  <2> SUFFICES ASSUME IInv, [Next]_vars
               PROVE  IInv'
    OBVIOUS
  <2>1. TypeOK' /\ WorkersHoldCopies'
    BY TypeStep, HoldStep DEF IInv, WellFormed
  <2>2. CacheCatchesUp' /\ FreshCopiesAreCurrent'
    BY CacheStep DEF IInv, WellFormed
  <2>3. AbsentIsGone' /\ ClaimsAreLabelled'
    BY AbsentStep, ClaimsStep DEF IInv, WellFormed
  <2>4. NothingForgotten'
    BY <2>1, ForgottenStep DEF IInv, WellFormed
  <2> QED BY <2>1, <2>2, <2>3, <2>4 DEF IInv, WellFormed
<1> QED BY <1>1, InitIInv, PTL DEF Spec

(* The state stays well formed, for any number of targets: types, a copy in *)
(* the hands of every worker that writes, no remains of a deleted object.   *)
THEOREM TypeCorrect == Spec => []WellFormed
BY Inductive, PTL DEF IInv, WellFormed

(* No finalizer and no deletion annotation of a target outlives the state   *)
(* label that lets the target's syncer remove it.                           *)
THEOREM Claims == Spec => []ClaimsAreLabelled
BY Inductive, PTL DEF IInv, WellFormed

(* A soft finalizer of a coordination controller keeps the object on its    *)
(* target: no write of a syncer or of the resource controller, computed     *)
(* from whatever copy, takes the finalizer or the label away.               *)
THEOREM SoftFinalizers == Spec => SoftFinalizerHolds
<1>1. IInv /\ [Next]_vars =>
        [\A t \in live' : t \in upstream.soft \cap upstream.fin /\ upstream'.exists
            => t \in upstream'.fin /\ t \in upstream'.label]_vars
  BY SoftStep DEF IInv, WellFormed
<1> QED BY <1>1, Inductive, PTL DEF Spec, SoftFinalizerHolds

(* When the resource controller and a target's syncer are at rest, an       *)
(* object that is assigned to the target is on its cluster.                 *)
THEOREM Placed == Spec => []AssignedIsPlaced
<1>1. IInv => AssignedIsPlaced
  <2> SUFFICES ASSUME IInv, NEW t \in Targets, Quiet(t), Wanted(t),
                      down[t].st # "present"
               PROVE  FALSE
    BY DEF AssignedIsPlaced
  <2>1. Pending(t)
    BY DEF IInv, NothingForgotten, Quiet
  <2>2. ~Unseen(t) /\ ~DeletionUnseen(t)
    BY DEF Quiet, Unseen, DeletionUnseen
  <2>3. \A c \in SpecSyncers : step[t][c] \notin {"claim", "apply"}
    BY DEF Quiet, Controllers
  <2> QED BY <2>1, <2>2, <2>3 DEF Pending, Quiet
<1> QED BY <1>1, Inductive, PTL

-----------------------------------------------------------------------------
(* An object's only stay on a target.  A step as target t sees it: the      *)
(* object and what its syncer has of it, the downstream object, the workers *)

SameView(t) == upstream' = upstream /\ watch'[t] = watch[t] /\ cached'[t] = cached[t]
SameDown(t) ==
    down'[t] = down[t] /\ downWatch'[t] = downWatch[t] /\ downSeen'[t] = downSeen[t]
SameWork(t) == queue'[t] = queue[t] /\ step'[t] = step[t] /\ copy'[t] = copy[t]

(* Controller c goes to step s, the others stay.                            *)
Moves(t, c, s) ==
    /\ step'[t][c] = s
    /\ \A d \in Controllers \ {c} : step'[t][d] = step[t][d] /\ copy'[t][d] = copy[t][d]

(* A write of o in place of the upstream object gives the object to no      *)
(* target it is leaving, and takes a finalizer only when the target is      *)
(* empty.                                                                   *)
Proper(o, t) ==
    /\ upstream.exists /\ o.exists
    /\ upstream.deleting => o.deleting
    /\ NeverAgain(t) /\ t \notin upstream.label => t \notin o.label
    /\ NeverAgain(t) /\ Removing(upstream, t) => Removing(o, t) \/ t \notin o.label
    /\ t \in o.del => o.deleting \/ t \notin nsSeen.label \/ t \in nsSeen.del
    /\ t \in upstream.label /\ t \notin o.label
          => o.deleting \/ t \notin nsSeen.label \/ t \in nsSeen.del
    /\ t \in upstream.fin /\ t \notin o.fin => Emptied(t)

WriteSeen(o, t) ==
    /\ upstream' = Finalized(o) /\ nsSeen' = nsSeen /\ cached'[t] = cached[t]
    /\ watch'[t] = IF Selected(upstream, t) \/ Selected(upstream', t)
                   THEN Append(watch[t], ViewOf(upstream', t)) ELSE watch[t]

(* The kinds of steps.                                                      *)
Elsewhere(t) == SameView(t) /\ SameDown(t) /\ SameWork(t)

Writes(t) ==
    /\ \E o \in Objects : Proper(o, t) /\ WriteSeen(o, t)
    /\ SameDown(t) /\ queue'[t] = queue[t]
    /\ \/ SameWork(t)
       \/ \E c \in Controllers :
             /\ step[t][c] \in {"claim", "unclaim", "report"} /\ Moves(t, c, "idle")
             /\ step[t][c] = "claim" => t \notin upstream.fin

Delivers(t) ==
    /\ watch[t] # <<>>
    /\ upstream' = upstream
    /\ cached'[t] = Head(watch[t]) /\ watch'[t] = Tail(watch[t])
    /\ queue'[t] = IF cached[t] = Head(watch[t]) THEN queue[t] ELSE queue[t] \cup {"up"}
    /\ SameDown(t) /\ step'[t] = step[t] /\ copy'[t] = copy[t]

DeliversDown(t) ==
    /\ downWatch[t] # <<>>
    /\ SameView(t) /\ step'[t] = step[t] /\ copy'[t] = copy[t] /\ down'[t] = down[t]
    /\ downWatch'[t] = Tail(downWatch[t])
    /\ \/ /\ Head(downWatch[t]) = "deleted" /\ ~downSeen'[t]
          /\ queue'[t] = queue[t] \cup {"status", "down"}
       \/ downSeen'[t] /\ queue'[t] = queue[t] \cup {"status"}

Processes(t, c) ==
    /\ c \in SpecSyncers /\ c \in queue[t]
    /\ SameView(t) /\ SameDown(t) /\ queue'[t] = queue[t] \ {c}
    /\ Moves(t, c, SpecStep(cached[t], t)) /\ copy'[t][c] = cached[t]

ProcessesStatus(t) ==
    /\ "status" \in queue[t]
    /\ SameView(t) /\ SameDown(t) /\ queue'[t] = queue[t] \ {"status"}
    /\ \/ ~downSeen[t] /\ Moves(t, "status", "release")
       \/ Moves(t, "status", "report")

Fails(t, c) ==
    /\ step[t][c] # "idle" /\ Moves(t, c, "idle")
    /\ SameView(t) /\ SameDown(t) /\ queue'[t] = queue[t] \cup {c}

Releases(t, c) ==
    /\ \/ step[t][c] = "release" /\ (Moves(t, c, "unclaim") \/ Moves(t, c, "idle"))
       \/ step[t][c] = "report" /\ Moves(t, c, "idle")
    /\ SameView(t) /\ SameDown(t) /\ queue'[t] = queue[t]

Applies(t, c) ==
    /\ step[t][c] = "apply" /\ Moves(t, c, "idle")
    /\ SameView(t) /\ downSeen'[t] = downSeen[t] /\ queue'[t] = queue[t]
    /\ down'[t].st = (IF down[t].st = "absent" THEN "present" ELSE down[t].st)
    /\ down'[t].spec = copy[t][c].spec
    /\ downWatch'[t] = IF down[t].st = "absent" THEN Append(downWatch[t], "applied")
                       ELSE downWatch[t]

Deletes(t, c) ==
    /\ \/ down[t].st # "absent" /\ down'[t].st = "deleting" /\ Moves(t, c, "idle")
       \/ /\ down[t].st = "absent" /\ down'[t].st = "absent"
          /\ Moves(t, c, "idle") \/ Moves(t, c, "release")
    /\ step[t][c] \in {"delete", "orphan"}
    /\ SameView(t) /\ queue'[t] = queue[t]
    /\ downSeen'[t] = downSeen[t] /\ downWatch'[t] = downWatch[t]

Empties(t) ==
    /\ down[t].st = "deleting" /\ down'[t].st = "absent"
    /\ downWatch'[t] = Append(downWatch[t], "deleted")
    /\ SameView(t) /\ SameWork(t) /\ downSeen'[t] = downSeen[t]

Restarts(t) ==
    /\ upstream' = upstream /\ down'[t] = down[t]
    /\ cached'[t] = ViewOf(upstream, t) /\ watch'[t] = <<>> /\ downWatch'[t] = <<>>
    /\ downSeen'[t] = (down[t].st # "absent")
    /\ queue'[t] = (IF Selected(upstream, t) THEN {"up"} ELSE {}) \cup
                   (IF down[t].st # "absent" THEN {"status"} ELSE {})
    /\ \A c \in Controllers : step'[t][c] = "idle"

LocalStep(t) ==
    \/ Elsewhere(t) \/ Writes(t) \/ Delivers(t) \/ DeliversDown(t) \/ ProcessesStatus(t)
    \/ Empties(t) \/ Restarts(t)
    \/ \E c \in Controllers : \/ Processes(t, c) \/ Fails(t, c) \/ Releases(t, c)
                              \/ Applies(t, c) \/ Deletes(t, c)

-----------------------------------------------------------------------------
(* Leaving *)

(* A view is leaving when the object is.                                    *)
LEMMA LeavingView ==
    ASSUME NEW o \in Objects, NEW t \in Targets
    PROVE  Leaving(ViewOf(o, t), t) <=> ~Selected(o, t) \/ Removing(o, t)
BY WantedView DEF Leaving

(* Once it has left for good an object stays away, and a write by which it  *)
(* starts to leave is for good.                                             *)
LEMMA WriteLeaves ==
    ASSUME TypeOK, NEW t \in Targets, NEW o \in Objects, Proper(o, t), WriteSeen(o, t)
    PROVE  /\ LeftForGood(t) => LeftForGood(t)'
           /\ t \in upstream'.del => NeverAgain(t)'
           /\ (Selected(upstream, t) \/ Selected(upstream', t))
                 /\ Leaving(ViewOf(upstream', t), t) => LeftForGood(t)'
<1>1. upstream \in Objects /\ upstream' \in Objects /\ Finalized(o) \in Objects
  BY ValueTypes DEF TypeOK, WriteSeen
<1>2. upstream' = Finalized(o) /\ nsSeen' = nsSeen
  BY DEF WriteSeen
<1>3. CASE o.deleting /\ o.fin = {}
  <2>1. upstream' = Gone
    BY <1>2, <1>3 DEF Finalized
  <2>2. ~upstream'.exists /\ upstream'.del = {}
    BY <2>1 DEF Gone
  <2>3. LeftForGood(t)'
    BY <1>1, <2>2, LeavingView DEF LeftForGood, NeverAgain, Selected
  <2> QED BY <2>2, <2>3
<1>4. CASE ~(o.deleting /\ o.fin = {})
  <2>1. upstream' = o
    BY <1>2, <1>4 DEF Finalized
  <2>2. NeverAgain(t)' <=> o.deleting \/ t \notin nsSeen.label \/ t \in nsSeen.del
    BY <1>2, <2>1 DEF NeverAgain, Proper
  <2>3. NeverAgain(t) <=> upstream.deleting \/ t \notin nsSeen.label \/ t \in nsSeen.del
    BY DEF NeverAgain, Proper
  <2>4. NeverAgain(t) => NeverAgain(t)'
    BY <2>2, <2>3 DEF Proper
  <2>5. t \in upstream'.del => NeverAgain(t)'
    BY <2>1, <2>2 DEF Proper
  <2>6. ASSUME LeftForGood(t)
        PROVE  LeftForGood(t)'
    <3>1. NeverAgain(t) /\ (~Selected(upstream, t) \/ Removing(upstream, t))
      BY <1>1, <2>6, LeavingView DEF LeftForGood
    <3>2. ~Selected(upstream', t) \/ Removing(upstream', t)
      BY <2>1, <3>1 DEF Proper, Selected
    <3>3. Leaving(ViewOf(upstream', t), t)
      BY <1>1, <3>2, LeavingView
    <3> QED BY <2>4, <3>1, <3>3 DEF LeftForGood
  <2>7. ASSUME Selected(upstream, t) \/ Selected(upstream', t),
               Leaving(ViewOf(upstream', t), t)
        PROVE  LeftForGood(t)'
    <3>1. ~Selected(upstream', t) \/ Removing(upstream', t)
      BY <1>1, <2>7, LeavingView
    <3>2. CASE Removing(upstream', t)
      BY <2>5, <2>7, <3>2 DEF Removing, LeftForGood
    <3>3. CASE ~Selected(upstream', t)
      <4>1. t \in upstream.label /\ t \notin o.label
        BY <2>1, <2>7, <3>3 DEF Selected, Proper
      <4> QED BY <2>2, <2>7, <4>1 DEF Proper, LeftForGood
    <3> QED BY <3>1, <3>2, <3>3
  <2> QED BY <2>5, <2>6, <2>7
<1> QED BY <1>3, <1>4

LEMMA NeverAgainKept ==
    ASSUME NamespaceShrinks, nsSeen' \in {nsSeen, ns}, upstream' = upstream, NEW t
    PROVE  /\ NeverAgain(t) => NeverAgain(t)'
           /\ LeftForGood(t) => LeftForGood(t)'
BY DEF NamespaceShrinks, NeverAgain, LeftForGood, Leaving

(* What a write leaves on its way.                                          *)
LEMMA WriteWatch ==
    ASSUME TypeOK, NEW t \in Targets, NEW o \in Objects, WriteSeen(o, t)
    PROVE  /\ Len(watch[t]) \in Nat
           /\ \/ watch'[t] = watch[t]
              \/ /\ Selected(upstream, t) \/ Selected(upstream', t)
                 /\ Len(watch'[t]) = Len(watch[t]) + 1
                 /\ \A i \in 1 .. Len(watch[t]) : watch'[t][i] = watch[t][i]
                 /\ watch'[t][Len(watch[t]) + 1] = ViewOf(upstream', t)
<1>1. watch[t] \in Seq(Views \cup {NoView}) /\ ViewOf(upstream', t) \in Views \cup {NoView}
  <2>1. upstream' \in Objects
    BY ValueTypes DEF WriteSeen
  <2> QED BY <2>1, ValueTypes DEF TypeOK
<1> QED BY <1>1, AppendProperties DEF WriteSeen

(* What a delivery leaves on its way.                                       *)
LEMMA DeliveredWatch ==
    ASSUME TypeOK, NEW t \in Targets, Delivers(t)
    PROVE  /\ Len(watch[t]) \in Nat \ {0}
           /\ cached'[t] = watch[t][1]
           /\ Len(watch'[t]) = Len(watch[t]) - 1
           /\ \A i \in 1 .. Len(watch'[t]) : watch'[t][i] = watch[t][i + 1]
<1>1. watch[t] \in Seq(Views \cup {NoView}) /\ watch[t] # <<>>
  BY DEF TypeOK, Delivers
<1>2. Len(watch[t]) \in Nat /\ Len(watch[t]) # 0
  BY <1>1, EmptySeq
<1>3. PICK r \in Seq(Views \cup {NoView}) :
         /\ r = Tail(watch[t]) /\ Len(r) = Len(watch[t]) - 1
         /\ \A i \in 1 .. Len(r) : r[i] = watch[t][i + 1]
  BY <1>1, HeadTailProperties
<1>4. cached'[t] = watch[t][1]
  BY <1>1 DEF Delivers
<1> QED BY <1>2, <1>3, <1>4 DEF Delivers

(* What is over stays over.                                                 *)
LEMMA OverKept ==
    ASSUME TypeOK, NamespaceShrinks, nsSeen' \in {nsSeen, ns}, NEW t \in Targets,
           LocalStep(t), Over(t)
    PROVE  Over(t)'
<1>1. CASE SameView(t)
  <2>1. LeftForGood(t)'
    BY <1>1, NeverAgainKept DEF SameView, Over
  <2> QED BY <1>1, <2>1 DEF SameView, Over, Leaving
<1>2. CASE Writes(t)
  <2>1. PICK o \in Objects : Proper(o, t) /\ WriteSeen(o, t)
    BY <1>2 DEF Writes
  <2>2. LeftForGood(t)'
    BY <2>1, WriteLeaves DEF Over
  <2>3. Leaving(cached'[t], t)
    BY <2>1 DEF WriteSeen, Over
  <2>4. ASSUME NEW i \in 1 .. Len(watch'[t])
        PROVE  Leaving(watch'[t][i], t)
    <3>1. CASE watch'[t] = watch[t]
      BY <3>1 DEF Over
    <3>2. CASE watch'[t] # watch[t]
      <4>1. /\ Len(watch[t]) \in Nat /\ Len(watch'[t]) = Len(watch[t]) + 1
            /\ \A k \in 1 .. Len(watch[t]) : watch'[t][k] = watch[t][k]
            /\ watch'[t][Len(watch[t]) + 1] = ViewOf(upstream', t)
        BY <2>1, <3>2, WriteWatch
      <4>2. CASE i \in 1 .. Len(watch[t])
        BY <4>1, <4>2 DEF Over
      <4>3. CASE i = Len(watch[t]) + 1
        <5>1. Leaving(ViewOf(upstream', t), t)
          BY <2>2 DEF LeftForGood, Leaving
        <5> QED BY <4>1, <4>3, <5>1
      <4>4. i \in 1 .. Len(watch[t]) \/ i = Len(watch[t]) + 1
        BY <4>1
      <4> QED BY <4>2, <4>3, <4>4
    <3> QED BY <3>1, <3>2
  <2> QED BY <2>2, <2>3, <2>4 DEF Over, Leaving
<1>3. CASE Delivers(t)
  <2>1. /\ Len(watch[t]) \in Nat \ {0} /\ cached'[t] = watch[t][1]
        /\ Len(watch'[t]) = Len(watch[t]) - 1
        /\ \A i \in 1 .. Len(watch'[t]) : watch'[t][i] = watch[t][i + 1]
    BY <1>3, DeliveredWatch
  <2>2. LeftForGood(t)'
    BY <1>3, NeverAgainKept DEF Delivers, Over
  <2>3. 1 \in 1 .. Len(watch[t]) /\ \A i \in 1 .. Len(watch'[t]) : i + 1 \in 1 .. Len(watch[t])
    BY <2>1
  <2>4. Leaving(cached'[t], t) /\ \A i \in 1 .. Len(watch'[t]) : Leaving(watch'[t][i], t)
    BY <2>1, <2>3 DEF Over
  <2> QED BY <2>2, <2>4 DEF Over, Leaving
<1>4. CASE Restarts(t)
  <2>1. LeftForGood(t)'
    BY <1>4, NeverAgainKept DEF Restarts, Over
  <2>2. Leaving(cached'[t], t)
    BY <1>4 DEF Restarts, Over, LeftForGood
  <2>3. 1 .. Len(watch'[t]) = {}
    BY <1>4 DEF Restarts
  <2> QED BY <2>1, <2>2, <2>3 DEF Over, Leaving
<1> QED BY <1>1, <1>2, <1>3, <1>4
        DEF LocalStep, Elsewhere, DeliversDown, ProcessesStatus, Empties, Processes, Fails,
            Releases, Applies, Deletes

(* Views go on leaving.                                                     *)
LEMMA LeavesKept ==
    ASSUME TypeOK, ClaimsAreLabelled, AbsentIsGone,
           NamespaceShrinks, nsSeen' \in {nsSeen, ns}, NEW t \in Targets,
           LocalStep(t), LeavesForGood(t), DeletedForGood(t), AppliedIsClaimed(t)
    PROVE  LeavesForGood(t)'
<1>0. Over(t) => Over(t)'
  BY OverKept
<1>1. ASSUME SameView(t), Active(t)' => Active(t) \/ Over(t)
      PROVE  LeavesForGood(t)'
  <2>1. /\ NeverAgain(t) => NeverAgain(t)'
        /\ LeftForGood(t) => LeftForGood(t)'
    BY <1>1, NeverAgainKept DEF SameView
  <2>2. upstream' = upstream /\ watch'[t] = watch[t] /\ cached'[t] = cached[t]
    BY <1>1 DEF SameView
  <2>3. t \in upstream'.del => NeverAgain(t)'
    BY <2>1, <2>2 DEF LeavesForGood
  <2>4. ASSUME NEW i \in 1 .. Len(watch'[t]), Leaving(watch'[t][i], t)
        PROVE  LeftForGood(t)' /\ \A j \in i .. Len(watch'[t]) : Leaving(watch'[t][j], t)
    BY <2>1, <2>2, <2>4 DEF LeavesForGood
  <2>5. Leaving(cached'[t], t) /\ (cached'[t] # NoView \/ Active(t)') => Over(t)'
    BY <1>0, <1>1, <2>2 DEF LeavesForGood
  <2> QED BY <2>3, <2>4, <2>5 DEF LeavesForGood, Leaving
<1>2. CASE Writes(t)
  <2>1. PICK o \in Objects : Proper(o, t) /\ WriteSeen(o, t)
    BY <1>2 DEF Writes
  <2>2. /\ LeftForGood(t) => LeftForGood(t)'
        /\ t \in upstream'.del => NeverAgain(t)'
        /\ (Selected(upstream, t) \/ Selected(upstream', t))
              /\ Leaving(ViewOf(upstream', t), t) => LeftForGood(t)'
    BY <2>1, WriteLeaves
  <2>3. ASSUME NEW i \in 1 .. Len(watch'[t]), Leaving(watch'[t][i], t)
        PROVE  LeftForGood(t)' /\ \A j \in i .. Len(watch'[t]) : Leaving(watch'[t][j], t)
    <3>1. CASE watch'[t] = watch[t]
      BY <2>2, <2>3, <3>1 DEF LeavesForGood
    <3>2. CASE watch'[t] # watch[t]
      <4>1. /\ Len(watch[t]) \in Nat /\ Len(watch'[t]) = Len(watch[t]) + 1
            /\ \A k \in 1 .. Len(watch[t]) : watch'[t][k] = watch[t][k]
            /\ watch'[t][Len(watch[t]) + 1] = ViewOf(upstream', t)
            /\ Selected(upstream, t) \/ Selected(upstream', t)
        BY <2>1, <3>2, WriteWatch
      <4>2. CASE i \in 1 .. Len(watch[t])
        <5>1. LeftForGood(t) /\ \A j \in i .. Len(watch[t]) : Leaving(watch[t][j], t)
          BY <2>3, <4>1, <4>2 DEF LeavesForGood
        <5>2. LeftForGood(t)' /\ Leaving(ViewOf(upstream', t), t)
          BY <2>2, <5>1 DEF LeftForGood, Leaving
        <5>3. ASSUME NEW j \in i .. Len(watch'[t])
              PROVE  Leaving(watch'[t][j], t)
          <6>1. CASE j = Len(watch[t]) + 1
            BY <4>1, <5>2, <6>1
          <6>2. CASE j # Len(watch[t]) + 1
            <7>1. j \in i .. Len(watch[t]) /\ j \in 1 .. Len(watch[t])
              BY <4>1, <4>2, <6>2
            <7> QED BY <4>1, <5>1, <7>1
          <6> QED BY <6>1, <6>2
        <5> QED BY <5>2, <5>3
      <4>3. CASE i = Len(watch[t]) + 1
        <5>1. LeftForGood(t)'
          BY <2>2, <2>3, <4>1, <4>3
        <5>2. \A j \in i .. Len(watch'[t]) : j = i
          BY <4>1, <4>3
        <5> QED BY <2>3, <5>1, <5>2
      <4>4. i \in 1 .. Len(watch[t]) \/ i = Len(watch[t]) + 1
        BY <4>1
      <4> QED BY <4>2, <4>3, <4>4
    <3> QED BY <3>1, <3>2
  <2>4. Leaving(cached'[t], t) /\ (cached'[t] # NoView \/ Active(t)') => Over(t)'
    <3>1. Active(t)' => Active(t)
      BY <1>2 DEF Writes, SameDown, SameWork, Moves, Active
    <3> QED BY <1>0, <2>1, <3>1 DEF WriteSeen, LeavesForGood
  <2> QED BY <2>2, <2>3, <2>4 DEF LeavesForGood, Leaving
<1>3. CASE Delivers(t)
  <2>1. /\ Len(watch[t]) \in Nat \ {0} /\ cached'[t] = watch[t][1]
        /\ Len(watch'[t]) = Len(watch[t]) - 1
        /\ \A i \in 1 .. Len(watch'[t]) : watch'[t][i] = watch[t][i + 1]
    BY <1>3, DeliveredWatch
  <2>2. upstream' = upstream
    BY <1>3 DEF Delivers
  <2>3. /\ NeverAgain(t) => NeverAgain(t)'
        /\ LeftForGood(t) => LeftForGood(t)'
    BY <2>2, NeverAgainKept
  <2>4. t \in upstream'.del => NeverAgain(t)'
    BY <2>2, <2>3 DEF LeavesForGood
  <2>5. \A i \in 1 .. Len(watch'[t]) : i + 1 \in 1 .. Len(watch[t])
    BY <2>1
  <2>6. ASSUME NEW i \in 1 .. Len(watch'[t]), Leaving(watch'[t][i], t)
        PROVE  LeftForGood(t)' /\ \A j \in i .. Len(watch'[t]) : Leaving(watch'[t][j], t)
    <3>1. LeftForGood(t) /\ \A j \in i + 1 .. Len(watch[t]) : Leaving(watch[t][j], t)
      BY <2>1, <2>5, <2>6 DEF LeavesForGood
    <3>2. ASSUME NEW j \in i .. Len(watch'[t])
          PROVE  Leaving(watch'[t][j], t)
      <4>1. j + 1 \in i + 1 .. Len(watch[t]) /\ j \in 1 .. Len(watch'[t])
        BY <2>1
      <4> QED BY <2>1, <3>1, <4>1
    <3> QED BY <2>3, <3>1, <3>2
  <2>7. ASSUME Leaving(cached'[t], t)
        PROVE  Over(t)'
    <3>1. 1 \in 1 .. Len(watch[t])
      BY <2>1
    <3>2. LeftForGood(t) /\ \A j \in 1 .. Len(watch[t]) : Leaving(watch[t][j], t)
      BY <2>1, <2>7, <3>1 DEF LeavesForGood
    <3>3. LeftForGood(t)' /\ \A i \in 1 .. Len(watch'[t]) : Leaving(watch'[t][i], t)
      BY <2>1, <2>3, <2>5, <3>2
    <3> QED BY <2>7, <3>3 DEF Over, Leaving
  <2> QED BY <2>4, <2>6, <2>7 DEF LeavesForGood, Leaving
<1>4. CASE Restarts(t)
  <2>1. /\ upstream' = upstream /\ cached'[t] = ViewOf(upstream, t) /\ 1 .. Len(watch'[t]) = {}
        /\ upstream \in Objects
    BY <1>4 DEF Restarts, TypeOK
  <2>2. NeverAgain(t) => NeverAgain(t)'
    BY <2>1, NeverAgainKept
  <2>3. t \in upstream'.del => NeverAgain(t)'
    BY <2>1, <2>2 DEF LeavesForGood
  <2>4. ASSUME Leaving(cached'[t], t), cached'[t] # NoView
        PROVE  Over(t)'
    <3>1. t \in upstream.del
      BY <2>1, <2>4 DEF Leaving, Removing, ViewOf, AfterRead
    <3>2. LeftForGood(t)'
      BY <2>1, <2>3, <2>4, <3>1 DEF LeftForGood, Leaving
    <3> QED BY <2>1, <2>4, <3>2 DEF Over, Leaving
  <2>5. ASSUME cached'[t] = NoView
        PROVE  ~Active(t)'
    <3>1. ~Selected(upstream, t)
      <4>1. AfterRead(upstream, t) \in Views
        BY <2>1 DEF AfterRead, Views, Objects
      <4> QED BY <2>1, <2>5, <4>1, NoViewIsNoView DEF ViewOf
    <3>2. down[t].st = "absent"
      <4>1. t \in upstream.fin => t \in upstream.label /\ upstream.exists
        BY DEF ClaimsAreLabelled, AbsentIsGone, Gone
      <4> QED BY <3>1, <4>1 DEF AppliedIsClaimed, Selected
    <3>3. queue'[t] = {} /\ downWatch'[t] = <<>>
      BY <1>4, <3>1, <3>2 DEF Restarts
    <3> QED BY <1>4, <3>3 DEF Restarts, Active
  <2> QED BY <2>1, <2>3, <2>4, <2>5 DEF LeavesForGood, Leaving
<1>5. CASE Elsewhere(t)
  <2>1. Active(t)' => Active(t)
    BY <1>5 DEF Elsewhere, SameDown, SameWork, Active
  <2> QED BY <1>1, <1>5, <2>1 DEF Elsewhere
<1>6. CASE DeliversDown(t) \/ ProcessesStatus(t)
  BY <1>1, <1>6 DEF DeliversDown, ProcessesStatus, Active
<1>7. ASSUME NEW c \in Controllers,
             \/ Processes(t, c) \/ Fails(t, c) \/ Releases(t, c)
             \/ Applies(t, c) \/ Deletes(t, c)
      PROVE  LeavesForGood(t)'
  <2>1. Active(t) /\ SameView(t)
    BY <1>7 DEF Processes, Fails, Releases, Applies, Deletes, Active
  <2> QED BY <1>1, <2>1
<1>8. CASE Empties(t)
  BY <1>1, <1>8 DEF Empties, DeletedForGood, Ended
<1> QED BY <1>2, <1>3, <1>4, <1>5, <1>6, <1>7, <1>8 DEF LocalStep

(* What a spec syncer does with a view.                                     *)
LEMMA ViewStep ==
    ASSUME NEW v, NEW t
    PROVE  /\ v = NoView => SpecStep(v, t) = "orphan"
           /\ v # NoView /\ Leaving(v, t) => SpecStep(v, t) = "delete"
           /\ ~Leaving(v, t) => /\ SpecStep(v, t) \in {"claim", "apply"}
                                /\ SpecStep(v, t) = "apply" => v.fin
BY DEF SpecStep, Leaving

(* Nothing is applied any more, and an empty target stays empty.            *)
LEMMA EndedKept ==
    ASSUME TypeOK, NamespaceShrinks, nsSeen' \in {nsSeen, ns}, NEW t \in Targets,
           LocalStep(t), Ended(t)
    PROVE  Ended(t)'
<1>1. Over(t)'
  BY OverKept DEF Ended
<1>2. "up" \in Controllers /\ "status" \in Controllers /\ "up" # "status"
  BY DEF Controllers, SpecSyncers
<1>3. step[t]["up"] # "apply" /\ Leaving(cached[t], t)
  BY DEF Ended, Over
<1>4. ASSUME NEW c \in Controllers, NEW s, Moves(t, c, s), s # "apply"
      PROVE  step'[t]["up"] # "apply"
  BY <1>2, <1>3, <1>4 DEF Moves
<1>5. CASE \E c \in Controllers : Processes(t, c)
  <2>1. SpecStep(cached[t], t) # "apply"
    BY <1>3, ViewStep
  <2>2. step'[t]["up"] # "apply"
    BY <1>4, <1>5, <2>1 DEF Processes
  <2> QED BY <1>1, <2>2 DEF Ended
<1>6. CASE ~\E c \in Controllers : Processes(t, c)
  <2>1. step'[t]["up"] # "apply"
    BY <1>2, <1>3, <1>4, <1>6
       DEF LocalStep, Elsewhere, SameWork, Writes, Delivers, DeliversDown, ProcessesStatus,
           Empties, Restarts, Fails, Releases, Applies, Deletes
  <2> QED BY <1>1, <2>1 DEF Ended
<1> QED BY <1>5, <1>6

LEMMA EmptiedKept ==
    ASSUME TypeOK, NamespaceShrinks, nsSeen' \in {nsSeen, ns}, NEW t \in Targets,
           LocalStep(t), DeletedForGood(t), Emptied(t)
    PROVE  Emptied(t)'
<1>1. Ended(t)'
  BY EndedKept DEF Emptied
<1>2. \A c \in Controllers : step[t][c] # "apply"
  BY DEF Emptied, Ended, DeletedForGood, Controllers, SpecSyncers
<1>3. down'[t].st = "absent"
  BY <1>2 DEF Emptied, LocalStep, Elsewhere, SameDown, Writes, Delivers, DeliversDown,
              ProcessesStatus, Empties, Restarts, Processes, Fails, Releases, Applies, Deletes
<1> QED BY <1>1, <1>3 DEF Emptied

(* A deletion on its way was so before, or it empties the target.           *)
LEMMA DeletionsArrive ==
    ASSUME TypeOK, NamespaceShrinks, nsSeen' \in {nsSeen, ns}, NEW t \in Targets,
           LocalStep(t), DeletedForGood(t), DeletionUnseen(t)'
    PROVE  Emptied(t)'
<1>1. downWatch[t] \in Seq(DownEvents)
  BY DEF TypeOK
<1>2. DeletionUnseen(t) => Emptied(t)'
  BY EmptiedKept DEF DeletedForGood
<1>3. CASE downWatch'[t] = downWatch[t]
  BY <1>2, <1>3 DEF DeletionUnseen
<1>4. CASE DeliversDown(t)
  <2>1. downWatch[t] # <<>> /\ downWatch'[t] = Tail(downWatch[t])
    BY <1>4 DEF DeliversDown
  <2>2. PICK i \in 1 .. Len(downWatch'[t]) : downWatch'[t][i] = "deleted"
    BY DEF DeletionUnseen
  <2>3. PICK r \in Seq(DownEvents) :
           /\ r = Tail(downWatch[t]) /\ Len(r) = Len(downWatch[t]) - 1
           /\ \A k \in 1 .. Len(r) : r[k] = downWatch[t][k + 1]
    <3>1. downWatch[t] \in Seq(DownEvents) /\ downWatch[t] # <<>>
      BY <1>1, <2>1
    <3> HIDE <2>2
    <3> QED BY <3>1, HeadTailProperties
  <2>4. i + 1 \in 1 .. Len(downWatch[t]) /\ downWatch[t][i + 1] = "deleted"
    BY <1>1, <2>1, <2>2, <2>3
  <2> QED BY <1>2, <2>4 DEF DeletionUnseen
<1>5. CASE Empties(t)
  <2>1. Ended(t)'
    BY <1>5, EndedKept DEF Empties, DeletedForGood
  <2> QED BY <1>5, <2>1 DEF Empties, Emptied
<1>6. CASE downWatch'[t] = Append(downWatch[t], "applied")
  <2>1. /\ Len(downWatch'[t]) = Len(downWatch[t]) + 1 /\ Len(downWatch[t]) \in Nat
        /\ \A k \in 1 .. Len(downWatch[t]) : downWatch'[t][k] = downWatch[t][k]
        /\ downWatch'[t][Len(downWatch[t]) + 1] = "applied"
    BY <1>1, <1>6, AppendProperties DEF DownEvents
  <2>2. PICK i \in 1 .. Len(downWatch'[t]) : downWatch'[t][i] = "deleted"
    BY DEF DeletionUnseen
  <2>3. i \in 1 .. Len(downWatch[t])
    BY <2>1, <2>2
  <2> QED BY <1>2, <2>1, <2>2, <2>3 DEF DeletionUnseen
<1>7. CASE Restarts(t)
  BY <1>7 DEF Restarts, DeletionUnseen
<1> QED BY <1>3, <1>4, <1>5, <1>6, <1>7
        DEF LocalStep, Elsewhere, SameDown, Writes, Delivers, ProcessesStatus, Processes,
            Fails, Releases, Applies, Deletes

(* Deletions go on being for good.                                          *)
LEMMA DeletedKept ==
    ASSUME TypeOK, NamespaceShrinks, nsSeen' \in {nsSeen, ns}, NEW t \in Targets,
           LocalStep(t), LeavesForGood(t), DeletedForGood(t)
    PROVE  DeletedForGood(t)'
<1>1. /\ Over(t) => Over(t)'
      /\ Ended(t) => Ended(t)'
      /\ Emptied(t) => Emptied(t)'
      /\ DeletionUnseen(t)' => Emptied(t)'
  BY OverKept, EndedKept, EmptiedKept, DeletionsArrive
<1>2. Controllers = {"up", "down", "status"}
  BY DEF Controllers, SpecSyncers
<1>3. CASE Elsewhere(t) \/ Delivers(t)
  BY <1>1, <1>3 DEF Elsewhere, Delivers, SameDown, SameWork, DeletedForGood
<1>4. CASE Writes(t)
  BY <1>1, <1>2, <1>4 DEF Writes, Moves, SameDown, SameWork, DeletedForGood
<1>5. CASE DeliversDown(t)
  <2>1. downWatch[t] \in Seq(DownEvents) /\ downWatch[t] # <<>>
    BY <1>5 DEF DeliversDown, TypeOK
  <2>2. Head(downWatch[t]) = downWatch[t][1] /\ 1 \in 1 .. Len(downWatch[t])
    BY <2>1
  <2>3. Head(downWatch[t]) = "deleted" => Emptied(t)
    BY <2>2 DEF DeletionUnseen, DeletedForGood
  <2>4. /\ "down" \in queue'[t] => "down" \in queue[t] \/ Emptied(t)
        /\ ~downSeen'[t] => Emptied(t)
        /\ step'[t] = step[t] /\ down'[t] = down[t]
    BY <1>5, <2>3 DEF DeliversDown
  <2> QED BY <1>1, <2>4 DEF DeletedForGood
<1>6. CASE Processes(t, "up")
  <2>1. Leaving(cached[t], t) => Over(t)
    BY <1>6 DEF Processes, LeavesForGood, Active
  <2>0. /\ SpecStep(cached[t], t) \in {"orphan", "delete"} => Leaving(cached[t], t)
        /\ SpecStep(cached[t], t) \in {"orphan", "delete", "claim", "apply"}
    <3>1. CASE Leaving(cached[t], t)
      <4>1. SpecStep(cached[t], t) = "orphan" \/ SpecStep(cached[t], t) = "delete"
        <5>1. CASE cached[t] = NoView
          BY <5>1 DEF SpecStep
        <5>2. CASE cached[t] # NoView
          BY <3>1, <5>2 DEF SpecStep, Leaving
        <5> QED BY <5>1, <5>2
      <4> QED BY <3>1, <4>1
    <3>2. CASE ~Leaving(cached[t], t)
      <4>1. SpecStep(cached[t], t) \in {"claim", "apply"}
        BY <3>2 DEF SpecStep, Leaving
      <4> QED BY <4>1
    <3> QED BY <3>1, <3>2
  <2>2. step'[t]["up"] \in {"orphan", "delete"} => Over(t)
    BY <1>6, <2>0, <2>1 DEF Processes, Moves
  <2>3. step'[t]["up"] \in {"orphan", "delete", "claim", "apply"}
    BY <1>6, <2>0 DEF Processes, Moves
  <2> QED BY <1>1, <1>2, <1>6, <2>2, <2>3 DEF Processes, Moves, SameDown, DeletedForGood
<1>7. CASE Processes(t, "down")
  <2>1. Emptied(t) /\ Leaving(cached[t], t)
    BY <1>7 DEF Processes, DeletedForGood, Emptied, Ended, Over
  <2>2. step'[t]["down"] # "apply"
    BY <1>7, <2>1, ViewStep DEF Processes, Moves
  <2> QED BY <1>1, <1>2, <1>7, <2>1, <2>2 DEF Processes, Moves, SameDown, DeletedForGood
<1>8. CASE ProcessesStatus(t)
  BY <1>1, <1>2, <1>8 DEF ProcessesStatus, Moves, SameDown, DeletedForGood
<1>9. ASSUME NEW c \in Controllers, Fails(t, c)
      PROVE  DeletedForGood(t)'
  BY <1>1, <1>2, <1>9 DEF Fails, Moves, SameDown, DeletedForGood
<1>10. ASSUME NEW c \in Controllers, Releases(t, c)
      PROVE  DeletedForGood(t)'
  BY <1>1, <1>2, <1>10 DEF Releases, Moves, SameDown, DeletedForGood
<1>11. ASSUME NEW c \in Controllers, Applies(t, c)
      PROVE  DeletedForGood(t)'
  BY <1>1, <1>2, <1>11 DEF Applies, Moves, DeletedForGood
<1>12. ASSUME NEW c \in Controllers, Deletes(t, c)
      PROVE  DeletedForGood(t)'
  <2>1. CASE c = "up"
    <3>1. Ended(t) /\ (down[t].st = "absent" => Emptied(t))
      BY <1>12, <2>1 DEF Deletes, DeletedForGood, Ended, Emptied
    <3> QED BY <1>1, <1>2, <1>12, <2>1, <3>1 DEF Deletes, Moves, DeletedForGood
  <2>2. CASE c = "down"
    <3>1. Emptied(t) /\ Ended(t)
      BY <1>12, <2>2 DEF Deletes, DeletedForGood, Emptied
    <3> QED BY <1>1, <1>2, <1>12, <2>2, <3>1 DEF Deletes, Moves, DeletedForGood
  <2> QED BY <1>2, <1>12, <2>1, <2>2 DEF Deletes, DeletedForGood
<1>13. CASE Empties(t)
  BY <1>1, <1>13 DEF Empties, SameWork, DeletedForGood
<1>14. CASE Restarts(t)
  BY <1>1, <1>2, <1>14 DEF Restarts, DeletedForGood
<1>15. \A c \in Controllers : Processes(t, c) => c \in {"up", "down"}
  BY DEF Processes, SpecSyncers
<1> QED BY <1>3, <1>4, <1>5, <1>6, <1>7, <1>8, <1>9, <1>10, <1>11, <1>12, <1>13, <1>14, <1>15
        DEF LocalStep

(* The finalizer in a view is the target's own.                             *)
LEMMA ViewFin ==
    ASSUME NEW o, NEW t, ~Leaving(ViewOf(o, t), t), ViewOf(o, t).fin
    PROVE  t \in o.fin
<1>1. ViewOf(o, t) = AfterRead(o, t)
  BY DEF Leaving, ViewOf
<1>2. AfterRead(o, t).fin = (t \in o.fin)
  BY DEF AfterRead
<1>3. ViewOf(o, t).fin = (t \in o.fin)
  BY <1>1, <1>2, Zenon
<1> QED BY <1>3, Zenon

(* What a write makes of the finalizer of t, and the view it sends.         *)
LEMMA WriteClaims ==
    ASSUME TypeOK, NEW t \in Targets, NEW o \in Objects, Proper(o, t), WriteSeen(o, t)
    PROVE  /\ t \in upstream.fin /\ t \notin upstream'.fin => Emptied(t)
           /\ ~Leaving(ViewOf(upstream', t), t) /\ ViewOf(upstream', t).fin
                 => t \in upstream'.fin
<1>1. upstream' = Finalized(o)
  BY DEF WriteSeen
<1>2. t \in upstream'.fin <=> t \in o.fin
  BY <1>1 DEF Finalized, Gone
<1>3. ~Leaving(ViewOf(upstream', t), t) /\ ViewOf(upstream', t).fin => t \in upstream'.fin
  BY ViewFin, Zenon
<1> QED BY <1>2, <1>3 DEF Proper

(* What is applied goes on being claimed.                                   *)
LEMMA AppliedKept ==
    ASSUME TypeOK, NamespaceShrinks, nsSeen' \in {nsSeen, ns}, NEW t \in Targets,
           LocalStep(t), LeavesForGood(t), DeletedForGood(t), AppliedIsClaimed(t)
    PROVE  AppliedIsClaimed(t)'
<1>1. Controllers = {"up", "down", "status"}
  BY DEF Controllers, SpecSyncers
<1>2. ASSUME SameView(t), down'[t].st # "absent" => t \in upstream.fin,
             step'[t]["up"] = "apply" => t \in upstream.fin
      PROVE  AppliedIsClaimed(t)'
  BY <1>2 DEF SameView, AppliedIsClaimed, Leaving, Removing
<1>3. CASE Writes(t)
  <2>1. PICK o \in Objects : Proper(o, t) /\ WriteSeen(o, t)
    BY <1>3 DEF Writes
  <2>2. /\ t \in upstream.fin /\ t \notin upstream'.fin => Emptied(t)
        /\ ~Leaving(ViewOf(upstream', t), t) /\ ViewOf(upstream', t).fin
              => t \in upstream'.fin
    BY <2>1, WriteClaims
  <2>3. CASE Emptied(t)
    <3>1. Emptied(t)'
      BY <2>3, EmptiedKept
    <3> QED BY <3>1 DEF Emptied, Ended, Over, AppliedIsClaimed, Leaving
  <2>4. CASE ~Emptied(t)
    <3>1. t \in upstream.fin => t \in upstream'.fin
      BY <2>2, <2>4
    <3>2. down'[t].st # "absent" => t \in upstream'.fin
      BY <1>3, <3>1 DEF Writes, SameDown, AppliedIsClaimed
    <3>3. step'[t]["up"] = "apply" => t \in upstream'.fin
      BY <1>1, <1>3, <3>1 DEF Writes, SameWork, Moves, AppliedIsClaimed
    <3>4. ~Leaving(cached'[t], t) /\ cached'[t].fin => t \in upstream'.fin
      BY <2>1, <3>1 DEF WriteSeen, AppliedIsClaimed
    <3>5. ASSUME NEW i \in 1 .. Len(watch'[t]), ~Leaving(watch'[t][i], t), watch'[t][i].fin
          PROVE  t \in upstream'.fin
      <4>1. CASE watch'[t] = watch[t]
        BY <3>1, <3>5, <4>1 DEF AppliedIsClaimed
      <4>2. CASE watch'[t] # watch[t]
        <5>1. /\ Len(watch[t]) \in Nat /\ Len(watch'[t]) = Len(watch[t]) + 1
              /\ \A k \in 1 .. Len(watch[t]) : watch'[t][k] = watch[t][k]
              /\ watch'[t][Len(watch[t]) + 1] = ViewOf(upstream', t)
          BY <2>1, <4>2, WriteWatch
        <5>2. CASE i \in 1 .. Len(watch[t])
          BY <3>1, <3>5, <5>1, <5>2 DEF AppliedIsClaimed
        <5>3. CASE i = Len(watch[t]) + 1
          BY <2>2, <3>5, <5>1, <5>3
        <5>4. i \in 1 .. Len(watch[t]) \/ i = Len(watch[t]) + 1
          BY <5>1
        <5> QED BY <5>2, <5>3, <5>4
      <4> QED BY <4>1, <4>2
    <3> QED BY <3>2, <3>3, <3>4, <3>5 DEF AppliedIsClaimed, Leaving
  <2> QED BY <2>3, <2>4
<1>4. CASE Delivers(t)
  <2>1. /\ Len(watch[t]) \in Nat \ {0} /\ cached'[t] = watch[t][1]
        /\ Len(watch'[t]) = Len(watch[t]) - 1
        /\ \A i \in 1 .. Len(watch'[t]) : watch'[t][i] = watch[t][i + 1]
    BY <1>4, DeliveredWatch
  <2>2. 1 \in 1 .. Len(watch[t]) /\ \A i \in 1 .. Len(watch'[t]) : i + 1 \in 1 .. Len(watch[t])
    BY <2>1
  <2>3. ~Leaving(cached'[t], t) /\ cached'[t].fin => t \in upstream.fin
    BY <2>1, <2>2 DEF AppliedIsClaimed
  <2>4. ASSUME NEW i \in 1 .. Len(watch'[t]), ~Leaving(watch'[t][i], t), watch'[t][i].fin
        PROVE  t \in upstream.fin
    BY <2>1, <2>2, <2>4 DEF AppliedIsClaimed
  <2>5. upstream' = upstream /\ down'[t] = down[t] /\ step'[t] = step[t]
    BY <1>4 DEF Delivers, SameDown
  <2> QED BY <2>3, <2>4, <2>5 DEF AppliedIsClaimed, Leaving
<1>5. CASE Restarts(t)
  <2>1. /\ upstream' = upstream /\ down'[t] = down[t] /\ step'[t]["up"] = "idle"
        /\ cached'[t] = ViewOf(upstream, t) /\ 1 .. Len(watch'[t]) = {}
    BY <1>1, <1>5 DEF Restarts
  <2>2. ~Leaving(cached'[t], t) /\ cached'[t].fin => t \in upstream.fin
    BY <2>1, ViewFin, Zenon
  <2> QED BY <2>1, <2>2 DEF AppliedIsClaimed, Leaving
<1>6. ASSUME NEW c \in Controllers, Processes(t, c)
      PROVE  AppliedIsClaimed(t)'
  <2>1. SpecStep(cached[t], t) = "apply" => t \in upstream.fin
    BY ViewStep DEF AppliedIsClaimed
  <2> QED BY <1>1, <1>2, <1>6, <2>1 DEF Processes, Moves, SameDown, AppliedIsClaimed
<1>7. ASSUME NEW c \in Controllers, Fails(t, c) \/ Releases(t, c)
      PROVE  AppliedIsClaimed(t)'
  BY <1>1, <1>2, <1>7 DEF Fails, Releases, Moves, SameDown, AppliedIsClaimed
<1>8. ASSUME NEW c \in Controllers, Applies(t, c)
      PROVE  AppliedIsClaimed(t)'
  <2>1. c = "up"
    BY <1>1, <1>8 DEF Applies, DeletedForGood
  <2> QED BY <1>2, <1>8, <2>1 DEF Applies, Moves, AppliedIsClaimed
<1>9. ASSUME NEW c \in Controllers, Deletes(t, c)
      PROVE  AppliedIsClaimed(t)'
  BY <1>1, <1>2, <1>9 DEF Deletes, Moves, AppliedIsClaimed
<1>10. CASE Elsewhere(t) \/ DeliversDown(t) \/ ProcessesStatus(t) \/ Empties(t)
  BY <1>1, <1>2, <1>10 DEF Elsewhere, DeliversDown, ProcessesStatus, Empties, Moves, SameDown,
                           SameWork, AppliedIsClaimed
<1> QED BY <1>3, <1>4, <1>5, <1>6, <1>7, <1>8, <1>9, <1>10 DEF LocalStep

(* Nothing goes on being missed.                                            *)
LEMMA MissedKept ==
    ASSUME TypeOK, NEW t \in Targets,
           LocalStep(t), DeletedForGood(t), AppliedIsClaimed(t), NothingMissed(t)
    PROVE  NothingMissed(t)'
<1>1. Controllers = {"up", "down", "status"}
  BY DEF Controllers, SpecSyncers
<1>2. CASE "up" \in queue'[t]
  BY <1>2 DEF NothingMissed
<1>3. CASE Elsewhere(t) \/ DeliversDown(t) \/ ProcessesStatus(t)
  BY <1>1, <1>2, <1>3 DEF Elsewhere, DeliversDown, ProcessesStatus, SameView, SameDown, SameWork,
                    Moves, NothingMissed
<1>4. CASE Delivers(t)
  BY <1>2, <1>4 DEF Delivers, SameDown, NothingMissed
<1>5. CASE Writes(t)
  <2>1. cached'[t] = cached[t] /\ queue'[t] = queue[t] /\ down'[t] = down[t]
    BY <1>5 DEF Writes, WriteSeen, SameDown
  <2>2. CASE SameWork(t)
    BY <2>1, <2>2 DEF SameWork, NothingMissed
  <2>3. CASE ~SameWork(t)
    <3>1. PICK c \in Controllers :
             /\ step[t][c] \in {"claim", "unclaim", "report"} /\ Moves(t, c, "idle")
             /\ step[t][c] = "claim" => t \notin upstream.fin
      BY <1>5, <2>3 DEF Writes
    <3>2. CASE c = "up"
      BY <2>1, <3>1, <3>2 DEF Moves, AppliedIsClaimed, NothingMissed
    <3>3. CASE c # "up"
      BY <1>1, <2>1, <3>1, <3>3 DEF Moves, NothingMissed
    <3> QED BY <3>2, <3>3
  <2> QED BY <2>2, <2>3
<1>6. ASSUME NEW c \in Controllers, Processes(t, c)
      PROVE  NothingMissed(t)'
  <2>0. /\ cached[t] # NoView /\ Leaving(cached[t], t) => SpecStep(cached[t], t) = "delete"
        /\ ~Leaving(cached[t], t) => SpecStep(cached[t], t) \in {"claim", "apply"}
    BY DEF SpecStep, Leaving
  <2>1. CASE c = "up"
    BY <1>6, <2>0, <2>1 DEF Processes, SameView, Moves, NothingMissed
  <2>2. CASE c # "up"
    BY <1>1, <1>6, <2>2 DEF Processes, SameView, SameDown, Moves, NothingMissed
  <2> QED BY <2>1, <2>2
<1>7. ASSUME NEW c \in Controllers, Fails(t, c) \/ Releases(t, c)
      PROVE  NothingMissed(t)'
  BY <1>1, <1>2, <1>7 DEF Fails, Releases, SameView, SameDown, Moves, NothingMissed
<1>8. ASSUME NEW c \in Controllers, Applies(t, c)
      PROVE  NothingMissed(t)'
  <2>1. c = "up"
    BY <1>1, <1>8 DEF Applies, DeletedForGood
  <2> QED BY <1>2, <1>8, <2>1 DEF Applies, Moves, SameView, NothingMissed
<1>9. ASSUME NEW c \in Controllers, Deletes(t, c)
      PROVE  NothingMissed(t)'
  <2>1. Leaving(cached[t], t)
    BY <1>1, <1>9 DEF Deletes, DeletedForGood, Emptied, Ended, Over
  <2> QED BY <1>1, <1>9, <2>1 DEF Deletes, Moves, SameView, NothingMissed
<1>10. CASE Empties(t)
  BY <1>10 DEF Empties, SameView, SameWork, NothingMissed
<1>11. CASE Restarts(t)
  <2>1. cached'[t] # NoView => "up" \in queue'[t]
    BY <1>11 DEF Restarts, ViewOf
  <2> QED BY <1>2, <2>1 DEF NothingMissed, Leaving
<1> QED BY <1>3, <1>4, <1>5, <1>6, <1>7, <1>8, <1>9, <1>10, <1>11 DEF LocalStep

-----------------------------------------------------------------------------
(* Every step is one of those kinds.                                        *)

(* A write that leaves t's label and annotation alone is proper.            *)
LEMMA ProperSame ==
    ASSUME NEW t \in Targets, LeavesForGood(t), NEW o,
           upstream.exists, o.exists, upstream.deleting => o.deleting,
           t \in o.label <=> t \in upstream.label,
           t \in o.del <=> t \in upstream.del,
           Removing(upstream, t) => Removing(o, t),
           t \in upstream.fin => t \in o.fin
    PROVE  Proper(o, t)
<1>1. t \in o.del => o.deleting \/ t \notin nsSeen.label \/ t \in nsSeen.del
  BY DEF LeavesForGood, NeverAgain
<1> QED BY <1>1 DEF Proper

(* What the resource controller writes is proper.                           *)
LEMMA ReconciledProper ==
    ASSUME TypeOK, ClaimsAreLabelled, NEW t \in live, upstream.exists
    PROVE  Proper(Reconciled(upstream, nsSeen), t)
<1> DEFINE o == Reconciled(upstream, nsSeen)
<1> SUFFICES Proper(o, t)
  OBVIOUS
<1>1. o.exists = upstream.exists /\ o.deleting = upstream.deleting /\ o.soft = upstream.soft
      /\ o.fin = upstream.fin \cap live
  BY DEF Reconciled, PropagateDeletionTimestamp, ComputePlacement, TypeOK, Objects
<1>4. /\ o.exists /\ (upstream.deleting => o.deleting) /\ (t \in upstream.fin => t \in o.fin)
      /\ t \in o.soft => t \in upstream.soft
  <2> HIDE DEF o
  <2>1. o.exists /\ (upstream.deleting => o.deleting)
    BY <1>1, Zenon
  <2> QED BY <1>1, <2>1
<1>2. CASE upstream.deleting
  <2>1. o.label = upstream.label /\ o.del = upstream.del \cup upstream.label
    BY <1>2 DEF Reconciled, PropagateDeletionTimestamp, TypeOK, Objects
  <2> HIDE DEF o
  <2> QED BY <1>2, <1>4, <2>1 DEF Proper, Removing
<1>3. CASE ~upstream.deleting
  <2> DEFINE unexpected == upstream.label \ nsSeen.label
             held == {x \in unexpected : x \in upstream.fin \/ x \in upstream.soft}
             kept == upstream.label \cap nsSeen.label
             new == nsSeen.label \ (upstream.label \cup nsSeen.del)
  <2>1. /\ o.label = (upstream.label \ (unexpected \ held)) \cup new
        /\ o.del = (upstream.del \ ((unexpected \ held) \cup (kept \ nsSeen.del)))
                   \cup held \cup (kept \cap nsSeen.del)
    BY <1>3 DEF Reconciled, ComputePlacement, TypeOK, Objects
  <2>2. upstream.del \subseteq upstream.label
    BY DEF ClaimsAreLabelled
  <2>3. NeverAgain(t) <=> t \notin nsSeen.label \/ t \in nsSeen.del
    BY <1>3 DEF NeverAgain
  <2>4. t \notin upstream.label /\ NeverAgain(t) => t \notin o.label
    BY <2>1, <2>3
  <2>5. NeverAgain(t) /\ t \in upstream.del => t \in o.del \/ t \notin o.label
    BY <2>1, <2>2, <2>3
  <2>6. t \in o.del => t \notin nsSeen.label \/ t \in nsSeen.del
    BY <2>1, <2>2
  <2>7. t \in upstream.label /\ t \notin o.label => t \notin nsSeen.label
    BY <2>1
  <2> HIDE DEF o, unexpected, held, kept, new
  <2> QED BY <1>4, <2>4, <2>5, <2>6, <2>7 DEF Proper, Removing
<1> QED BY <1>2, <1>3

(* A write, as t sees it.                                                   *)
LEMMA WriteIsLocal ==
    ASSUME TypeOK, NEW t \in Targets, NEW o \in Objects, Proper(o, t), Write(o),
           UNCHANGED <<nsVars, cached, downVars, downSeen, queue>>,
           \/ SameWork(t)
           \/ \E c \in Controllers :
                 /\ step[t][c] \in {"claim", "unclaim", "report"} /\ Moves(t, c, "idle")
                 /\ step[t][c] = "claim" => t \notin upstream.fin
    PROVE  LocalStep(t)
<1>1. WriteSeen(o, t)
  BY DEF Write, WriteSeen, nsVars
<1>2. SameDown(t) /\ queue'[t] = queue[t]
  BY DEF SameDown, downVars
<1> QED BY <1>1, <1>2 DEF Writes, LocalStep

(* A worker that finishes, goes on or fails, as t sees it.                  *)
LEMMA WorkIsLocal ==
    ASSUME TypeOK, NEW t \in Targets, NEW u \in Targets, NEW c \in Controllers
    PROVE  /\ Finish(u, c) => IF u = t THEN Moves(t, c, "idle")
                              ELSE step'[t] = step[t] /\ copy'[t] = copy[t]
           /\ \A s, v : Goto(u, c, s, v) => IF u = t THEN Moves(t, c, s) /\ copy'[t][c] = v
                              ELSE step'[t] = step[t] /\ copy'[t] = copy[t]
<1>1. ASSUME NEW s, NEW v, step' = [step EXCEPT ![u][c] = s], copy' = [copy EXCEPT ![u][c] = v]
      PROVE  IF u = t THEN Moves(t, c, s) /\ copy'[t][c] = v
             ELSE step'[t] = step[t] /\ copy'[t] = copy[t]
  BY <1>1 DEF TypeOK, Moves
<1> QED BY <1>1 DEF Finish, Goto

LEMMA FailureIsLocal ==
    ASSUME TypeOK, NEW t \in Targets, NEW u \in Targets, NEW c \in Controllers,
           step[u][c] # "idle", Failed(u, c), UNCHANGED <<cached, downVars, downSeen>>
    PROVE  LocalStep(t)
<1>1. SameView(t) /\ SameDown(t)
  BY DEF SameView, SameDown, Failed, downVars
<1>2. Finish(u, c) /\ queue' = [queue EXCEPT ![u] = @ \cup {c}]
  BY DEF Failed, Done
<1>3. CASE u = t
  <2>1. Moves(t, c, "idle") /\ queue'[t] = queue[t] \cup {c}
    BY <1>2, <1>3, WorkIsLocal DEF TypeOK
  <2> QED BY <1>1, <1>3, <2>1 DEF Fails, LocalStep
<1>4. CASE u # t
  <2>1. SameWork(t)
    BY <1>2, <1>4, WorkIsLocal DEF TypeOK, SameWork
  <2> QED BY <1>1, <2>1 DEF Elsewhere, LocalStep
<1> QED BY <1>3, <1>4

(* A fresh copy that is one shows the present object.                       *)
LEMMA FreshIsPresent ==
    ASSUME IInv, NEW u \in Targets, NEW c \in Controllers, <<u, c>> \in fresh,
           copy[u][c] # NoView
    PROVE  /\ Selected(upstream, u) /\ copy[u][c] = AfterRead(upstream, u)
           /\ copy[u][c].fin = (u \in upstream.fin)
           /\ Removing(copy[u][c], u) => Removing(upstream, u)
<1>1. copy[u][c] = ViewOf(upstream, u)
  BY DEF IInv, FreshCopiesAreCurrent
<1>2. Selected(upstream, u) /\ copy[u][c] = AfterRead(upstream, u)
  BY <1>1 DEF ViewOf
<1>3. AfterRead(upstream, u).fin = (u \in upstream.fin)
  BY DEF AfterRead
<1>4. Removing(copy[u][c], u) => Removing(upstream, u)
  BY <1>2 DEF Removing, AfterRead
<1>5. copy[u][c].fin = (u \in upstream.fin)
  BY <1>2, <1>3, Zenon
<1> QED BY <1>2, <1>4, <1>5

(* The writes of the syncers.                                               *)
LEMMA SyncerWritesLocally ==
    ASSUME IInv, NEW t \in Targets, LeavesForGood(t), DeletedForGood(t),
           NEW u \in Targets, NEW c \in Controllers,
           \/ EnsureSyncerFinalizer(u, c) \/ RemoveUpstreamFinalizer(u, c)
           \/ c = "status" /\ UpdateStatusInUpstream(u)
    PROVE  LocalStep(t)
<1>1. TypeOK /\ WorkersHoldCopies /\ upstream \in Objects
  BY DEF IInv, WellFormed, TypeOK
<1>2. CASE EnsureSyncerFinalizer(u, c)
  <2>1. step[u][c] = "claim" /\ UNCHANGED <<nsVars, cached, downVars, downSeen>>
    BY <1>2 DEF EnsureSyncerFinalizer, At
  <2>2. CASE Failed(u, c)
    BY <1>1, <2>1, <2>2, FailureIsLocal
  <2>3. CASE ~Failed(u, c)
    <3> DEFINE o == [upstream EXCEPT !.fin = @ \cup {u}]
    <3>1. <<u, c>> \in fresh /\ Write(o) /\ Finish(u, c) /\ UNCHANGED queue
      BY <1>2, <2>3 DEF EnsureSyncerFinalizer
    <3>2. copy[u][c] # NoView /\ ~copy[u][c].fin
      BY <1>1, <2>1 DEF WorkersHoldCopies
    <3>3. Selected(upstream, u) /\ copy[u][c].fin = (u \in upstream.fin)
      BY <3>1, <3>2, FreshIsPresent
    <3>4. u \notin upstream.fin
      BY <3>2, <3>3, Zenon
    <3>5. o \in Objects /\ Proper(o, t)
      <4>1. o \in Objects
        BY <1>1 DEF Objects
      <4>2. /\ upstream.exists /\ o.exists /\ (upstream.deleting => o.deleting)
            /\ o.label = upstream.label /\ o.del = upstream.del /\ o.soft = upstream.soft
            /\ o.fin = upstream.fin \cup {u}
        BY <1>1, <3>3 DEF Objects, Selected
      <4> HIDE DEF o
      <4> QED BY <4>1, <4>2, ProperSame DEF Removing
    <3>6. \/ SameWork(t)
          \/ \E d \in Controllers :
                /\ step[t][d] \in {"claim", "unclaim", "report"} /\ Moves(t, d, "idle")
                /\ step[t][d] = "claim" => t \notin upstream.fin
      BY <1>1, <2>1, <3>1, <3>4, WorkIsLocal DEF SameWork
    <3> HIDE DEF o
    <3> QED BY <1>1, <2>1, <3>1, <3>5, <3>6, WriteIsLocal
  <2> QED BY <2>2, <2>3
<1>3. CASE RemoveUpstreamFinalizer(u, c)
  <2>1. step[u][c] = "unclaim" /\ UNCHANGED <<nsVars, cached, downVars, downSeen>>
    BY <1>3 DEF RemoveUpstreamFinalizer, At
  <2>2. CASE Failed(u, c)
    BY <1>1, <2>1, <2>2, FailureIsLocal
  <2>3. CASE ~Failed(u, c)
    <3> DEFINE o == RemovedFromSyncer(upstream, u)
    <3>1. /\ <<u, c>> \in fresh /\ Removing(copy[u][c], u)
          /\ Write(o) /\ Finish(u, c) /\ UNCHANGED queue
      BY <1>3, <2>3 DEF RemoveUpstreamFinalizer
    <3>2. copy[u][c] # NoView
      BY <1>1, <2>1 DEF WorkersHoldCopies
    <3>3. Selected(upstream, u) /\ Removing(upstream, u)
      BY <3>1, <3>2, FreshIsPresent
    <3>4. o \in Objects
      BY <1>1 DEF Objects, RemovedFromSyncer
    <3>5. /\ upstream.exists /\ o.exists /\ (upstream.deleting => o.deleting)
          /\ o.label = upstream.label \ {u} /\ o.del = upstream.del \ {u}
          /\ o.soft = upstream.soft /\ o.fin = upstream.fin \ {u}
      BY <1>1, <3>3 DEF Objects, Selected, RemovedFromSyncer
    <3>6. Proper(o, t)
      <4> HIDE DEF o
      <4>1. CASE u # t
        BY <3>5, <4>1, ProperSame DEF Removing
      <4>2. CASE u = t
        <5>1. NeverAgain(t)
          BY <3>3, <4>2 DEF LeavesForGood, Removing
        <5>2. o.deleting \/ t \notin nsSeen.label \/ t \in nsSeen.del
          BY <3>5, <5>1 DEF NeverAgain
        <5>3. Emptied(t)
          BY <2>1, <4>2 DEF DeletedForGood, Controllers, SpecSyncers
        <5> QED BY <3>5, <4>2, <5>2, <5>3 DEF Proper
      <4> QED BY <4>1, <4>2
    <3>7. \/ SameWork(t)
          \/ \E d \in Controllers :
                /\ step[t][d] \in {"claim", "unclaim", "report"} /\ Moves(t, d, "idle")
                /\ step[t][d] = "claim" => t \notin upstream.fin
      BY <1>1, <2>1, <3>1, WorkIsLocal DEF SameWork
    <3> HIDE DEF o
    <3> QED BY <1>1, <2>1, <3>1, <3>4, <3>6, <3>7, WriteIsLocal
  <2> QED BY <2>2, <2>3
<1>4. CASE c = "status" /\ UpdateStatusInUpstream(u)
  <2>1. step[u][c] = "report" /\ UNCHANGED <<nsVars, cached, downVars, downSeen>>
    BY <1>4 DEF UpdateStatusInUpstream, At
  <2>2. CASE Failed(u, c)
    BY <1>1, <2>1, <2>2, FailureIsLocal
  <2>3. CASE Done(u, c) /\ UNCHANGED <<queue, upstream, watch>>
    <3>1. SameView(t) /\ SameDown(t) /\ queue'[t] = queue[t]
      BY <2>1, <2>3 DEF SameView, SameDown, downVars
    <3>2. Finish(u, c)
      BY <2>3 DEF Done
    <3>3. CASE u = t
      <4>1. Moves(t, c, "idle")
        BY <1>1, <3>2, <3>3, WorkIsLocal
      <4> QED BY <2>1, <3>1, <3>3, <4>1 DEF Releases, LocalStep
    <3>4. CASE u # t
      <4>1. SameWork(t)
        BY <1>1, <3>1, <3>2, <3>4, WorkIsLocal DEF SameWork
      <4> QED BY <3>1, <4>1 DEF Elsewhere, LocalStep
    <3> QED BY <3>3, <3>4
  <2>4. CASE /\ <<u, c>> \in fresh /\ copy[u][c] # NoView
             /\ Write(upstream) /\ Finish(u, c) /\ UNCHANGED queue
    <3>1. upstream.exists
      BY <2>4, FreshIsPresent DEF Selected
    <3>2. Proper(upstream, t)
      BY <3>1, ProperSame
    <3>3. \/ SameWork(t)
          \/ \E d \in Controllers :
                /\ step[t][d] \in {"claim", "unclaim", "report"} /\ Moves(t, d, "idle")
                /\ step[t][d] = "claim" => t \notin upstream.fin
      BY <1>1, <2>1, <2>4, WorkIsLocal DEF SameWork
    <3> QED BY <1>1, <2>1, <2>4, <3>2, <3>3, WriteIsLocal
  <2> QED BY <1>4, <2>2, <2>3, <2>4 DEF UpdateStatusInUpstream
<1> QED BY <1>2, <1>3, <1>4

(* The writes of the server and of users.                                   *)
LEMMA OthersWriteLocally ==
    ASSUME IInv, NEW t \in live, LeavesForGood(t),
           \/ ReconcileResource \/ UserDeletes \/ UserEdits
           \/ \E u \in Targets : SetSoftFinalizer(u) \/ ClearSoftFinalizer(u)
    PROVE  LocalStep(t)
<1>1. TypeOK /\ upstream \in Objects /\ t \in Targets
  BY DEF IInv, WellFormed, TypeOK
<1>2. ASSUME NEW o \in Objects, Proper(o, t), Write(o),
             UNCHANGED <<nsVars, cached, downVars, downSeen, queue, workVars>>
      PROVE  LocalStep(t)
  <2>1. SameWork(t)
    BY <1>2 DEF SameWork, workVars
  <2> QED BY <1>1, <1>2, <2>1, WriteIsLocal
<1>3. CASE ReconcileResource
  <2>1. CASE upstream.exists /\ Write(Reconciled(upstream, nsSeen))
    <3>1. Proper(Reconciled(upstream, nsSeen), t)
      BY <1>1, <2>1, ReconciledProper DEF IInv
    <3> QED BY <1>1, <1>2, <1>3, <2>1, <3>1, ReconciledType DEF ReconcileResource
  <2>2. CASE UNCHANGED <<upstream, watch>>
    BY <1>3, <2>2 DEF ReconcileResource, LocalStep, Elsewhere, SameView, SameDown, SameWork,
                      downVars, workVars
  <2> QED BY <1>3, <2>1, <2>2 DEF ReconcileResource
<1>4. CASE UserDeletes
  <2> DEFINE o == [upstream EXCEPT !.deleting = TRUE]
  <2>1. o \in Objects /\ o.exists /\ o.deleting /\ upstream.exists
        /\ o.label = upstream.label /\ o.del = upstream.del /\ o.soft = upstream.soft
        /\ o.fin = upstream.fin
    BY <1>1, <1>4 DEF Objects, UserDeletes
  <2>2. Write(o) /\ UNCHANGED <<nsVars, cached, downVars, downSeen, queue, workVars>>
    BY <1>4 DEF UserDeletes
  <2> HIDE DEF o
  <2>3. Proper(o, t)
    BY <1>1, <2>1, ProperSame DEF Removing
  <2> QED BY <1>2, <2>1, <2>2, <2>3
<1>5. CASE UserEdits
  <2> DEFINE o == [upstream EXCEPT !.spec = @ + 1]
  <2>0. upstream.spec + 1 \in Specs
    BY <1>1, <1>5, NatBounds DEF Objects, Specs, UserEdits
  <2>1. o \in Objects /\ o.exists /\ upstream.exists /\ (upstream.deleting => o.deleting)
        /\ o.label = upstream.label /\ o.del = upstream.del /\ o.soft = upstream.soft
        /\ o.fin = upstream.fin
    BY <1>1, <1>5, <2>0 DEF Objects, UserEdits
  <2>2. Write(o) /\ UNCHANGED <<nsVars, cached, downVars, downSeen, queue, workVars>>
    BY <1>5 DEF UserEdits
  <2> HIDE DEF o
  <2>3. Proper(o, t)
    BY <1>1, <2>1, ProperSame DEF Removing
  <2> QED BY <1>2, <2>1, <2>2, <2>3
<1>6. ASSUME NEW u \in Targets, SetSoftFinalizer(u)
      PROVE  LocalStep(t)
  <2> DEFINE o == [upstream EXCEPT !.soft = @ \cup {u}]
  <2>1. o \in Objects /\ o.exists /\ upstream.exists /\ (upstream.deleting => o.deleting)
        /\ o.label = upstream.label /\ o.del = upstream.del /\ o.soft = upstream.soft \cup {u}
        /\ o.fin = upstream.fin
    BY <1>1, <1>6 DEF Objects, SetSoftFinalizer, Selected
  <2>2. /\ Write(o) /\ UNCHANGED <<nsVars, cached, downVars, downSeen, queue, workVars>>
        /\ u \notin upstream.del
    BY <1>6 DEF SetSoftFinalizer
  <2> HIDE DEF o
  <2>3. Removing(upstream, t) => Removing(o, t)
    BY <2>1, <2>2 DEF Removing
  <2>4. Proper(o, t)
    BY <1>1, <2>1, <2>3, ProperSame
  <2> QED BY <1>2, <2>1, <2>2, <2>4
<1>7. ASSUME NEW u \in Targets, ClearSoftFinalizer(u)
      PROVE  LocalStep(t)
  <2> DEFINE o == [upstream EXCEPT !.soft = @ \ {u}]
  <2>0. upstream.exists
    BY <1>7 DEF ClearSoftFinalizer, IInv, WellFormed, AbsentIsGone, Gone
  <2>1. o \in Objects /\ o.exists /\ (upstream.deleting => o.deleting)
        /\ o.label = upstream.label /\ o.del = upstream.del /\ o.soft = upstream.soft \ {u}
        /\ o.fin = upstream.fin
    BY <1>1, <2>0 DEF Objects
  <2>2. Write(o) /\ UNCHANGED <<nsVars, cached, downVars, downSeen, queue, workVars>>
    BY <1>7 DEF ClearSoftFinalizer
  <2> HIDE DEF o
  <2>3. Proper(o, t)
    BY <1>1, <2>0, <2>1, ProperSame DEF Removing
  <2> QED BY <1>2, <2>1, <2>2, <2>3
<1> QED BY <1>3, <1>4, <1>5, <1>6, <1>7

(* What the workers do apart from writing upstream.                         *)
LEMMA WorkersAreLocal ==
    ASSUME TypeOK, NEW t \in Targets, NEW u \in Targets, NEW c \in Controllers,
           \/ SpecProcess(u, c) \/ ApplyToDownstream(u, c) \/ DeleteFromDownstream(u, c)
           \/ DeleteOrphan(u, c) \/ EnsureUpstreamFinalizerRemoved(u, c)
           \/ c = "status" /\ StatusProcess(u)
    PROVE  LocalStep(t)
<1>1. SameView(t) /\ downSeen'[t] = downSeen[t]
  BY DEF SpecProcess, ApplyToDownstream, DeleteFromDownstream, DeleteOrphan,
         EnsureUpstreamFinalizerRemoved, StatusProcess, SameView
<1>2. CASE SpecProcess(u, c)
  <2>1. /\ SameDown(t) /\ c \in SpecSyncers /\ c \in queue[u]
        /\ queue' = [queue EXCEPT ![u] = @ \ {c}]
        /\ Goto(u, c, SpecStep(cached[u], u), cached[u])
    BY <1>2 DEF SpecProcess, SameDown, downVars, Start, Dequeue
  <2>2. CASE u = t
    <3>1. /\ Moves(t, c, SpecStep(cached[t], t)) /\ copy'[t][c] = cached[t]
          /\ queue'[t] = queue[t] \ {c}
      BY <2>1, <2>2, WorkIsLocal DEF TypeOK
    <3> QED BY <1>1, <2>1, <2>2, <3>1 DEF Processes, LocalStep
  <2>3. CASE u # t
    <3>1. SameWork(t)
      BY <2>1, <2>3, WorkIsLocal DEF TypeOK, SameWork
    <3> QED BY <1>1, <2>1, <3>1 DEF Elsewhere, LocalStep
  <2> QED BY <2>2, <2>3
<1>3. CASE ApplyToDownstream(u, c)
  <2>1. step[u][c] = "apply" /\ Finish(u, c) /\ queue'[t] = queue[t]
    BY <1>3 DEF ApplyToDownstream, At, Done
  <2>2. CASE u = t
    <3>1. Moves(t, c, "idle")
      BY <2>1, <2>2, WorkIsLocal
    <3>2. /\ down'[t].st = (IF down[t].st = "absent" THEN "present" ELSE down[t].st)
          /\ down'[t].spec = copy[t][c].spec
          /\ downWatch'[t] = IF down[t].st = "absent" THEN Append(downWatch[t], "applied")
                             ELSE downWatch[t]
      BY <1>3, <2>2 DEF ApplyToDownstream, TypeOK
    <3> QED BY <1>1, <2>1, <2>2, <3>1, <3>2 DEF Applies, LocalStep
  <2>3. CASE u # t
    <3>1. SameWork(t)
      BY <2>1, <2>3, WorkIsLocal DEF SameWork
    <3>2. SameDown(t)
      BY <1>1, <1>3, <2>3 DEF ApplyToDownstream, TypeOK, SameDown
    <3> QED BY <1>1, <3>1, <3>2 DEF Elsewhere, LocalStep
  <2> QED BY <2>2, <2>3
<1>4. CASE DeleteFromDownstream(u, c) \/ DeleteOrphan(u, c)
  <2>1. /\ step[u][c] \in {"delete", "orphan"} /\ queue'[t] = queue[t]
        /\ downWatch'[t] = downWatch[t] /\ Deleted(u)
        /\ \/ Finish(u, c)
           \/ /\ step' = [step EXCEPT ![u][c] = "release"] /\ copy' = copy
              /\ down[u].st = "absent"
    BY <1>4 DEF DeleteFromDownstream, DeleteOrphan, At, Done
  <2>2. CASE u = t
    <3>1. Moves(t, c, "idle") \/ (Moves(t, c, "release") /\ down[t].st = "absent")
      <4>1. CASE Finish(u, c)
        BY <2>2, <4>1, WorkIsLocal
      <4>2. CASE ~Finish(u, c)
        BY <2>1, <2>2, <4>2 DEF Moves, TypeOK
      <4> QED BY <4>1, <4>2
    <3>2. down'[t].st = IF down[t].st = "absent" THEN "absent" ELSE "deleting"
      BY <2>1, <2>2 DEF Deleted, TypeOK, DownStates
    <3> QED BY <1>1, <2>1, <2>2, <3>1, <3>2 DEF Deletes, LocalStep
  <2>3. CASE u # t
    <3>1. step'[t] = step[t] /\ copy'[t] = copy[t]
      <4>1. CASE Finish(u, c)
        BY <2>3, <4>1, WorkIsLocal
      <4>2. CASE ~Finish(u, c)
        BY <2>1, <2>3, <4>2 DEF TypeOK
      <4> QED BY <4>1, <4>2
    <3>2. SameDown(t) /\ SameWork(t)
      BY <1>1, <2>1, <2>3, <3>1 DEF Deleted, TypeOK, SameDown, SameWork
    <3> QED BY <1>1, <3>2 DEF Elsewhere, LocalStep
  <2> QED BY <2>2, <2>3
<1>5. CASE EnsureUpstreamFinalizerRemoved(u, c)
  <2>1. /\ step[u][c] = "release" /\ queue'[t] = queue[t] /\ SameDown(t)
        /\ Finish(u, c) \/ Goto(u, c, "unclaim", cached[u])
    BY <1>5 DEF EnsureUpstreamFinalizerRemoved, At, Done, SameDown, downVars
  <2>2. CASE u = t
    <3>1. Moves(t, c, "idle") \/ Moves(t, c, "unclaim")
      BY <2>1, <2>2, WorkIsLocal
    <3> QED BY <1>1, <2>1, <2>2, <3>1 DEF Releases, LocalStep
  <2>3. CASE u # t
    <3>1. SameWork(t)
      BY <2>1, <2>3, WorkIsLocal DEF SameWork
    <3> QED BY <1>1, <2>1, <3>1 DEF Elsewhere, LocalStep
  <2> QED BY <2>2, <2>3
<1>6. CASE c = "status" /\ StatusProcess(u)
  <2>1. /\ SameDown(t) /\ c \in queue[u]
        /\ queue' = [queue EXCEPT ![u] = @ \ {c}]
        /\ \/ downSeen[u] /\ Goto(u, c, "report", cached[u])
           \/ ~downSeen[u] /\ Goto(u, c, "release", cached[u])
    BY <1>6 DEF StatusProcess, SameDown, downVars, Start, Dequeue
  <2>2. CASE u = t
    <3>1. /\ Moves(t, c, "report") \/ (~downSeen[t] /\ Moves(t, c, "release"))
          /\ queue'[t] = queue[t] \ {c}
      BY <2>1, <2>2, WorkIsLocal DEF TypeOK
    <3> QED BY <1>1, <1>6, <2>1, <2>2, <3>1 DEF ProcessesStatus, LocalStep
  <2>3. CASE u # t
    <3>1. SameWork(t)
      BY <2>1, <2>3, WorkIsLocal DEF TypeOK, SameWork
    <3> QED BY <1>1, <2>1, <3>1 DEF Elsewhere, LocalStep
  <2> QED BY <2>2, <2>3
<1> QED BY <1>2, <1>3, <1>4, <1>5, <1>6

(* Informers, the physical cluster and restarts.                            *)
LEMMA InformersAreLocal ==
    ASSUME TypeOK, NEW t \in Targets, NEW u \in Targets,
           \/ DeliverUpstream(u) \/ DeliverDownstream(u) \/ DownstreamGone(u)
           \/ SyncerRestarts(u)
    PROVE  LocalStep(t)
<1>1. CASE u # t
  <2>1. /\ upstream' = upstream /\ watch'[t] = watch[t] /\ cached'[t] = cached[t]
        /\ down'[t] = down[t] /\ downWatch'[t] = downWatch[t] /\ downSeen'[t] = downSeen[t]
        /\ queue'[t] = queue[t] /\ step'[t] = step[t] /\ copy'[t] = copy[t]
    BY <1>1 DEF DeliverUpstream, DeliverDownstream, DownstreamGone, SyncerRestarts,
                upVars, downVars, workVars, TypeOK
  <2> QED BY <2>1 DEF LocalStep, Elsewhere, SameView, SameDown, SameWork
<1>2. CASE u = t /\ DeliverUpstream(u)
  <2>1. /\ watch[t] # <<>> /\ upstream' = upstream
        /\ cached'[t] = Head(watch[t]) /\ watch'[t] = Tail(watch[t])
        /\ queue'[t] = IF cached[t] = Head(watch[t]) THEN queue[t] ELSE queue[t] \cup {"up"}
        /\ step' = step /\ copy' = copy
    BY <1>2 DEF DeliverUpstream, DeepEqualApartFromStatus, TypeOK, workVars
  <2>2. SameDown(t)
    BY <1>2 DEF DeliverUpstream, SameDown, downVars
  <2> QED BY <2>1, <2>2 DEF Delivers, LocalStep
<1>3. CASE u = t /\ DeliverDownstream(u)
  <2>1. /\ downWatch[t] # <<>> /\ down' = down /\ step' = step /\ copy' = copy
        /\ downWatch'[t] = Tail(downWatch[t])
        /\ downSeen'[t] = (Head(downWatch[t]) = "applied")
        /\ queue'[t] = queue[t] \cup (IF Head(downWatch[t]) = "deleted"
                                      THEN {"status", "down"} ELSE {"status"})
    BY <1>3 DEF DeliverDownstream, TypeOK, workVars
  <2>2. SameView(t)
    BY <1>3 DEF DeliverDownstream, SameView, upVars
  <2>3. Head(downWatch[t]) \in {"applied", "deleted"}
    <3>1. downWatch[t] \in Seq(DownEvents)
      BY DEF TypeOK
    <3> QED BY <2>1, <3>1 DEF DownEvents
  <2>4. CASE Head(downWatch[t]) = "deleted"
    <3>1. ~downSeen'[t] /\ queue'[t] = queue[t] \cup {"status", "down"}
      BY <2>1, <2>4
    <3> QED BY <2>1, <2>2, <2>4, <3>1 DEF DeliversDown, LocalStep
  <2>5. CASE Head(downWatch[t]) = "applied"
    <3>1. downSeen'[t] /\ queue'[t] = queue[t] \cup {"status"}
      BY <2>1, <2>5
    <3> QED BY <2>1, <2>2, <3>1 DEF DeliversDown, LocalStep
  <2> QED BY <2>3, <2>4, <2>5
<1>4. CASE u = t /\ DownstreamGone(u)
  <2>1. /\ down[t].st = "deleting" /\ down'[t].st = "absent"
        /\ downWatch'[t] = Append(downWatch[t], "deleted") /\ downSeen' = downSeen
    BY <1>4 DEF DownstreamGone, TypeOK
  <2>2. SameView(t) /\ SameWork(t)
    BY <1>4 DEF DownstreamGone, SameView, SameWork, upVars, workVars
  <2> QED BY <2>1, <2>2 DEF Empties, LocalStep
<1>5. CASE u = t /\ SyncerRestarts(u)
  <2>1. Restarts(t)
    BY <1>5 DEF SyncerRestarts, Restarts, TypeOK
  <2> QED BY <2>1 DEF LocalStep
<1> QED BY <1>1, <1>2, <1>3, <1>4, <1>5

LEMMA StepIsLocal ==
    ASSUME IInv, OneStay, OneStayInv, [Next]_vars, NEW t \in live'
    PROVE  t \in live /\ LocalStep(t) /\ nsSeen' \in {nsSeen, ns}
<1>1. TypeOK
  BY DEF IInv, WellFormed
<1>2. t \in live /\ nsSeen' \in {nsSeen, ns}
  BY DEF Next, Server, Informers, StatusSyncer, Syncer, Environment, vars,
         ReconcileResource, EnqueueNamespace, DeliverUpstream, DeliverDownstream,
         SpecProcess, EnsureSyncerFinalizer, ApplyToDownstream, DeleteFromDownstream,
         DeleteOrphan, EnsureUpstreamFinalizerRemoved, RemoveUpstreamFinalizer,
         StatusProcess, UpdateStatusInUpstream, UserCreates, UserDeletes, UserEdits,
         SetSoftFinalizer, ClearSoftFinalizer, ScheduleNamespace, UnscheduleNamespace,
         ExpireNamespace, NamespaceChanges, DownstreamUserDeletes, DownstreamGone,
         SyncerRestarts, SyncTargetRemoved, RequestFails, nsVars
<1>3. t \in Targets /\ LeavesForGood(t) /\ DeletedForGood(t)
  BY <1>1, <1>2 DEF TypeOK, OneStayInv
<1>4. CASE \/ ReconcileResource \/ UserDeletes \/ UserEdits
           \/ \E u \in Targets : SetSoftFinalizer(u) \/ ClearSoftFinalizer(u)
  BY <1>2, <1>3, <1>4, OthersWriteLocally
<1>5. CASE UNCHANGED <<upstream, watch, cached, downVars, downSeen, queue, workVars>>
  <2>1. SameView(t) /\ SameDown(t) /\ SameWork(t)
    BY <1>5 DEF SameView, SameDown, SameWork, downVars, workVars
  <2> QED BY <1>2, <2>1 DEF LocalStep, Elsewhere
<1>6. CASE EnqueueNamespace \/ UNCHANGED vars
  BY <1>5, <1>6 DEF EnqueueNamespace, vars, downVars, workVars
<1>7. ASSUME NEW u \in Targets, UnscheduleNamespace(u) \/ ExpireNamespace(u) \/ SyncTargetRemoved(u)
      PROVE  LocalStep(t)
  BY <1>5, <1>7 DEF UnscheduleNamespace, ExpireNamespace, NamespaceChanges, SyncTargetRemoved,
                    upVars
<1>8. ASSUME NEW u \in Targets,
             Informers(u) \/ DownstreamGone(u) \/ SyncerRestarts(u)
      PROVE  LocalStep(t)
  BY <1>1, <1>3, <1>8, InformersAreLocal DEF Informers
<1>9. ASSUME NEW u \in Targets, NEW c \in Controllers, Syncer(u, c)
      PROVE  LocalStep(t)
  BY <1>1, <1>3, <1>9, WorkersAreLocal, SyncerWritesLocally DEF Syncer
<1>10. ASSUME NEW u \in Targets, StatusSyncer(u)
      PROVE  LocalStep(t)
  <2>1. "status" \in Controllers
    BY DEF Controllers
  <2> QED BY <1>1, <1>3, <1>10, <2>1, WorkersAreLocal, SyncerWritesLocally DEF StatusSyncer
<1>11. ASSUME NEW u \in Targets, NEW c \in Controllers, RequestFails(u, c)
      PROVE  LocalStep(t)
  BY <1>1, <1>3, <1>11, FailureIsLocal DEF RequestFails
<1>12. ~UserCreates /\ \A u \in Targets : ~ScheduleNamespace(u) /\ ~DownstreamUserDeletes(u)
  BY DEF OneStay, UserCreates, ScheduleNamespace, DownstreamUserDeletes, Event
<1>13. LocalStep(t)
  BY <1>4, <1>6, <1>7, <1>8, <1>9, <1>10, <1>11, <1>12 DEF Next, Server, Environment
<1> QED BY <1>2, <1>13

(* The namespace only loses targets.                                        *)
LEMMA NamespaceKept ==
    ASSUME TypeOK, OneStay, NamespaceShrinks, [Next]_vars
    PROVE  NamespaceShrinks'
<1>1. CASE UNCHANGED nsVars
  BY <1>1 DEF nsVars, NamespaceShrinks
<1>2. CASE EnqueueNamespace
  BY <1>2 DEF EnqueueNamespace, NamespaceShrinks
<1>3. ASSUME NEW t \in Targets, UnscheduleNamespace(t)
      PROVE  NamespaceShrinks'
  <2>1. nsSeen' = nsSeen /\ ns'.label = ns.label /\ ns'.del = ns.del \cup {t}
    BY <1>3 DEF UnscheduleNamespace, NamespaceChanges, TypeOK, NsStates
  <2> QED BY <2>1 DEF NamespaceShrinks
<1>4. ASSUME NEW t \in Targets, ExpireNamespace(t)
      PROVE  NamespaceShrinks'
  <2>1. nsSeen' = nsSeen /\ ns'.label = ns.label \ {t} /\ ns'.del = ns.del \ {t}
    BY <1>4 DEF ExpireNamespace, NamespaceChanges
  <2> QED BY <2>1 DEF NamespaceShrinks
<1>5. \A t \in Targets : ~ScheduleNamespace(t)
  BY DEF OneStay, ScheduleNamespace, Event
<1> QED BY <1>1, <1>2, <1>3, <1>4, <1>5
        DEF Next, Server, Informers, StatusSyncer, Syncer, Environment, vars,
            ReconcileResource, DeliverUpstream, DeliverDownstream,
            SpecProcess, EnsureSyncerFinalizer, ApplyToDownstream, DeleteFromDownstream,
            DeleteOrphan, EnsureUpstreamFinalizerRemoved, RemoveUpstreamFinalizer,
            StatusProcess, UpdateStatusInUpstream, UserCreates, UserDeletes, UserEdits,
            SetSoftFinalizer, ClearSoftFinalizer, DownstreamUserDeletes, DownstreamGone,
            SyncerRestarts, SyncTargetRemoved, RequestFails, nsVars

LEMMA InitOneStay == Init => OneStayInv
<1> SUFFICES ASSUME Init
             PROVE  OneStayInv
  OBVIOUS
<1>1. NamespaceShrinks
  BY DEF Init, NamespaceShrinks
<1>2. ASSUME NEW t \in live
      PROVE  /\ LeavesForGood(t) /\ DeletedForGood(t)
             /\ AppliedIsClaimed(t) /\ NothingMissed(t)
  <2>1. /\ t \in Targets /\ upstream.del = {} /\ 1 .. Len(watch[t]) = {}
        /\ cached[t] = NoView /\ down[t].st = "absent" /\ downWatch[t] = <<>>
        /\ queue[t] = {} /\ \A c \in Controllers : step[t][c] = "idle"
    BY <1>2 DEF Init, Gone
  <2>2. ~Active(t) /\ ~DeletionUnseen(t)
    BY <2>1 DEF Active, DeletionUnseen
  <2>3. LeavesForGood(t) /\ AppliedIsClaimed(t) /\ NothingMissed(t)
    BY <2>1, <2>2 DEF LeavesForGood, AppliedIsClaimed, NothingMissed, Leaving, Controllers, SpecSyncers
  <2>4. DeletedForGood(t)
    BY <2>1, <2>2 DEF DeletedForGood, Controllers, SpecSyncers
  <2> QED BY <2>3, <2>4
<1> QED BY <1>1, <1>2 DEF OneStayInv

(* The invariant of an object's only stay on its targets: views leave for   *)
(* good, deletions downstream begin when the stay is over, what is applied  *)
(* is claimed and no change of the object is missed.                        *)
THEOREM OneStayHolds ==
    ASSUME OneStay
    PROVE  Spec => []OneStayInv
<1>1. IInv /\ OneStayInv /\ [Next]_vars => OneStayInv'
  <2> SUFFICES ASSUME IInv, OneStayInv, [Next]_vars
               PROVE  OneStayInv'
    OBVIOUS
  <2>1. TypeOK /\ ClaimsAreLabelled /\ AbsentIsGone /\ NamespaceShrinks
    BY DEF IInv, WellFormed, OneStayInv
  <2>2. NamespaceShrinks'
    BY <2>1, NamespaceKept
  <2>3. ASSUME NEW t \in live'
        PROVE  (/\ LeavesForGood(t) /\ DeletedForGood(t)
                /\ AppliedIsClaimed(t) /\ NothingMissed(t))'
    <3>1. t \in live /\ t \in Targets /\ LocalStep(t) /\ nsSeen' \in {nsSeen, ns}
      BY <2>1, StepIsLocal DEF TypeOK
    <3>2. /\ LeavesForGood(t) /\ DeletedForGood(t)
          /\ AppliedIsClaimed(t) /\ NothingMissed(t)
      BY <3>1 DEF OneStayInv
    <3> QED BY <2>1, <3>1, <3>2, LeavesKept, DeletedKept, AppliedKept, MissedKept
  <2> QED BY <2>2, <2>3 DEF OneStayInv
<1> QED BY <1>1, Inductive, InitOneStay, PTL DEF Spec

(* During an object's only stay the finalizer of a target's syncer is on    *)
(* the object before a downstream object exists and until it is deleted,    *)
(* whatever copies the workers of the syncer hold, and over failed          *)
(* requests, restarts and a namespace that leaves the target.               *)
THEOREM FinalizerGuards ==
    ASSUME OneStay
    PROVE  Spec => []DownstreamIsClaimed
<1>1. OneStayInv => DownstreamIsClaimed
  BY DEF OneStayInv, AppliedIsClaimed, DownstreamIsClaimed
<1> QED BY <1>1, OneStayHolds, PTL

(* ... and when nothing is left to do for a target, its cluster holds the   *)
(* spec of the upstream object, or nothing if the object is not assigned.   *)
THEOREM QuietIsSynced ==
    ASSUME OneStay
    PROVE  Spec => []QuietMeansSynced
<1>1. IInv /\ OneStayInv => QuietMeansSynced
  <2> SUFFICES ASSUME IInv, OneStayInv, NEW t \in Targets, Quiet(t)
               PROVE  IF Wanted(t) THEN down[t].spec = upstream.spec ELSE down[t].st = "absent"
    BY DEF QuietMeansSynced
  <2>1. /\ t \in live /\ watch[t] = <<>> /\ queue[t] = {} /\ down[t].st # "deleting"
        /\ step[t]["up"] = "idle"
    BY DEF Quiet, Controllers, SpecSyncers
  <2>2. TypeOK /\ ClaimsAreLabelled /\ AbsentIsGone /\ upstream \in Objects
    BY DEF IInv, WellFormed, TypeOK
  <2>3. cached[t] = ViewOf(upstream, t)
    BY <2>1 DEF IInv, CacheCatchesUp
  <2>4. AppliedIsClaimed(t) /\ NothingMissed(t)
    BY <2>1 DEF OneStayInv
  <2>5. Wanted(t) <=> ~Leaving(cached[t], t)
    BY <2>2, <2>3, LeavingView DEF Wanted
  <2>6. CASE Wanted(t)
    <3>1. cached[t].spec = upstream.spec
      BY <2>3, <2>6 DEF Wanted, ViewOf, AfterRead
    <3>2. down[t].st # "absent"
      <4>1. ASSUME down[t].st # "present"
            PROVE  FALSE
        <5>1. Pending(t)
          BY <2>1, <2>6, <4>1 DEF IInv, NothingForgotten
        <5>2. ~Unseen(t) /\ ~DeletionUnseen(t)
          BY DEF Quiet, Unseen, DeletionUnseen
        <5>3. \A c \in SpecSyncers : step[t][c] \notin {"claim", "apply"}
          BY DEF Quiet, Controllers
        <5> QED BY <2>1, <5>1, <5>2, <5>3 DEF Pending
      <4> QED BY <4>1
    <3>3. down[t].spec = cached[t].spec
      BY <2>1, <2>4, <2>5, <2>6, <3>2 DEF NothingMissed
    <3> QED BY <2>6, <3>1, <3>3
  <2>7. CASE ~Wanted(t)
    <3>1. CASE cached[t] # NoView
      <4>1. down[t].st # "present"
        BY <2>1, <2>4, <2>5, <2>7, <3>1 DEF NothingMissed
      <4> QED BY <2>1, <2>2, <2>7, <4>1 DEF TypeOK, DownStates
    <3>2. CASE cached[t] = NoView
      <4>1. ~Selected(upstream, t)
        <5>1. AfterRead(upstream, t) \in Views
          BY <2>2 DEF AfterRead, Views, Objects
        <5> QED BY <2>3, <3>2, <5>1, NoViewIsNoView DEF ViewOf
      <4>2. t \notin upstream.fin
        BY <2>2, <4>1 DEF ClaimsAreLabelled, AbsentIsGone, Gone, Selected
      <4> QED BY <2>4, <2>7, <4>2 DEF AppliedIsClaimed
    <3> QED BY <3>1, <3>2
  <2> QED BY <2>6, <2>7
<1> QED BY <1>1, OneStayHolds, Inductive, PTL
=============================================================================
