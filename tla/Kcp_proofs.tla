----------------------------- MODULE Kcp_proofs -----------------------------
(***************************************************************************)
(* What runs beside kcp or against it is right, for any callers, objects,  *)
(* targets, runs of commands and numbers of events: informer factories,    *)
(* objects without a namespace, the copies of an object on several         *)
(* targets, and the commands of users.                                     *)
(*                                                                         *)
(* The parts share no state; each has an inductive invariant of its own    *)
(* (FactoryIInv, WsIInv, CopyIInv, CmdIInv), stated in its module.         *)
(***************************************************************************)
EXTENDS MCKcp, FiniteSetTheorems, WellFoundedInduction, TLAPS

-----------------------------------------------------------------------------
(* Informer factories *)

(* A new factory: nothing was asked for, nothing runs.                       *)
LEMMA NewFactory == NewSharedInformerFactory => FactoryIInv
  <1> SUFFICES ASSUME NewSharedInformerFactory PROVE FactoryIInv
    OBVIOUS
  <1>1. /\ runs \in [Types -> Nat]
        /\ at \in [Callers -> States] /\ waiting \in [Callers -> SUBSET Types]
    BY DEF NewSharedInformerFactory, States
  <1>2. shuttingDown \in BOOLEAN
    BY Zenon DEF NewSharedInformerFactory
  <1>3. FactoryTypeOK
    BY <1>1, <1>2 DEF NewSharedInformerFactory, FactoryTypeOK
  <1>4. \A t \in Types : runs[t] = IF t \in startedInformers THEN 1 ELSE 0
    BY DEF NewSharedInformerFactory
  <1>5. \A c \in Callers : at[c] = "idle"
    BY DEF NewSharedInformerFactory
  <1>6. SyncedIsSynced
    BY <1>5 DEF SyncedIsSynced
  <1> QED BY <1>3, <1>4, <1>5, <1>6 DEF NewSharedInformerFactory, FactoryIInv

(* Asking for an informer, InformerFor.                                      *)
LEMMA AskKeeps ==
  ASSUME FactoryIInv, NEW c \in Callers, NEW t \in Types, ForResource(c, t)
  PROVE  FactoryIInv'
  BY DEF FactoryIInv, FactoryTypeOK, SyncedIsSynced, ForResource, InformerFor, InformerForScoped,
         Ask, goroutines

(* A goroutine is made for every informer that has none, Start: it has run   *)
(* once then.                                                                *)
LEMMA RunKeeps ==
  ASSUME FactoryIInv, NEW c \in Callers, Run(c, Unstarted),
         startedInformers' = startedInformers \cup informers
  PROVE  /\ runs' \in [Types -> Nat]
         /\ \A t \in Types : runs'[t] = IF t \in startedInformers' THEN 1 ELSE 0
         /\ running' \subseteq Types \X Callers
  <1>1. \A t \in Types : runs[t] = IF t \in startedInformers THEN 1 ELSE 0
    BY DEF FactoryIInv
  <1>2. \A t \in Types : runs'[t] = IF t \in Unstarted THEN runs[t] + 1 ELSE runs[t]
    BY DEF Run
  <1>3. \A t \in Types : runs'[t] = IF t \in startedInformers' THEN 1 ELSE 0
    BY <1>1, <1>2 DEF Unstarted, FactoryIInv
  <1>4. runs' \in [Types -> Nat]
    BY DEF Run, FactoryIInv, FactoryTypeOK
  <1>5. running' \subseteq Types \X Callers
    BY DEF Run, Unstarted, FactoryIInv, FactoryTypeOK
  <1> QED BY <1>3, <1>4, <1>5

(* Start, of the factory that can be shut down: nobody waits for an end, as  *)
(* the factory is not marked.                                                *)
LEMMA StartKeeps ==
  ASSUME FactoryIInv, NEW c \in Callers, Start(c)
  PROVE  FactoryIInv'
  <1>1. Run(c, Unstarted) /\ startedInformers' = startedInformers \cup informers
    BY DEF Start
  <1>2. /\ runs' \in [Types -> Nat]
        /\ \A t \in Types : runs'[t] = IF t \in startedInformers' THEN 1 ELSE 0
        /\ running' \subseteq Types \X Callers
    BY <1>1, RunKeeps
  <1>3. UNCHANGED <<scope, informers, shuttingDown, synced, stopped, at, waiting>> /\ ~shuttingDown
    BY DEF Start
  <1>4. wg' \subseteq Types \X Callers /\ (scope = "cluster" => running' \subseteq wg')
    BY <1>1 DEF Start, Run, Unstarted, FactoryIInv, FactoryTypeOK
  <1>5. FactoryTypeOK'
    BY <1>1, <1>2, <1>3, <1>4 DEF FactoryIInv, FactoryTypeOK
  <1>6. ~ \E d \in Callers : at[d] = "down"
    BY <1>3 DEF FactoryIInv
  <1> QED BY <1>1, <1>2, <1>3, <1>4, <1>5, <1>6 DEF FactoryIInv, SyncedIsSynced

(* Start, of the factory for one workspace.                                  *)
LEMMA StartScopedKeeps ==
  ASSUME FactoryIInv, NEW c \in Callers, StartScoped(c)
  PROVE  FactoryIInv'
  <1>1. Run(c, Unstarted) /\ startedInformers' = startedInformers \cup informers
    BY DEF StartScoped
  <1>2. /\ runs' \in [Types -> Nat]
        /\ \A t \in Types : runs'[t] = IF t \in startedInformers' THEN 1 ELSE 0
        /\ running' \subseteq Types \X Callers
    BY <1>1, RunKeeps
  <1>3. UNCHANGED <<scope, informers, wg, shuttingDown, synced, stopped, at, waiting>>
        /\ scope = "scoped"
    BY DEF StartScoped
  <1>4. FactoryTypeOK'
    BY <1>1, <1>2, <1>3 DEF FactoryIInv, FactoryTypeOK
  <1> QED BY <1>1, <1>2, <1>3, <1>4 DEF FactoryIInv, SyncedIsSynced

(* A goroutine ends: its informer first, its count second.                   *)
LEMMA EndKeeps ==
  ASSUME FactoryIInv, NEW c \in Callers, NEW t \in Types, RunReturns(t, c) \/ Done(t, c)
  PROVE  FactoryIInv'
  <1>1. CASE RunReturns(t, c)
    BY <1>1 DEF RunReturns, FactoryIInv, FactoryTypeOK, SyncedIsSynced
  <1>2. CASE Done(t, c)
    BY <1>2 DEF Done, FactoryIInv, FactoryTypeOK, SyncedIsSynced
  <1> QED BY <1>1, <1>2

(* WaitForCacheSync and its return.                                          *)
LEMMA WaitKeeps ==
  ASSUME FactoryIInv, NEW c \in Callers, WaitForCacheSync(c) \/ CachesSynced(c)
  PROVE  FactoryIInv'
  <1>1. CASE WaitForCacheSync(c)
    BY <1>1 DEF WaitForCacheSync, FactoryIInv, FactoryTypeOK, SyncedIsSynced, goroutines, States
  <1>2. CASE CachesSynced(c)
    BY <1>2 DEF CachesSynced, FactoryIInv, FactoryTypeOK, SyncedIsSynced, goroutines, States
  <1> QED BY <1>1, <1>2

(* Shutdown and its return.                                                  *)
LEMMA ShutdownKeeps ==
  ASSUME FactoryIInv, NEW c \in Callers, Shutdown(c) \/ ShutdownReturns(c)
  PROVE  FactoryIInv'
  <1>1. CASE Shutdown(c)
    BY <1>1 DEF Shutdown, FactoryIInv, FactoryTypeOK, SyncedIsSynced, goroutines, States
  <1>2. CASE ShutdownReturns(c)
    BY <1>2 DEF ShutdownReturns, FactoryIInv, FactoryTypeOK, SyncedIsSynced, goroutines, States
  <1> QED BY <1>1, <1>2

(* The environment: an informer syncs, a stop channel is closed.             *)
LEMMA FactoryEnvironmentKeeps ==
  ASSUME FactoryIInv, (\E t \in Types : InformerSyncs(t)) \/ (\E c \in Callers : Stop(c))
  PROVE  FactoryIInv'
  <1>1. CASE \E t \in Types : InformerSyncs(t)
    BY <1>1 DEF InformerSyncs, FactoryIInv, FactoryTypeOK, SyncedIsSynced, goroutines
  <1>2. CASE \E c \in Callers : Stop(c)
    BY <1>2 DEF Stop, FactoryIInv, FactoryTypeOK, SyncedIsSynced, goroutines
  <1> QED BY <1>1, <1>2

(* Every step.                                                               *)
LEMMA FactoryStep == FactoryIInv /\ [FactoryNext]_factoryVars => FactoryIInv'
  <1> SUFFICES ASSUME FactoryIInv, [FactoryNext]_factoryVars PROVE FactoryIInv'
    OBVIOUS
  <1>1. CASE UNCHANGED factoryVars
    BY <1>1 DEF factoryVars, FactoryIInv, FactoryTypeOK, SyncedIsSynced, goroutines
  <1>2. CASE \E c \in Callers :
                \/ Start(c) \/ StartScoped(c) \/ WaitForCacheSync(c) \/ CachesSynced(c)
                \/ Shutdown(c) \/ ShutdownReturns(c) \/ Stop(c)
    BY <1>2, StartKeeps, StartScopedKeeps, WaitKeeps, ShutdownKeeps, FactoryEnvironmentKeeps
  <1>3. CASE \E c \in Callers, t \in Types : ForResource(c, t) \/ RunReturns(t, c) \/ Done(t, c)
    BY <1>3, AskKeeps, EndKeeps
  <1>4. CASE \E t \in Types : InformerSyncs(t)
    BY <1>4, FactoryEnvironmentKeeps
  <1> QED BY <1>1, <1>2, <1>3, <1>4 DEF FactoryNext

(* The inductive invariant.                                                  *)
THEOREM FactoryInvariant == FactorySpec => []FactoryIInv
  BY NewFactory, FactoryStep, PTL DEF FactorySpec

(* Each informer is run once, nothing runs after a Shutdown, and what is     *)
(* reported as synced is, whatever callers ask for, start, wait for and shut *)
(* down at the same time.                                                    *)
THEOREM FactoryIsSafe == FactorySpec => []FactoryKeepsItsWord
  <1>1. FactoryIInv => FactoryKeepsItsWord
    <2> SUFFICES ASSUME FactoryIInv PROVE FactoryKeepsItsWord
      OBVIOUS
    <2>1. RunOnce
      <3> SUFFICES ASSUME NEW t \in Types PROVE runs[t] <= 1
        BY DEF RunOnce
      <3>1. runs[t] = IF t \in startedInformers THEN 1 ELSE 0
        BY DEF FactoryIInv
      <3> QED BY <3>1
    <2>2. ShutdownIsFinal
      BY DEF FactoryIInv, ShutdownIsFinal
    <2> QED BY <2>1, <2>2 DEF FactoryIInv, FactoryKeepsItsWord
  <1> QED BY <1>1, FactoryInvariant, PTL

(* The wait group is used as its documentation demands: Start and Shutdown   *)
(* share no lock while Shutdown waits, but the mark it has left keeps Start  *)
(* from adding to the group.                                                 *)
THEOREM GroupIsUsedRight == FactorySpec => NothingAddedWhileWaiting
  <1>1. FactoryIInv /\ [FactoryNext]_factoryVars
          => [(\E c \in Callers : at[c] = "shutdown") => wg' \subseteq wg]_factoryVars
    <2> SUFFICES ASSUME FactoryIInv, [FactoryNext]_factoryVars,
                        NEW w \in Callers, at[w] = "shutdown"
                 PROVE  wg' \subseteq wg
      OBVIOUS
    <2>1. shuttingDown /\ scope = "cluster"
      BY DEF FactoryIInv
    <2>2. CASE UNCHANGED factoryVars
      BY <2>2 DEF factoryVars, goroutines
    <2>3. CASE \E c \in Callers :
                  \/ Start(c) \/ StartScoped(c) \/ WaitForCacheSync(c) \/ CachesSynced(c)
                  \/ Shutdown(c) \/ ShutdownReturns(c) \/ Stop(c)
      BY <2>1, <2>3 DEF Start, StartScoped, WaitForCacheSync, CachesSynced, Shutdown,
                        ShutdownReturns, Stop, goroutines
    <2>4. CASE \E c \in Callers, t \in Types : ForResource(c, t) \/ RunReturns(t, c) \/ Done(t, c)
      BY <2>4 DEF ForResource, InformerFor, InformerForScoped, Ask, RunReturns, Done, goroutines
    <2>5. CASE \E t \in Types : InformerSyncs(t)
      BY <2>5 DEF InformerSyncs, goroutines
    <2> QED BY <2>2, <2>3, <2>4, <2>5 DEF FactoryNext
  <1> QED BY <1>1, FactoryInvariant, PTL DEF FactorySpec, NothingAddedWhileWaiting

-----------------------------------------------------------------------------
(* Objects that do not follow a namespace.  A controller that has nothing   *)
(* to do leaves the object in its place by the placements that its cache    *)
(* shows.  The two arguments are that a pass over an object that is as it   *)
(* should be leaves nothing to say (WsSettled), and that a target can only  *)
(* stop being expected when the placement that named it changes, which      *)
(* looks up the objects of exactly that target (NoLongerExpected).          *)

(* Fields of an object, as computePlacement and the syncers change them,    *)
(* keep their types.                                                        *)
LEMMA FieldsTyped ==
    ASSUME NEW o \in WsObjects, NEW S \in SUBSET Keys
    PROVE  /\ [o EXCEPT !.pending = S] \in WsObjects
           /\ [o EXCEPT !.fin = S] \in WsObjects
           /\ [o EXCEPT !.del = S] \in WsObjects
           /\ [o EXCEPT !.soft = S] \in WsObjects
           /\ [o EXCEPT !.deleting = TRUE] \in WsObjects
           /\ \A T, U \in SUBSET Keys :
                /\ [o EXCEPT !.label = S, !.fin = T, !.del = U] \in WsObjects
                /\ [o EXCEPT !.label = S, !.pending = T, !.del = U] \in WsObjects
BY DEF WsObjects

LEMMA GoneTyped == WsGone \in WsObjects
BY DEF WsObjects, WsGone

(* What a pass of the controller makes of an object is an object.           *)
LEMMA ReconciledTyped ==
    ASSUME WsTypeOK, NEW o \in WsObjects
    PROVE  Reconciled(o) \in WsObjects
<1> DEFINE E == ExpectedKeys(placedSeen)
           gone == (o.label \ E) \ Holders(o)
           held == (o.label \ E) \cap Holders(o)
           new == E \ o.label
           c == ComputeScopedPlacement(o, E)
           d == PropagateScopedDeletion(o)
<1>1. E \subseteq Keys BY DEF ExpectedKeys
<1>2. o.label \subseteq Keys /\ o.pending \subseteq Keys /\ o.del \subseteq Keys /\ o.fin \subseteq Keys
  BY DEF WsObjects
<1>3. d \in WsObjects
  BY <1>2, FieldsTyped DEF PropagateScopedDeletion, GetLocations
<1>4. c \in WsObjects
  <2> HIDE DEF E
  <2>1. c = [o EXCEPT !.label = (o.label \ gone) \cup new, !.pending = (o.pending \ gone) \cup new,
                      !.del = (o.del \ (gone \cup (o.label \cap E))) \cup held]
    BY DEF ComputeScopedPlacement, GetLocations, WsObjects
  <2> HIDE DEF gone, held, new
  <2>2. gone \subseteq Keys /\ held \subseteq Keys /\ new \subseteq Keys
    BY <1>1, <1>2 DEF gone, held, new
  <2>3. /\ (o.label \ gone) \cup new \in SUBSET Keys /\ (o.pending \ gone) \cup new \in SUBSET Keys
        /\ (o.del \ (gone \cup (o.label \cap E))) \cup held \in SUBSET Keys
    BY <1>1, <1>2, <2>2
  <2> HIDE DEF c
  <2> QED BY <2>1, <2>3, FieldsTyped
<1> DEFINE a == IF o.deleting THEN d ELSE c
<1>5. Reconciled(o) = [a EXCEPT !.fin = a.fin \cap wsLive]
  BY DEF Reconciled, Found
<1> HIDE DEF c, d
<1>6. a \in WsObjects BY <1>3, <1>4
<1> HIDE DEF a
<1>7. a.fin \cap wsLive \in SUBSET Keys BY <1>6 DEF WsObjects
<1> QED BY <1>5, <1>6, <1>7, FieldsTyped

(* An object that a pass leaves as it is, is in its place.                  *)
LEMMA WsSettled ==
    ASSUME WsTypeOK, NEW o \in WsObjects, wsKind = "scoped", Reconciled(o) = o
    PROVE  InPlace(o)
<1> DEFINE E == ExpectedKeys(placedSeen)
           c == ComputeScopedPlacement(o, E)
           d == PropagateScopedDeletion(o)
<1>1. o.label \subseteq Keys /\ o.fin \subseteq Keys BY DEF WsObjects
<1>2. CASE o.deleting
  <2>1. /\ d.del = o.del \cup o.label /\ d.fin = o.fin
        /\ Reconciled(o) = [d EXCEPT !.fin = d.fin \cap wsLive] /\ d \in WsObjects
    BY <1>1, <1>2, FieldsTyped DEF PropagateScopedDeletion, GetLocations, Reconciled, Found, WsObjects
  <2>2. o.del = o.del \cup o.label /\ o.fin = o.fin \cap wsLive
    <3> HIDE DEF d
    <3>1. Reconciled(o).del = d.del /\ Reconciled(o).fin = d.fin \cap wsLive
      BY <2>1 DEF WsObjects
    <3> QED BY <2>1, <3>1
  <2>3. o.label \subseteq o.del /\ o.fin \subseteq wsLive BY <2>2
  <2> QED BY <1>2, <2>3 DEF InPlace
<1>3. CASE ~o.deleting
  <2> DEFINE gone == (o.label \ E) \ Holders(o)
             held == (o.label \ E) \cap Holders(o)
             new == E \ o.label
  <2>1. c = [o EXCEPT !.label = (o.label \ gone) \cup new, !.pending = (o.pending \ gone) \cup new,
                      !.del = (o.del \ (gone \cup (o.label \cap E))) \cup held]
    <3> HIDE DEF E
    <3> QED BY DEF ComputeScopedPlacement, GetLocations, WsObjects
  <2>2. /\ c.label = (o.label \ gone) \cup new
        /\ c.del = (o.del \ (gone \cup (o.label \cap E))) \cup held
        /\ c.fin = o.fin
    <3> HIDE DEF E, gone, held, new, c
    <3> QED BY <2>1 DEF WsObjects
  <2>3. Reconciled(o) = [c EXCEPT !.fin = c.fin \cap wsLive]
    BY <1>3 DEF Reconciled, Found
  <2>4. o.label = c.label /\ o.del = c.del /\ o.fin = c.fin \cap wsLive
    <3> HIDE DEF c
    <3>1. DOMAIN c = DOMAIN o
      <4> HIDE DEF E, gone, held, new
      <4> QED BY <2>1 DEF c
    <3>2. "label" \in DOMAIN c /\ "del" \in DOMAIN c /\ "fin" \in DOMAIN c
      BY <3>1 DEF WsObjects
    <3>3. /\ [c EXCEPT !.fin = c.fin \cap wsLive].label = c.label
          /\ [c EXCEPT !.fin = c.fin \cap wsLive].del = c.del
          /\ [c EXCEPT !.fin = c.fin \cap wsLive].fin = c.fin \cap wsLive
      BY <3>2
    <3> QED BY <2>3, <3>3
  <2>5. o.fin \subseteq wsLive BY <2>4
  <2>6. o.label \ E \subseteq o.del \cap Holders(o)
    <3> HIDE DEF c, E
    <3>1. gone = {} BY <2>2, <2>4
    <3>2. o.label \ E = held BY <3>1
    <3> QED BY <2>2, <2>4, <3>2
  <2> QED BY <1>3, <2>5, <2>6 DEF InPlace
<1>4. o.deleting \in BOOLEAN BY DEF WsObjects
<1> QED BY <1>2, <1>3, <1>4

(* A key is no longer expected because the placement that named it has      *)
(* changed.                                                                 *)
LEMMA NoLongerExpected ==
    ASSUME WsTypeOK, NEW p \in Places, NEW a,
           NEW k \in ExpectedKeys(placedSeen) \ ExpectedKeys([placedSeen EXCEPT ![p] = a])
    PROVE  placedSeen[p] = k
<1>1. k \in Keys BY DEF ExpectedKeys
<1>2. PICK q \in Places : placedSeen[q] = k BY DEF ExpectedKeys
<1>3. SUFFICES ASSUME q # p PROVE FALSE BY <1>2
<1>4. [placedSeen EXCEPT ![p] = a][q] = k BY <1>2, <1>3 DEF WsTypeOK
<1> QED BY <1>1, <1>4 DEF ExpectedKeys

-----------------------------------------------------------------------------
(* The steps *)

(* A write of a well-formed object leaves a well-formed object, and every   *)
(* copy is old.                                                             *)
LEMMA WriteTyped ==
    ASSUME NEW o \in WsObjects, WriteResource(o)
    PROVE  wsObj' \in WsObjects /\ wsFresh' = {}
BY GoneTyped DEF WriteResource

LEMMA WsWrite ==
    ASSUME WsIInv, NEW o \in WsObjects, SomebodyWrites(o)
    PROVE  WsIInv'
<1>1. wsObj' \in WsObjects /\ wsFresh' = {} BY WriteTyped DEF SomebodyWrites
<1>2. WsTypeOK' BY <1>1 DEF WsIInv, WsTypeOK, SomebodyWrites, WsEvent
<1>3. ~NothingToDo' BY <1>1 DEF NothingToDo
<1> QED BY <1>1, <1>2, <1>3 DEF WsIInv, SomebodyWrites

LEMMA WsRead ==
    ASSUME WsIInv, ReadResource
    PROVE  WsIInv'
<1> USE DEF WsIInv
<1>1. CASE wsWork' = [at |-> "delete", obj |-> wsSeen] /\ wsKind = "upsynced" /\ UNCHANGED wsFresh
  <2>1. WsTypeOK' BY <1>1 DEF WsTypeOK, ReadResource
  <2>2. ~NothingToDo' BY <1>1 DEF NothingToDo, Resting
  <2> QED BY <1>1, <2>1, <2>2 DEF ReadResource
<1>2. CASE /\ wsWork' = [at |-> "patch", obj |-> Reconciled(wsSeen)]
           /\ wsFresh' = IF "seen" \in wsFresh THEN wsFresh \cup {"work"} ELSE wsFresh \ {"work"}
  <2>1. Reconciled(wsSeen) \in WsObjects BY ReconciledTyped DEF WsTypeOK
  <2>2. WsTypeOK' BY <1>2, <2>1 DEF WsTypeOK, ReadResource
  <2>3. ~NothingToDo' BY <1>2 DEF NothingToDo, Resting
  <2> QED BY <1>2, <2>2, <2>3 DEF ReadResource
<1>3. CASE /\ \/ ~wsSeen.exists
              \/ wsKind = "upsynced" /\ Found(wsSeen.label) = wsSeen.label
              \/ wsKind = "scoped" /\ Reconciled(wsSeen) = wsSeen
           /\ UNCHANGED <<wsWork, wsFresh>>
  <2>1. WsTypeOK' BY <1>3 DEF WsTypeOK, ReadResource
  <2>2. InPlace(wsSeen)
    <3>1. CASE ~wsSeen.exists BY <3>1 DEF InPlace
    <3>2. CASE wsKind = "upsynced" /\ Found(wsSeen.label) = wsSeen.label
      BY <3>2 DEF InPlace, Found
    <3>3. CASE wsKind = "scoped" /\ Reconciled(wsSeen) = wsSeen
      BY <3>3, WsSettled DEF WsTypeOK
    <3> QED BY <1>3, <3>1, <3>2, <3>3
  <2>3. "seen" \in wsFresh => wsSeen = wsObj OBVIOUS
  <2>4. NothingToDo' => InPlace(wsObj)'
    BY <1>3, <2>2, <2>3 DEF NothingToDo, ReadResource, InPlace, ExpectedKeys
  <2> QED BY <1>3, <2>1, <2>4 DEF ReadResource
<1> QED BY <1>1, <1>2, <1>3 DEF ReadResource

LEMMA WsPatch ==
    ASSUME WsIInv, PatchResource
    PROVE  WsIInv'
<1> USE DEF WsIInv
<1>1. WsGone \in WsObjects BY GoneTyped
<1>2. CASE WriteResource(wsWork.obj) /\ UNCHANGED wsQueued
  <2>1. wsObj' \in WsObjects /\ wsFresh' = {} BY <1>2, WriteTyped DEF WsTypeOK
  <2>2. WsTypeOK' BY <1>1, <1>2, <2>1 DEF WsTypeOK, PatchResource, Resting
  <2>3. ~NothingToDo' BY <2>1 DEF NothingToDo
  <2> QED BY <2>1, <2>2, <2>3 DEF PatchResource, Resting
<1>3. CASE wsQueued' = TRUE /\ UNCHANGED <<wsObj, wsFresh>>
  <2>1. WsTypeOK' BY <1>1, <1>3 DEF WsTypeOK, PatchResource, Resting
  <2>2. ~NothingToDo' BY <1>3 DEF NothingToDo
  <2> QED BY <1>3, <2>1, <2>2 DEF PatchResource, Resting
<1> QED BY <1>2, <1>3 DEF PatchResource

(* The second deletion of an upsynced object finds it terminating, which is *)
(* all that the controller has to see to.                                   *)
LEMMA WsDelete ==
    ASSUME WsIInv, DeleteResource
    PROVE  WsIInv'
<1> USE DEF WsIInv
<1>1. WsGone \in WsObjects BY GoneTyped
<1>2. CASE WriteResource([wsObj EXCEPT !.deleting = TRUE]) /\ UNCHANGED wsQueued
  <2>1. wsObj' \in WsObjects /\ wsFresh' = {} BY <1>2, WriteTyped, FieldsTyped DEF WsTypeOK
  <2>2. WsTypeOK' BY <1>1, <1>2, <2>1 DEF WsTypeOK, DeleteResource, Resting
  <2>3. ~NothingToDo' BY <2>1 DEF NothingToDo
  <2> QED BY <2>1, <2>2, <2>3 DEF DeleteResource, Resting
<1>3. CASE wsObj.exists /\ wsObj.deleting /\ UNCHANGED <<wsObj, wsFresh, wsQueued>>
  <2>1. WsTypeOK' BY <1>1, <1>3 DEF WsTypeOK, DeleteResource, Resting
  <2>2. InPlace(wsObj)' BY <1>3 DEF InPlace, DeleteResource
  <2> QED BY <1>3, <2>1, <2>2 DEF DeleteResource, Resting
<1>4. CASE wsQueued' = TRUE /\ UNCHANGED <<wsObj, wsFresh>>
  <2>1. WsTypeOK' BY <1>1, <1>4 DEF WsTypeOK, DeleteResource, Resting
  <2>2. ~NothingToDo' BY <1>4 DEF NothingToDo
  <2> QED BY <1>4, <2>1, <2>2 DEF DeleteResource, Resting
<1> QED BY <1>2, <1>3, <1>4 DEF DeleteResource

LEMMA WsSeeObject ==
    ASSUME WsIInv, SeeResource
    PROVE  WsIInv'
<1> USE DEF WsIInv
<1>1. wsObj.exists \in BOOLEAN BY DEF WsTypeOK, WsObjects
<1>2. wsQueued' \in BOOLEAN BY <1>1 DEF SeeResource, WsTypeOK
<1>3. WsTypeOK' BY <1>2 DEF WsTypeOK, SeeResource
<1>4. NothingToDo' => ~wsObj'.exists BY <1>1 DEF NothingToDo, SeeResource
<1> QED BY <1>3, <1>4 DEF InPlace, SeeResource

(* The objects of the target that a placement has left are looked up in a   *)
(* cache that may be old; but an old cache means that there is more to do.  *)
LEMMA WsSeePlaced ==
    ASSUME WsIInv, NEW p \in Places, SeePlacement(p)
    PROVE  WsIInv'
<1> USE DEF WsIInv
<1>1. wsQueued' \in BOOLEAN BY DEF SeePlacement, WsTypeOK, Indexed
<1>2. placedSeen' \in [Places -> Annotations] BY DEF SeePlacement, WsTypeOK
<1>3. WsTypeOK' BY <1>1, <1>2 DEF WsTypeOK, SeePlacement
<1>4. ASSUME NothingToDo', wsObj.exists PROVE InPlace(wsObj)'
  <2>1. /\ ~wsQueued /\ ~Indexed(HandledPlacement(p)) /\ wsSeen = wsObj
        /\ InPlace(wsObj)
    BY <1>4 DEF NothingToDo, SeePlacement
  <2>2. wsObj.label \subseteq Keys BY DEF WsTypeOK, WsObjects
  <2>3. wsObj.label \ ExpectedKeys(placedSeen') \subseteq wsObj.label \ ExpectedKeys(placedSeen)
    <3>1. SUFFICES ASSUME NEW k \in wsObj.label, k \in ExpectedKeys(placedSeen),
                          k \notin ExpectedKeys(placedSeen')
                   PROVE  FALSE
      OBVIOUS
    <3>2. placedSeen[p] = k BY <3>1, NoLongerExpected DEF SeePlacement
    <3>3. k # NoPlacement BY <2>2, WsConstants
    <3>4. HandledPlacement(p) = k BY <3>2, <3>3 DEF HandledPlacement
    <3> QED BY <1>4, <2>1, <3>4 DEF Indexed
  <2>4. UNCHANGED <<wsObj, wsKind, wsLive>> BY DEF SeePlacement
  <2> QED BY <1>4, <2>1, <2>3, <2>4 DEF InPlace
<1>5. ~wsObj.exists => InPlace(wsObj)' BY DEF InPlace, SeePlacement
<1> QED BY <1>3, <1>4, <1>5 DEF SeePlacement

LEMMA WsTargetGoes ==
    ASSUME WsIInv, NEW t \in Keys, SyncTargetDeleted(t)
    PROVE  WsIInv'
<1> USE DEF WsIInv
<1>1. wsQueued' \in BOOLEAN BY DEF SyncTargetDeleted, WsTypeOK, Indexed
<1>2. WsTypeOK' BY <1>1 DEF WsTypeOK, SyncTargetDeleted, WsEvent
<1>3. ASSUME NothingToDo', wsObj.exists PROVE InPlace(wsObj)'
  <2>1. ~Indexed(t) /\ wsSeen = wsObj /\ InPlace(wsObj)
    BY <1>3 DEF NothingToDo, SyncTargetDeleted
  <2>2. t \notin wsObj.label \cup wsObj.fin BY <1>3, <2>1 DEF Indexed
  <2>3. /\ wsLive' = wsLive \ {t}
        /\ UNCHANGED <<wsObj, wsKind, placedSeen>> BY DEF SyncTargetDeleted
  <2> QED BY <1>3, <2>1, <2>2, <2>3 DEF InPlace, ExpectedKeys
<1>4. ~wsObj.exists => InPlace(wsObj)' BY DEF InPlace, SyncTargetDeleted
<1> QED BY <1>2, <1>3, <1>4 DEF SyncTargetDeleted

LEMMA WsTargetComes ==
    ASSUME WsIInv, NEW t \in Keys, SyncTargetCreated(t)
    PROVE  WsIInv'
<1> USE DEF WsIInv
<1>1. WsTypeOK' BY DEF WsTypeOK, SyncTargetCreated, WsEvent
<1>2. InPlace(wsObj) => InPlace(wsObj)' BY DEF InPlace, ExpectedKeys, SyncTargetCreated
<1> QED BY <1>1, <1>2 DEF NothingToDo, SyncTargetCreated

LEMMA WsPlacementChanges ==
    ASSUME WsIInv, NEW p \in Places, NEW a \in Annotations, ChangePlacement(p, a)
    PROVE  WsIInv'
<1> USE DEF WsIInv
<1>1. WsTypeOK' BY DEF WsTypeOK, ChangePlacement, WsEvent
<1>2. InPlace(wsObj) => InPlace(wsObj)' BY DEF InPlace, ExpectedKeys, ChangePlacement
<1> QED BY <1>1, <1>2 DEF NothingToDo, ChangePlacement

LEMMA WsRequestFails ==
    ASSUME WsIInv, ResourceRequestFails
    PROVE  WsIInv'
<1> USE DEF WsIInv
<1>1. WsTypeOK' BY GoneTyped DEF WsTypeOK, ResourceRequestFails, WsEvent, Resting
<1>2. ~NothingToDo' BY DEF NothingToDo, ResourceRequestFails
<1> QED BY <1>1, <1>2 DEF ResourceRequestFails, Resting

LEMMA WsRestarts ==
    ASSUME WsIInv, RestartServer
    PROVE  WsIInv'
<1> USE DEF WsIInv
<1>1. wsObj.exists \in BOOLEAN BY DEF WsTypeOK, WsObjects
<1>2. WsTypeOK' BY <1>1, GoneTyped DEF WsTypeOK, RestartServer, WsEvent, Resting
<1>3. NothingToDo' => ~wsObj'.exists BY <1>1 DEF NothingToDo, RestartServer
<1> QED BY <1>2, <1>3 DEF InPlace, RestartServer, Resting

(* What others write is an object.                                          *)
LEMMA WsOthersWrite ==
    ASSUME WsIInv, NEW t \in Keys,
           CreateObject(t) \/ DeleteObject \/ Coordinate(t) \/ SyncerClaims(t) \/ SyncerReleases(t)
              \/ SetSoftFinalizer(t)
    PROVE  WsIInv'
<1>1. wsObj \in WsObjects BY DEF WsIInv, WsTypeOK
<1>2. /\ wsObj.label \in SUBSET Keys /\ wsObj.pending \in SUBSET Keys /\ wsObj.fin \in SUBSET Keys
      /\ wsObj.del \in SUBSET Keys /\ wsObj.soft \in SUBSET Keys
  BY <1>1 DEF WsObjects
<1>3. /\ [WsGone EXCEPT !.exists = TRUE] \in WsObjects
      /\ [WsGone EXCEPT !.exists = TRUE, !.label = {t}, !.fin = {t}] \in WsObjects
  BY DEF WsGone, WsObjects
<1>4. CASE CreateObject(t) BY <1>3, <1>4, WsWrite DEF CreateObject
<1>5. CASE DeleteObject BY <1>1, <1>5, FieldsTyped, WsWrite DEF DeleteObject
<1>6. CASE Coordinate(t)
  <2>1. [wsObj EXCEPT !.pending = @ \ {t}] \in WsObjects BY <1>1, <1>2, FieldsTyped
  <2> QED BY <1>6, <2>1, WsWrite DEF Coordinate
<1>7. CASE SyncerClaims(t)
  <2>1. [wsObj EXCEPT !.fin = @ \cup {t}] \in WsObjects BY <1>1, <1>2, FieldsTyped
  <2> QED BY <1>7, <2>1, WsWrite DEF SyncerClaims
<1>8. CASE SyncerReleases(t)
  <2>1. [wsObj EXCEPT !.label = @ \ {t}, !.fin = @ \ {t}, !.del = @ \ {t}] \in WsObjects
    <3>1. [wsObj EXCEPT !.label = wsObj.label \ {t}, !.fin = wsObj.fin \ {t}, !.del = wsObj.del \ {t}]
             \in WsObjects
      BY <1>1, <1>2, FieldsTyped
    <3> QED BY <1>1, <3>1 DEF WsObjects
  <2>2. [wsObj EXCEPT !.fin = @ \ {t}] \in WsObjects BY <1>1, <1>2, FieldsTyped
  <2> QED BY <1>8, <2>1, <2>2, WsWrite DEF SyncerReleases
<1>9. CASE SetSoftFinalizer(t)
  <2>1. [wsObj EXCEPT !.soft = IF t \in @ THEN @ \ {t} ELSE @ \cup {t}] \in WsObjects
    BY <1>1, <1>2, FieldsTyped
  <2> QED BY <1>9, <2>1, WsWrite DEF SetSoftFinalizer
<1> QED BY <1>4, <1>5, <1>6, <1>7, <1>8, <1>9

-----------------------------------------------------------------------------
(* The theorems *)

LEMMA WsStarts == ASSUME WsInit PROVE WsIInv
<1>1. WsTypeOK
  BY GoneTyped DEF WsInit, WsTypeOK, WsGone, Resting, Annotations
<1>2. InPlace(wsObj) BY DEF WsInit, InPlace, WsGone
<1> QED BY <1>1, <1>2 DEF WsInit, WsIInv, Resting

LEMMA WsStays == ASSUME WsIInv, [WsNext]_wsVars PROVE WsIInv'
<1>1. CASE UNCHANGED wsVars
  BY <1>1 DEF WsIInv, WsTypeOK, NothingToDo, InPlace, ExpectedKeys, wsVars
<1>2. CASE ReadResource BY <1>2, WsRead
<1>3. CASE PatchResource BY <1>3, WsPatch
<1>4. CASE DeleteResource BY <1>4, WsDelete
<1>5. CASE SeeResource BY <1>5, WsSeeObject
<1>6. CASE ResourceRequestFails BY <1>6, WsRequestFails
<1>7. CASE RestartServer BY <1>7, WsRestarts
<1>8. CASE DeleteObject
  <2>1. [wsObj EXCEPT !.deleting = TRUE] \in WsObjects BY FieldsTyped DEF WsIInv, WsTypeOK
  <2> QED BY <1>8, <2>1, WsWrite DEF DeleteObject
<1>9. CASE \E p \in Places : SeePlacement(p) \/ \E a \in Annotations : ChangePlacement(p, a)
  BY <1>9, WsSeePlaced, WsPlacementChanges
<1>10. CASE \E t \in Keys : SyncTargetDeleted(t) \/ SyncTargetCreated(t)
  BY <1>10, WsTargetGoes, WsTargetComes
<1>11. CASE \E t \in Keys : \/ CreateObject(t) \/ Coordinate(t) \/ SyncerClaims(t)
                            \/ SyncerReleases(t) \/ SetSoftFinalizer(t)
  BY <1>11, WsOthersWrite
<1> QED
  BY <1>1, <1>2, <1>3, <1>4, <1>5, <1>6, <1>7, <1>8, <1>9, <1>10, <1>11 DEF WsNext

(* A controller with nothing to do leaves the object in its place by what   *)
(* it knows, whatever handlers, writers and workers do in between.          *)
THEOREM WsInvariant == WsSpec => []WsIInv
BY WsStarts, WsStays, PTL DEF WsSpec

(* When nothing is on its way, a cluster-scoped object is on no target that *)
(* no placement names, unless it is marked and held there, no finalizer of  *)
(* a deleted SyncTarget is left on it, and an upsynced object has its       *)
(* SyncTarget or is being deleted.                                          *)
THEOREM ObjectsAreInPlace == WsSpec => []QuietMeansPlaced
<1>1. WsIInv => QuietMeansPlaced BY DEF WsIInv, QuietMeansPlaced
<1> QED BY <1>1, WsInvariant, PTL

-----------------------------------------------------------------------------
(* Sums over finite sets.  The induction theorems of the library take an     *)
(* operator, which the provers cannot instantiate; that the order of the     *)
(* subsets is well-founded is a statement about sets and does as well.       *)

(* Induction over the subsets of a finite set, from the smallest ones that   *)
(* are not good.                                                             *)
LEMMA SubsetInduction ==
    ASSUME NEW S, IsFiniteSet(S), NEW Good,
           \A T \in SUBSET S : (\A U \in SUBSET T : U # T => U \in Good) => T \in Good
    PROVE  S \in Good
  <1> DEFINE Bad == {T \in SUBSET S : T \notin Good}
  <1>1. Bad \subseteq FiniteSubsetsOf(S)
    BY FS_Subset DEF FiniteSubsetsOf
  <1>2. SUFFICES ASSUME Bad # {} PROVE FALSE
    OBVIOUS
  <1>3. PICK B \in Bad : \A C \in Bad : <<C, B>> \notin StrictSubsetOrdering(S)
    <2>1. IsWellFoundedOn(StrictSubsetOrdering(S), FiniteSubsetsOf(S))
      BY FS_StrictSubsetOrderingWellFounded
    <2> HIDE DEF Bad
    <2> QED BY <1>1, <1>2, <2>1, WFMin
  <1>4. ASSUME NEW U \in SUBSET B, U # B PROVE U \in Good
    <2>1. <<U, B>> \in StrictSubsetOrdering(S)
      BY <1>4 DEF StrictSubsetOrdering
    <2> QED BY <1>3, <2>1
  <1> QED BY <1>4

(* The recursion of MapThenFoldSet: the element taken out first, one step of *)
(* it with g for the sums over smaller sets, and the whole.                  *)
Pick(s) == CHOOSE x \in s : TRUE

(* The element that a fold takes out first is one of the set.                *)
LEMMA Picked == \A s : s # {} => Pick(s) \in s
  BY DEF Pick

Body(f, g, s) == IF s = {} THEN 0 ELSE f[Pick(s)] + g[s \ {Pick(s)}]

(* The recursion of a sum over a finite set has a solution: one for the      *)
(* subsets up to each size.                                                  *)
LEMMA SumExists ==
    ASSUME NEW f, NEW S, IsFiniteSet(S)
    PROVE  \E g : g = [s \in SUBSET S |-> Body(f, g, s)]
  <1> DEFINE Upto(B) == \E g : \A s \in SUBSET S : Cardinality(s) <= Cardinality(B) => g[s] = Body(f, g, s)
             Good == {B \in SUBSET S : Upto(B)}
  <1>0. \A s \in SUBSET S : Cardinality(s) \in Nat /\ IsFiniteSet(s) /\ (Cardinality(s) = 0 <=> s = {})
    BY FS_Subset, FS_CardinalityType, FS_EmptySet
  <1>1. {} \in Good
    <2> DEFINE g == [s \in SUBSET S |-> 0]
    <2>1. \A s \in SUBSET S : Cardinality(s) <= Cardinality({}) => s = {}
      BY <1>0, FS_EmptySet
    <2>2. \A s \in SUBSET S : Cardinality(s) <= Cardinality({}) => g[s] = Body(f, g, s)
      BY <2>1 DEF Body
    <2> QED BY <2>2
  <1>2. ASSUME NEW B \in SUBSET S, NEW y \in B, B \ {y} \in Good PROVE B \in Good
    <2> DEFINE T == B \ {y}
    <2>1. PICK h : \A s \in SUBSET S : Cardinality(s) <= Cardinality(T) => h[s] = Body(f, h, s)
      BY <1>2
    <2> DEFINE g == [s \in SUBSET S |-> IF Cardinality(s) <= Cardinality(T) THEN h[s] ELSE Body(f, h, s)]
    <2>2. Cardinality(B) = Cardinality(T) + 1
      BY <1>0, FS_RemoveElement
    <2>3. ASSUME NEW s \in SUBSET S, s # {}, Cardinality(s) <= Cardinality(T) + 1
          PROVE  g[s \ {Pick(s)}] = h[s \ {Pick(s)}]
      <3>1. Pick(s) \in s BY <2>3, Picked
      <3>2. Cardinality(s \ {Pick(s)}) = Cardinality(s) - 1 BY <1>0, <3>1, FS_RemoveElement
      <3>3. s \ {Pick(s)} \in SUBSET S /\ Cardinality(s \ {Pick(s)}) <= Cardinality(T) BY <1>0, <2>3, <3>2
      <3> QED BY <3>3
    <2>4. ASSUME NEW s \in SUBSET S, Cardinality(s) <= Cardinality(T) + 1
          PROVE  g[s] = Body(f, g, s)
      <3>1. Body(f, g, s) = Body(f, h, s) BY <2>3, <2>4 DEF Body
      <3>2. g[s] = Body(f, h, s) BY <2>1
      <3> QED BY <3>1, <3>2
    <2>6. Upto(B)
      BY <2>2, <2>4
    <2> QED BY <2>6
  <1>3. S \in Good
    <2>1. ASSUME NEW T \in SUBSET S, \A U \in SUBSET T : U # T => U \in Good PROVE T \in Good
      <3>1. CASE T = {} BY <1>1, <3>1
      <3>2. CASE T # {}
        <4>1. PICK y \in T : TRUE BY <3>2
        <4>2. T \ {y} \in Good BY <2>1, <4>1
        <4> HIDE DEF Good
        <4> QED BY <1>2, <4>1, <4>2
      <3> QED BY <3>1, <3>2
    <2> HIDE DEF Good
    <2> QED BY <2>1, SubsetInduction
  <1>4. PICK h : \A s \in SUBSET S : Cardinality(s) <= Cardinality(S) => h[s] = Body(f, h, s)
    BY <1>3
  <1> DEFINE g == [s \in SUBSET S |-> h[s]]
  <1>5. \A s \in SUBSET S : h[s] = Body(f, h, s)
    BY <1>0, <1>4, FS_Subset
  <1>6. \A s \in SUBSET S : g[s] = Body(f, g, s)
    <2> SUFFICES ASSUME NEW s \in SUBSET S PROVE g[s] = Body(f, g, s)
      OBVIOUS
    <2>1. \A x : s \ {x} \in SUBSET S OBVIOUS
    <2> QED BY <1>5, <2>1 DEF Body
  <1>7. g = [s \in SUBSET S |-> Body(f, g, s)]
    BY <1>6
  <1> QED BY <1>7

Iter(f, S) == CHOOSE g : g = [s \in SUBSET S |-> Body(f, g, s)]

(* SumFunctionOnSet is that recursion, at the whole set.                     *)
LEMMA SumIsIter ==
    ASSUME NEW f, NEW S
    PROVE  Copies!SumFunctionOnSet(f, S) = Iter(f, S)[S]
  BY DEF Copies!SumFunctionOnSet, Copies!FoldFunctionOnSet, Copies!MapThenFoldSet, Iter, Body, Pick

(* The sum over a subset is one element and the sum over the rest.           *)
LEMMA IterEquation ==
    ASSUME NEW f, NEW S, IsFiniteSet(S), NEW s \in SUBSET S
    PROVE  Iter(f, S)[s] = Body(f, Iter(f, S), s)
  <1> DEFINE it == Iter(f, S)
  <1>1. it = [t \in SUBSET S |-> Body(f, it, t)]
    BY SumExists DEF Iter
  <1> HIDE DEF it
  <1>2. it[s] = Body(f, it, s) BY <1>1
  <1> QED BY <1>2 DEF it

(* The sum of nothing.                                                       *)
LEMMA SumOfNone ==
    ASSUME NEW f, NEW S, IsFiniteSet(S)
    PROVE  Iter(f, S)[{}] = 0
  BY IterEquation DEF Body

(* The sum of f is made by taking out one element after the other.           *)
LEMMA SumStep ==
    ASSUME NEW f, NEW S, IsFiniteSet(S), NEW s \in SUBSET S, s # {}
    PROVE  Pick(s) \in s /\ Iter(f, S)[s] = f[Pick(s)] + Iter(f, S)[s \ {Pick(s)}]
  BY IterEquation, Picked DEF Body

(* A sum of natural numbers is one.                                          *)
LEMMA SumIsNatural ==
    ASSUME NEW S, IsFiniteSet(S), NEW f \in [S -> Nat]
    PROVE  Copies!SumFunction(f) \in Nat
  <1> DEFINE it == Iter(f, S)
             Good == {T \in SUBSET S : it[T] \in Nat}
  <1>1. it[{}] = 0 BY SumOfNone
  <1>2. \A s \in SUBSET S : s # {} => Pick(s) \in s /\ it[s] = f[Pick(s)] + it[s \ {Pick(s)}]
    BY SumStep
  <1>3. Copies!SumFunction(f) = it[S] BY SumIsIter DEF Copies!SumFunction
  <1> HIDE DEF it
  <1>4. ASSUME NEW T \in SUBSET S, \A U \in SUBSET T : U # T => U \in Good PROVE T \in Good
    <2>1. CASE T = {} BY <1>1, <2>1
    <2>2. CASE T # {}
      <3>1. Pick(T) \in T /\ it[T] = f[Pick(T)] + it[T \ {Pick(T)}] BY <1>2, <2>2
      <3>2. T \ {Pick(T)} \in Good BY <1>4, <3>1
      <3>3. f[Pick(T)] \in Nat BY <3>1
      <3> QED BY <3>1, <3>2, <3>3
    <2> QED BY <2>1, <2>2
  <1>5. S \in Good
    <2> HIDE DEF Good
    <2> QED BY <1>4, SubsetInduction
  <1> QED BY <1>3, <1>5

(* The sum over one element.                                                 *)
LEMMA SumOfOne ==
    ASSUME NEW t, NEW f, DOMAIN f = {t}, f[t] \in Nat
    PROVE  Copies!SumFunction(f) = f[t]
  <1>1. IsFiniteSet({t}) BY FS_Singleton
  <1>2. Pick({t}) \in {t} /\ Iter(f, {t})[{t}] = f[Pick({t})] + Iter(f, {t})[{t} \ {Pick({t})}]
    BY <1>1, SumStep
  <1>3. Iter(f, {t})[{}] = 0 BY <1>1, SumOfNone
  <1>4. Pick({t}) = t /\ {t} \ {t} = {} BY <1>2
  <1>5. Copies!SumFunction(f) = Iter(f, {t})[{t}] BY SumIsIter DEF Copies!SumFunction
  <1>6. Copies!SumFunction(f) = f[t] + 0 BY <1>2, <1>3, <1>4, <1>5
  <1> QED BY <1>6

(* The same, of all subsets.                                                 *)
LEMMA SumSteps ==
    ASSUME NEW f, NEW S, IsFiniteSet(S)
    PROVE  \A s \in SUBSET S : s # {} => Pick(s) \in s /\ Iter(f, S)[s] = f[Pick(s)] + Iter(f, S)[s \ {Pick(s)}]
  BY SumStep

IsShare(f, S, q, r, m) == \A t \in S : f[t] = q + (IF t = m THEN r ELSE 0)

(* The sum of equal shares, of which one also takes a rest.                  *)
LEMMA SumOfShares ==
    ASSUME NEW S, IsFiniteSet(S), NEW f \in [S -> Nat], NEW q \in Nat, NEW r \in Nat, NEW m \in S,
           IsShare(f, S, q, r, m)
    PROVE  Copies!SumFunction(f) = Cardinality(S) * q + r
  <1> DEFINE it == Iter(f, S)
             Good == {T \in SUBSET S : it[T] = Cardinality(T) * q + (IF m \in T THEN r ELSE 0)}
  <1>1. it[{}] = 0 BY SumOfNone
  <1>2. \A s \in SUBSET S : s # {} => Pick(s) \in s /\ it[s] = f[Pick(s)] + it[s \ {Pick(s)}]
    BY SumSteps
  <1>3. Copies!SumFunction(f) = it[S] BY SumIsIter DEF Copies!SumFunction
  <1> HIDE DEF it
  <1>4. ASSUME NEW T \in SUBSET S, \A U \in SUBSET T : U # T => U \in Good PROVE T \in Good
    <2>1. CASE T = {} BY <1>1, <2>1, FS_EmptySet
    <2>2. CASE T # {}
      <3> DEFINE p == Pick(T)
      <3>1. p \in T /\ it[T] = f[p] + it[T \ {p}] BY <1>2, <2>2
      <3>2. it[T \ {p}] = Cardinality(T \ {p}) * q + (IF m \in T \ {p} THEN r ELSE 0) BY <1>4, <3>1
      <3>3. Cardinality(T \ {p}) = Cardinality(T) - 1 /\ Cardinality(T) \in Nat
        BY <3>1, FS_RemoveElement, FS_Subset, FS_CardinalityType
      <3>4. f[p] = q + (IF p = m THEN r ELSE 0) BY <3>1 DEF IsShare
      <3> HIDE DEF p
      <3>5. (Cardinality(T) - 1) * q = Cardinality(T) * q - q BY <3>3
      <3>6. Cardinality(T) * q \in Int BY <3>3
      <3>7. it[T] = Cardinality(T) * q + (IF m \in T THEN r ELSE 0)
        BY <3>1, <3>2, <3>3, <3>4, <3>5, <3>6
      <3> QED BY <3>7
    <2> QED BY <2>1, <2>2
  <1>5. S \in Good
    <2> HIDE DEF Good
    <2> QED BY <1>4, SubsetInduction
  <1> QED BY <1>3, <1>5

(* A finite set of numbers has a smallest one.                               *)
LEMMA HasMin ==
    ASSUME NEW S \in SUBSET Int, IsFiniteSet(S), S # {}
    PROVE  \E x \in S : \A y \in S : x <= y
  <1> DEFINE Good == {T \in SUBSET S : T # {} => \E x \in T : \A y \in T : x <= y}
  <1>1. ASSUME NEW T \in SUBSET S, \A U \in SUBSET T : U # T => U \in Good PROVE T \in Good
    <2> SUFFICES ASSUME T # {} PROVE \E x \in T : \A y \in T : x <= y
      OBVIOUS
    <2>1. PICK z \in T : TRUE OBVIOUS
    <2>2. T \ {z} \in Good BY <1>1, <2>1
    <2> QED BY <2>1, <2>2
  <1>2. S \in Good
    <2> HIDE DEF Good
    <2> QED BY <1>1, SubsetInduction
  <1> QED BY <1>2

(* The operators of an instance are those of its modules.                    *)
LEMMA SameCardinality == \A S : Copies!Cardinality(S) = Cardinality(S)
  BY DEF Copies!Cardinality, Cardinality

(* Finite sets, too.                                                         *)
LEMMA SameFinite == \A S : Copies!IsFiniteSet(S) <=> IsFiniteSet(S)
  BY DEF Copies!IsFiniteSet, IsFiniteSet

(* Of two targets no three differ.                                           *)
LEMMA TwoTargets ==
    ASSUME NEW S, IsFiniteSet(S), Cardinality(S) < 3, NEW a \in S, NEW b \in S, NEW c \in S
    PROVE  a = b \/ b = c \/ a = c
  <1> SUFFICES ASSUME a # b, b # c, a # c PROVE FALSE
    OBVIOUS
  <1>1. IsFiniteSet(S \ {a}) /\ Cardinality(S \ {a}) = Cardinality(S) - 1
    BY FS_RemoveElement
  <1>2. IsFiniteSet((S \ {a}) \ {b}) /\ Cardinality((S \ {a}) \ {b}) = Cardinality(S \ {a}) - 1
    <2>1. b \in S \ {a} OBVIOUS
    <2> QED BY <1>1, <2>1, FS_RemoveElement
  <1>3. IsFiniteSet(((S \ {a}) \ {b}) \ {c}) /\ Cardinality(((S \ {a}) \ {b}) \ {c}) = Cardinality((S \ {a}) \ {b}) - 1
    <2>1. c \in (S \ {a}) \ {b} OBVIOUS
    <2> QED BY <1>2, <2>1, FS_RemoveElement
  <1>4. Cardinality(((S \ {a}) \ {b}) \ {c}) \in Nat /\ Cardinality(S) \in Nat
    BY <1>3, FS_CardinalityType
  <1> QED BY <1>1, <1>2, <1>3, <1>4

(* A set with two elements has more than one.                                *)
LEMMA MoreThanOne ==
    ASSUME NEW S, IsFiniteSet(S), NEW a \in S, NEW b \in S, a # b
    PROVE  Cardinality(S) > 1
  <1>1. IsFiniteSet(S \ {a}) /\ Cardinality(S \ {a}) = Cardinality(S) - 1
    BY FS_RemoveElement
  <1>2. Cardinality(S \ {a}) # 0
    BY <1>1, FS_EmptySet
  <1>3. Cardinality(S \ {a}) \in Nat /\ Cardinality(S) \in Nat
    BY <1>1, FS_CardinalityType
  <1> QED BY <1>1, <1>2, <1>3

(* A set with one element.                                                   *)
LEMMA JustOne ==
    ASSUME NEW S, IsFiniteSet(S), Cardinality(S) = 1, NEW a \in S
    PROVE  S = {a}
  <1> SUFFICES ASSUME NEW b \in S, b # a PROVE FALSE
    OBVIOUS
  <1>1. Cardinality(S) > 1 BY MoreThanOne
  <1> QED BY <1>1

(* Sets of targets are finite.                                               *)
LEMMA CopySubset ==
    ASSUME NEW S \in SUBSET CopyTargets
    PROVE  IsFiniteSet(S) /\ Cardinality(S) \in Nat
  <1>1. IsFiniteSet(CopyTargets) BY CopyConstants, SameFinite DEF Copies!Constants
  <1>2. IsFiniteSet(S) BY <1>1, FS_Subset
  <1> QED BY <1>2, FS_CardinalityType

(* Taking the status back from the object.                                   *)
LEMMA UnpromotedIs ==
    ASSUME NEW o \in Copies!Object
    PROVE  LET p == Copies!Unpromoted(o) IN
           /\ p \in Copies!Object
           /\ p.replicas = o.replicas /\ p.label = o.label /\ p.del = o.del /\ p.fin = o.fin
           /\ p.status = o.status /\ p.diff = o.diff
           /\ \A t \in CopyTargets :
                /\ p.view[t].found = o.view[t].found
                /\ \/ p.view[t].status = o.view[t].status
                   \/ t \in o.fin /\ o.view[t].status = Promoted /\ p.view[t].status = o.status
           /\ \A t \in o.fin : Cardinality(o.label) > 1 /\ Cardinality(o.fin) = 1 =>
                p.view[t].status # Promoted
  <1> DEFINE p == Copies!Unpromoted(o)
             w == [t \in CopyTargets |->
                     IF t \in o.fin /\ o.view[t].status = Promoted
                     THEN [o.view[t] EXCEPT !.status = o.status] ELSE o.view[t]]
  <1>1. CASE ~(Cardinality(o.label) > 1 /\ Cardinality(o.fin) = 1)
    <2>1. p = o BY <1>1, SameCardinality DEF Copies!Unpromoted, Copies!Intents
    <2> QED BY <1>1, <2>1
  <1>2. CASE Cardinality(o.label) > 1 /\ Cardinality(o.fin) = 1
    <2>1. p = [o EXCEPT !.view = w] BY <1>2, SameCardinality DEF Copies!Unpromoted, Copies!Intents
    <2>2. w \in [CopyTargets -> [found : BOOLEAN, status : Nat \cup {None, Promoted}]]
      BY DEF Copies!Object
    <2>3. \A t \in CopyTargets :
            /\ w[t].found = o.view[t].found
            /\ \/ w[t].status = o.view[t].status
               \/ t \in o.fin /\ o.view[t].status = Promoted /\ w[t].status = o.status
      BY DEF Copies!Object
    <2>4. \A t \in o.fin : w[t].status # Promoted
      BY CopyConstants DEF Copies!Constants, Copies!Object
    <2> HIDE DEF w, p
    <2>5. p \in Copies!Object BY <2>1, <2>2 DEF Copies!Object
    <2>6. /\ p.replicas = o.replicas /\ p.label = o.label /\ p.del = o.del /\ p.fin = o.fin
          /\ p.status = o.status /\ p.diff = o.diff /\ p.view = w
      BY <2>1 DEF Copies!Object
    <2> QED BY <2>3, <2>4, <2>5, <2>6 DEF p
  <1> QED BY <1>1, <1>2

-----------------------------------------------------------------------------
(* The sum of the statuses *)

(* A count of a status is a number.                                          *)
LEMMA CountIsNatural ==
    ASSUME NEW v \in Nat \cup {None}
    PROVE  Copies!Count(v) \in Nat
  BY DEF Copies!Count

(* So is the sum of the statuses, processSyncerView.                         *)
LEMMA SummarizedIsNatural ==
    ASSUME NEW o \in Copies!Object
    PROVE  Copies!Summarized(o) \in Nat
  <1> DEFINE S == Copies!Found(o)
             f == [t \in S |-> Copies!Count(Copies!AfterRead(o, t).status)]
  <1>1. S \in SUBSET CopyTargets BY DEF Copies!Found
  <1>2. IsFiniteSet(S) BY <1>1, CopySubset
  <1>3. ASSUME NEW t \in S PROVE Copies!Count(Copies!AfterRead(o, t).status) \in Nat
    <2>1. Copies!AfterRead(o, t).status \in Nat \cup {None}
      BY <1>1 DEF Copies!AfterRead, Copies!StatusInView, Copies!Object
    <2> QED BY <2>1, CountIsNatural
  <1>4. f \in [S -> Nat] BY <1>3
  <1> HIDE DEF S, f
  <1>5. Copies!SumFunction(f) \in Nat BY <1>2, <1>4, SumIsNatural
  <1> QED BY <1>5 DEF Copies!Summarized, f, S

(* The sum depends on the views and on the status of the object only,        *)
LEMMA SummarizedReads ==
    ASSUME NEW o, NEW p, o.view = p.view, o.status = p.status
    PROVE  Copies!Summarized(o) = Copies!Summarized(p) /\ (Copies!Alone(o) <=> Copies!Alone(p))
  <1>1. Copies!Found(o) = Copies!Found(p) BY DEF Copies!Found
  <1>2. \A t \in Copies!Found(o) : Copies!AfterRead(o, t).status = Copies!AfterRead(p, t).status
    BY DEF Copies!AfterRead, Copies!StatusInView
  <1> QED BY <1>1, <1>2 DEF Copies!Summarized, Copies!Alone

(* and on the views only if no status is in the object.                      *)
LEMMA SummarizedUnpromoted ==
    ASSUME NEW o, NEW p, o.view = p.view, \A t \in CopyTargets : o.view[t].status # Promoted
    PROVE  Copies!Summarized(o) = Copies!Summarized(p)
  <1>1. Copies!Found(o) = Copies!Found(p) BY DEF Copies!Found
  <1>2. \A t \in Copies!Found(o) : Copies!AfterRead(o, t).status = Copies!AfterRead(p, t).status
    BY DEF Copies!AfterRead, Copies!StatusInView, Copies!Found
  <1> QED BY <1>1, <1>2 DEF Copies!Summarized

(* It is the status of the object where the only view has its status there.  *)
LEMMA SummarizedAlone ==
    ASSUME NEW o \in Copies!Object, NEW t \in CopyTargets, Copies!Found(o) = {t},
           o.view[t].status = Promoted
    PROVE  Copies!Summarized(o) = Copies!Count(o.status)
  <1> DEFINE f == [u \in {t} |-> Copies!Count(Copies!AfterRead(o, u).status)]
  <1>1. f[t] = Copies!Count(o.status) /\ DOMAIN f = {t}
    BY DEF Copies!AfterRead, Copies!StatusInView
  <1>2. Copies!Count(o.status) \in Nat BY CountIsNatural DEF Copies!Object
  <1> HIDE DEF f
  <1>3. Copies!SumFunction(f) = f[t] BY <1>1, <1>2, SumOfOne
  <1> QED BY <1>1, <1>3 DEF Copies!Summarized, f

-----------------------------------------------------------------------------
(* A write of the object leaves the queues and what the controller knows     *)

(* A write of the object leaves the queues and what the controller knows.    *)
(* It changes a view, and the controller is told, or keeps the sum right.    *)
LEMMA WriteKeeps ==
    ASSUME Copies!CopyIInv, NEW o \in Copies!Object, Copies!Write(o), o.diff = obj.diff,
           o.view = obj.view =>
             \/ o.status = obj.status
             \/ \E t \in CopyTargets : o.view[t] = [found |-> TRUE, status |-> Promoted]
    PROVE  /\ obj' = o /\ kind' = kind
           /\ obj' \in Copies!Object /\ objSeen' \in Copies!Object
           /\ changed' \in BOOLEAN /\ toSplit' \in BOOLEAN /\ toSum' \in BOOLEAN
           /\ Copies!OnlyDeployments' /\ Copies!SplitIsWritten' /\ Copies!SumIsWritten'
  <1>1. obj' = o /\ kind' = kind /\ objSeen' = objSeen /\ toSplit' = toSplit /\ toSum' = toSum
    BY DEF Copies!Write
  <1>2. obj \in Copies!Object /\ objSeen \in Copies!Object
        /\ changed \in BOOLEAN /\ toSplit \in BOOLEAN /\ toSum \in BOOLEAN
    BY DEF Copies!CopyIInv, Copies!TypeOK
  <1>3. changed' = (changed \/ obj.view # o.view)
    BY DEF Copies!Write, Copies!AnySyncerViewChanged
  <1>4. changed' \in BOOLEAN BY <1>3
  <1>5. Copies!OnlyDeployments' BY <1>1 DEF Copies!OnlyDeployments, Copies!CopyIInv
  <1>6. Copies!SplitIsWritten'
    BY <1>1 DEF Copies!SplitIsWritten, Copies!CopyIInv, Copies!Split, Copies!SyncerViews
  <1>7. Copies!SumIsWritten'
    <2> SUFFICES ASSUME kind = "deployment", ~toSum, ~changed', Copies!Alone(o)
                 PROVE  Copies!Count(o.status) = Copies!Summarized(o)
      BY <1>1 DEF Copies!SumIsWritten
    <2>1. ~changed /\ obj.view = o.view BY <1>3
    <2>2. CASE o.status = obj.status
      <3>1. Copies!Summarized(o) = Copies!Summarized(obj) /\ Copies!Alone(obj)
        BY <2>1, <2>2, SummarizedReads
      <3>2. Copies!Count(obj.status) = Copies!Summarized(obj)
        BY <2>1, <3>1 DEF Copies!CopyIInv, Copies!SumIsWritten
      <3> QED BY <2>2, <3>1, <3>2
    <2>3. ASSUME NEW t \in CopyTargets, o.view[t] = [found |-> TRUE, status |-> Promoted]
          PROVE  Copies!Count(o.status) = Copies!Summarized(o)
      <3>1. o.view[t].status = Promoted /\ o.view[t].found BY <2>3
      <3>2. Copies!Found(o) = {t} BY <3>1 DEF Copies!Alone, Copies!Found
      <3> QED BY <3>1, <3>2, SummarizedAlone
    <2> QED BY <2>1, <2>2, <2>3
  <1> QED BY <1>1, <1>2, <1>4, <1>5, <1>6, <1>7

(* A syncer takes the object over.                                           *)
LEMMA TakeOverKeeps ==
    ASSUME Copies!CopyIInv, NEW x \in CopyTargets, Copies!TakeOver(x)
    PROVE  Copies!CopyIInv'
  <1> DEFINE p == Copies!Unpromoted(obj)
             o == Copies!BeforeWrite(obj, x)
  <1>1. obj \in Copies!Object BY DEF Copies!CopyIInv, Copies!TypeOK
  <1>2. /\ p \in Copies!Object
        /\ p.label = obj.label /\ p.del = obj.del /\ p.fin = obj.fin
        /\ p.status = obj.status /\ p.diff = obj.diff
        /\ \A t \in CopyTargets :
             /\ p.view[t].found = obj.view[t].found
             /\ \/ p.view[t].status = obj.view[t].status
                \/ t \in obj.fin /\ obj.view[t].status = Promoted /\ p.view[t].status = obj.status
        /\ \A t \in obj.fin : Cardinality(obj.label) > 1 /\ Cardinality(obj.fin) = 1 =>
             p.view[t].status # Promoted
    BY <1>1, UnpromotedIs
  <1>3. o = [p EXCEPT !.view[x] = [found |-> TRUE, status |-> @.status], !.fin = @ \cup {x}] BY DEF Copies!BeforeWrite
  <1>4. /\ x \in obj.label /\ x \notin obj.fin /\ x \notin obj.del /\ Copies!Write(o)
        /\ wrote' = wrote /\ rescued' = rescued /\ copyEvents' = copyEvents
    BY DEF Copies!TakeOver
  <1>5. /\ obj.fin \subseteq obj.label /\ obj.del \subseteq obj.label /\ Copies!Found(obj) = obj.fin
        /\ \A t \in CopyTargets \ obj.fin : obj.view[t].status = None /\ wrote[t] = None
    BY DEF Copies!CopyIInv, Copies!OwnersHaveViews
  <1> HIDE DEF p, o
  <1>6. /\ o.label = obj.label /\ o.del = obj.del /\ o.fin = obj.fin \cup {x}
        /\ o.status = obj.status /\ o.diff = obj.diff /\ o \in Copies!Object
    <2> DEFINE w == [p.view EXCEPT ![x] = [found |-> TRUE, status |-> p.view[x].status]]
    <2>1. w \in [CopyTargets -> [found : BOOLEAN, status : Nat \cup {None, Promoted}]]
      BY <1>2 DEF Copies!Object
    <2>3. o.view = w BY <1>2, <1>3 DEF Copies!Object
    <2>4. /\ o.label = obj.label /\ o.del = obj.del /\ o.fin = obj.fin \cup {x}
          /\ o.status = obj.status /\ o.diff = obj.diff /\ o.replicas = p.replicas
      BY <1>2, <1>3 DEF Copies!Object
    <2>5. o = [replicas |-> o.replicas, label |-> o.label, del |-> o.del, fin |-> o.fin,
               status |-> o.status, view |-> o.view, diff |-> o.diff]
      BY <1>2, <1>3 DEF Copies!Object
    <2> HIDE DEF w
    <2>6. o \in Copies!Object BY <1>1, <1>2, <2>1, <2>3, <2>4, <2>5 DEF Copies!Object
    <2> QED BY <2>4, <2>6
  <1>7. /\ o.view[x].found /\ o.view[x].status = None
        /\ \A t \in CopyTargets : t # x => o.view[t] = p.view[t]
    BY <1>2, <1>3, <1>4, <1>5 DEF Copies!Object
  <1>8. /\ obj' = o /\ kind' = kind
        /\ obj' \in Copies!Object /\ objSeen' \in Copies!Object
        /\ changed' \in BOOLEAN /\ toSplit' \in BOOLEAN /\ toSum' \in BOOLEAN
        /\ Copies!OnlyDeployments' /\ Copies!SplitIsWritten' /\ Copies!SumIsWritten'
    BY <1>4, <1>6, WriteKeeps
  <1>9. Copies!TypeOK'
    BY <1>4, <1>8 DEF Copies!TypeOK, Copies!CopyIInv
  <1>10. Copies!OwnersHaveViews'
    <2>1. Copies!Found(o) = o.fin
      BY <1>2, <1>5, <1>6, <1>7 DEF Copies!Found
    <2>2. \A t \in CopyTargets \ o.fin : o.view[t].status = None /\ wrote[t] = None
      BY <1>2, <1>5, <1>6, <1>7
    <2>3. Copies!Found(obj)' = Copies!Found(o) BY <1>8 DEF Copies!Found
    <2> QED BY <1>4, <1>5, <1>6, <1>8, <2>1, <2>2, <2>3 DEF Copies!OwnersHaveViews
  <1>11. Copies!OwnStatus'
    <2> SUFFICES ASSUME kind # "deployment", NEW t \in o.fin \ o.del
                 PROVE  Copies!AfterRead(o, t).status = wrote[t]
      BY <1>4, <1>8 DEF Copies!OwnStatus, Copies!AfterRead, Copies!StatusInView
    <2>1. CASE t = x
      BY <1>4, <1>5, <1>7, <2>1, CopyConstants DEF Copies!AfterRead, Copies!StatusInView, Copies!Constants
    <2>2. CASE t # x
      <3>1. t \in obj.fin \ obj.del /\ t \in CopyTargets BY <1>1, <1>6, <2>2 DEF Copies!Object
      <3>2. Copies!AfterRead(obj, t).status = wrote[t]
        BY <3>1 DEF Copies!CopyIInv, Copies!OwnStatus
      <3>3. o.view[t] = p.view[t] BY <1>7, <2>2, <3>1
      <3>4. obj.status # Promoted BY <1>1, CopyConstants DEF Copies!Object, Copies!Constants
      <3> QED BY <1>2, <1>6, <3>1, <3>2, <3>3, <3>4 DEF Copies!AfterRead, Copies!StatusInView
    <2> QED BY <2>1, <2>2
  <1>12. Copies!PromotedIsAlone'
    <2> SUFFICES ASSUME Cardinality(CopyTargets) < 3, NEW t \in CopyTargets, NEW u \in CopyTargets,
                        o.view[t].status = Promoted, o.view[u].found, t # u
                 PROVE  FALSE
      BY <1>8, SameCardinality DEF Copies!PromotedIsAlone
    <2>1. t # x BY <1>7, CopyConstants DEF Copies!Constants
    <2>2. p.view[t].status = Promoted BY <1>7, <2>1
    <2>3. obj.view[t].status = Promoted
      BY <1>1, <1>2, <2>2, CopyConstants DEF Copies!Object, Copies!Constants
    <2>4. t \in obj.fin BY <1>5, <2>3, CopyConstants DEF Copies!Constants
    <2>5. \A y \in CopyTargets : y = t \/ y = x
      BY <2>1, TwoTargets, CopyConstants, SameFinite DEF Copies!Constants
    <2>6. obj.fin = {t} BY <1>1, <1>4, <2>4, <2>5 DEF Copies!Object
    <2>7. Cardinality(obj.fin) = 1 BY <2>6, FS_Singleton
    <2>8. Cardinality(obj.label) > 1
      <3>1. IsFiniteSet(obj.label) BY <1>1, CopySubset DEF Copies!Object
      <3> QED BY <1>4, <1>5, <2>1, <2>4, <3>1, MoreThanOne
    <2> QED BY <1>2, <2>2, <2>4, <2>7, <2>8
  <1> QED BY <1>8, <1>9, <1>10, <1>11, <1>12 DEF Copies!CopyIInv

(* A syncer writes a status.                                                 *)
LEMMA WriteStatusKeeps ==
    ASSUME Copies!CopyIInv, NEW x \in CopyTargets, Copies!WriteStatus(x)
    PROVE  Copies!CopyIInv'
  <1> DEFINE p == Copies!Unpromoted(obj)
  <1>0. PICK v \in Counts : Copies!Write(Copies!BeforeWriteStatus(obj, x, v)) /\ wrote' = [wrote EXCEPT ![x] = v]
    BY DEF Copies!WriteStatus
  <1> DEFINE o == Copies!BeforeWriteStatus(obj, x, v)
             one == Cardinality(obj.label) = 1
  <1>1. obj \in Copies!Object /\ v \in Nat /\ wrote \in [CopyTargets -> Nat \cup {None}] /\ copyEvents \in Nat
    BY CopyConstants DEF Copies!CopyIInv, Copies!TypeOK, Copies!Constants
  <1>2. /\ p \in Copies!Object
        /\ p.label = obj.label /\ p.del = obj.del /\ p.fin = obj.fin
        /\ p.status = obj.status /\ p.diff = obj.diff
        /\ \A t \in CopyTargets :
             /\ p.view[t].found = obj.view[t].found
             /\ \/ p.view[t].status = obj.view[t].status
                \/ t \in obj.fin /\ obj.view[t].status = Promoted /\ p.view[t].status = obj.status
    BY <1>1, UnpromotedIs
  <1>3. o = IF one THEN [p EXCEPT !.status = v, !.view[x] = [found |-> TRUE, status |-> Promoted]]
            ELSE [p EXCEPT !.view[x] = [found |-> TRUE, status |-> v]]
    BY SameCardinality DEF Copies!BeforeWriteStatus, Copies!Intents
  <1>4. x \in obj.fin /\ Copies!Write(o) /\ wrote' = [wrote EXCEPT ![x] = v] /\ copyEvents' = copyEvents + 1
        /\ rescued' = rescued
    BY <1>0 DEF Copies!WriteStatus
  <1>5. /\ obj.fin \subseteq obj.label /\ obj.del \subseteq obj.label /\ Copies!Found(obj) = obj.fin
        /\ \A t \in CopyTargets \ obj.fin : obj.view[t].status = None /\ wrote[t] = None
    BY DEF Copies!CopyIInv, Copies!OwnersHaveViews
  <1>6. one => obj.label = {x}
    <2>1. IsFiniteSet(obj.label) BY <1>1, CopySubset DEF Copies!Object
    <2> QED BY <1>4, <1>5, <2>1, JustOne
  <1> HIDE DEF p, o, one
  <1>7. /\ o.label = obj.label /\ o.del = obj.del /\ o.fin = obj.fin /\ o.diff = obj.diff
        /\ o.view[x] = [found |-> TRUE, status |-> IF one THEN Promoted ELSE v]
        /\ o.status = IF one THEN v ELSE obj.status
        /\ \A t \in CopyTargets : t # x => o.view[t] = p.view[t]
        /\ o \in Copies!Object
    <2>1. CASE one
      <3>1. o = [p EXCEPT !.status = v, !.view[x] = [found |-> TRUE, status |-> Promoted]] BY <1>3, <2>1
      <3> QED BY <1>1, <1>2, <2>1, <3>1 DEF Copies!Object
    <2>2. CASE ~one
      <3>1. o = [p EXCEPT !.view[x] = [found |-> TRUE, status |-> v]] BY <1>3, <2>2
      <3> QED BY <1>1, <1>2, <2>2, <3>1 DEF Copies!Object
    <2> QED BY <2>1, <2>2
  <1>8. /\ obj' = o /\ kind' = kind
        /\ obj' \in Copies!Object /\ objSeen' \in Copies!Object
        /\ changed' \in BOOLEAN /\ toSplit' \in BOOLEAN /\ toSum' \in BOOLEAN
        /\ Copies!OnlyDeployments' /\ Copies!SplitIsWritten' /\ Copies!SumIsWritten'
    <2>1. o.status = obj.status \/ o.view[x] = [found |-> TRUE, status |-> Promoted] BY <1>7
    <2> QED BY <1>4, <1>7, <2>1, WriteKeeps
  <1>9. Copies!TypeOK'
    BY <1>1, <1>4, <1>8 DEF Copies!TypeOK, Copies!CopyIInv
  <1>10. Copies!OwnersHaveViews'
    <2>1. Copies!Found(o) = o.fin
      <3>1. \A t \in CopyTargets : o.view[t].found <=> obj.view[t].found
        BY <1>2, <1>4, <1>5, <1>7 DEF Copies!Found
      <3> QED BY <1>5, <1>7, <3>1 DEF Copies!Found
    <2>2. \A t \in CopyTargets \ o.fin : o.view[t].status = None /\ wrote'[t] = None
      BY <1>1, <1>2, <1>4, <1>5, <1>7
    <2>3. Copies!Found(obj)' = Copies!Found(o) BY <1>8 DEF Copies!Found
    <2> QED BY <1>4, <1>5, <1>7, <1>8, <2>1, <2>2, <2>3 DEF Copies!OwnersHaveViews
  <1>11. Copies!OwnStatus'
    <2> SUFFICES ASSUME kind # "deployment", NEW t \in o.fin \ o.del
                 PROVE  Copies!AfterRead(o, t).status = wrote'[t]
      BY <1>8 DEF Copies!OwnStatus, Copies!AfterRead, Copies!StatusInView
    <2>0. t \in obj.fin \ obj.del /\ t \in CopyTargets BY <1>1, <1>7 DEF Copies!Object
    <2>1. CASE t = x
      <3>1. v # Promoted BY <1>1, CopyConstants DEF Copies!Constants
      <3>2. wrote'[x] = v BY <1>1, <1>4
      <3> QED BY <1>7, <2>1, <3>1, <3>2 DEF Copies!AfterRead, Copies!StatusInView
    <2>2. CASE t # x
      <3>1. ~one BY <1>5, <1>6, <2>0, <2>2
      <3>2. Copies!AfterRead(obj, t).status = wrote[t]
        BY <2>0 DEF Copies!CopyIInv, Copies!OwnStatus
      <3>3. o.view[t] = p.view[t] /\ o.status = obj.status BY <1>7, <2>0, <2>2, <3>1
      <3>4. obj.status # Promoted BY <1>1, CopyConstants DEF Copies!Object, Copies!Constants
      <3>5. wrote'[t] = wrote[t] BY <1>1, <1>4, <2>0, <2>2
      <3> QED BY <1>2, <2>0, <3>2, <3>3, <3>4, <3>5 DEF Copies!AfterRead, Copies!StatusInView
    <2> QED BY <2>1, <2>2
  <1>12. Copies!PromotedIsAlone'
    <2> SUFFICES ASSUME Cardinality(CopyTargets) < 3, rescued = {}, NEW t \in CopyTargets, NEW u \in CopyTargets,
                        o.view[t].status = Promoted, o.view[u].found, t # u
                 PROVE  t \in o.del \/ u \in o.del
      BY <1>4, <1>8, SameCardinality DEF Copies!PromotedIsAlone
    <2>1. obj.view[t].status = Promoted \/ t = x
      BY <1>1, <1>2, <1>7, CopyConstants DEF Copies!Object, Copies!Constants
    <2>2. t \in obj.fin /\ u \in obj.fin
      BY <1>2, <1>4, <1>5, <1>7, <2>1, CopyConstants DEF Copies!Constants, Copies!Found
    <2>3. ~one BY <1>5, <1>6, <2>2
    <2>4. t # x BY <1>1, <1>7, <2>3, CopyConstants DEF Copies!Constants
    <2>5. obj.view[u].found BY <1>5, <2>2 DEF Copies!Found
    <2>6. t \in obj.del \/ u \in obj.del
      BY <2>1, <2>4, <2>5, SameCardinality DEF Copies!CopyIInv, Copies!PromotedIsAlone
    <2> QED BY <1>7, <2>6
  <1> QED BY <1>8, <1>9, <1>10, <1>11, <1>12 DEF Copies!CopyIInv

(* The status of the target that remains is promoted.                        *)
LEMMA PromoteKeeps ==
    ASSUME Copies!CopyIInv, NEW x \in CopyTargets, Copies!PromoteBeforeRemoval(x)
    PROVE  Copies!CopyIInv'
  <1>1. /\ obj \in Copies!Object /\ wrote \in [CopyTargets -> Nat \cup {None}] /\ copyEvents \in Nat
        /\ obj.label \in SUBSET CopyTargets
    BY DEF Copies!CopyIInv, Copies!TypeOK, Copies!Object
  <1>2. PICK u \in Copies!Remaining(obj, x) : Copies!Write(Copies!PromoteRemaining(obj, u))
    BY DEF Copies!PromoteBeforeRemoval
  <1> DEFINE o == Copies!PromoteRemaining(obj, u)
  <1>3. /\ x \in obj.del /\ Copies!Write(o) /\ wrote' = wrote /\ rescued' = rescued /\ copyEvents' = copyEvents
        /\ u \in CopyTargets /\ u # x /\ obj.label \ {x} = {u} /\ u \in obj.fin
        /\ obj.view[u].found /\ obj.view[u].status # Promoted
    BY <1>1, <1>2 DEF Copies!PromoteBeforeRemoval, Copies!Remaining, Copies!Intents
  <1>4. o = [obj EXCEPT !.status = obj.view[u].status, !.view[u].status = Promoted]
    BY DEF Copies!PromoteRemaining
  <1>5. /\ obj.fin \subseteq obj.label /\ obj.del \subseteq obj.label /\ Copies!Found(obj) = obj.fin
        /\ \A t \in CopyTargets \ obj.fin : obj.view[t].status = None /\ wrote[t] = None
    BY DEF Copies!CopyIInv, Copies!OwnersHaveViews
  <1> HIDE DEF o
  <1>6. /\ o.label = obj.label /\ o.del = obj.del /\ o.fin = obj.fin /\ o.diff = obj.diff
        /\ o.status = obj.view[u].status
        /\ o.view[u].status = Promoted /\ o.view[u].found = obj.view[u].found
        /\ \A t \in CopyTargets : t # u => o.view[t] = obj.view[t]
        /\ o \in Copies!Object
    <2>1. obj.view \in [CopyTargets -> [found : BOOLEAN, status : Nat \cup {None, Promoted}]]
      BY <1>1 DEF Copies!Object
    <2>2. obj.view[u].status \in Nat \cup {None} BY <1>3, <2>1
    <2> DEFINE w == [obj.view EXCEPT ![u].status = Promoted]
    <2>3. w \in [CopyTargets -> [found : BOOLEAN, status : Nat \cup {None, Promoted}]] BY <2>1
    <2>4. /\ w[u].status = Promoted /\ w[u].found = obj.view[u].found
          /\ \A t \in CopyTargets : t # u => w[t] = obj.view[t]
      BY <1>3, <2>1
    <2>5. /\ o.label = obj.label /\ o.del = obj.del /\ o.fin = obj.fin /\ o.diff = obj.diff
          /\ o.status = obj.view[u].status /\ o.replicas = obj.replicas /\ o.view = w
      BY <1>1, <1>4 DEF Copies!Object
    <2>6. o = [replicas |-> o.replicas, label |-> o.label, del |-> o.del, fin |-> o.fin,
               status |-> o.status, view |-> o.view, diff |-> o.diff]
      BY <1>1, <1>4 DEF Copies!Object
    <2> HIDE DEF w
    <2>7. o \in Copies!Object BY <1>1, <2>2, <2>3, <2>5, <2>6 DEF Copies!Object
    <2> QED BY <2>4, <2>5, <2>7
  <1>7. /\ obj' = o /\ kind' = kind
        /\ obj' \in Copies!Object /\ objSeen' \in Copies!Object
        /\ changed' \in BOOLEAN /\ toSplit' \in BOOLEAN /\ toSum' \in BOOLEAN
        /\ Copies!OnlyDeployments' /\ Copies!SplitIsWritten' /\ Copies!SumIsWritten'
    <2>1. o.view # obj.view BY <1>3, <1>6
    <2> QED BY <1>3, <1>6, <2>1, WriteKeeps
  <1>8. Copies!TypeOK' BY <1>1, <1>3, <1>7 DEF Copies!TypeOK, Copies!CopyIInv
  <1>9. Copies!OwnersHaveViews'
    <2>1. Copies!Found(o) = o.fin
      <3>1. \A t \in CopyTargets : o.view[t].found = obj.view[t].found BY <1>6
      <3> QED BY <1>5, <1>6, <3>1 DEF Copies!Found
    <2>2. \A t \in CopyTargets \ o.fin : o.view[t].status = None /\ wrote[t] = None
      BY <1>3, <1>5, <1>6
    <2>3. Copies!Found(obj)' = Copies!Found(o) BY <1>7 DEF Copies!Found
    <2> QED BY <1>3, <1>5, <1>6, <1>7, <2>1, <2>2, <2>3 DEF Copies!OwnersHaveViews
  <1>10. Copies!OwnStatus'
    <2> SUFFICES ASSUME kind # "deployment", NEW t \in o.fin \ o.del
                 PROVE  Copies!AfterRead(o, t).status = wrote[t]
      BY <1>3, <1>7 DEF Copies!OwnStatus, Copies!AfterRead, Copies!StatusInView
    <2>1. t = u BY <1>3, <1>5, <1>6
    <2>2. Copies!AfterRead(obj, u).status = wrote[u]
      BY <1>6, <2>1 DEF Copies!CopyIInv, Copies!OwnStatus
    <2> QED BY <1>3, <1>6, <2>1, <2>2 DEF Copies!AfterRead, Copies!StatusInView
  <1>11. Copies!PromotedIsAlone'
    <2> SUFFICES ASSUME Cardinality(CopyTargets) < 3, NEW s \in CopyTargets, NEW t \in CopyTargets, s # t
                 PROVE  s \in o.del \/ t \in o.del
      BY <1>7, SameCardinality DEF Copies!PromotedIsAlone
    <2>1. x \in CopyTargets /\ x \in o.del BY <1>3, <1>6
    <2>2. IsFiniteSet(CopyTargets) BY CopyConstants, SameFinite DEF Copies!Constants
    <2> QED BY <2>1, <2>2, TwoTargets
  <1> QED BY <1>7, <1>8, <1>9, <1>10, <1>11 DEF Copies!CopyIInv

(* The syncer of a target lets go of the object.                             *)
LEMMA RemoveKeeps ==
    ASSUME Copies!CopyIInv, NEW x \in CopyTargets, Copies!Remove(x)
    PROVE  Copies!CopyIInv'
  <1> DEFINE o == Copies!RemovedFromSyncer(obj, x)
  <1>1. /\ obj \in Copies!Object /\ wrote \in [CopyTargets -> Nat \cup {None}] /\ copyEvents \in Nat
    BY DEF Copies!CopyIInv, Copies!TypeOK
  <1>2. /\ x \in obj.del /\ Copies!Write(o) /\ wrote' = [wrote EXCEPT ![x] = None]
        /\ rescued' = rescued \ {x} /\ copyEvents' = copyEvents
    BY DEF Copies!Remove
  <1>3. o = [obj EXCEPT !.label = @ \ {x}, !.fin = @ \ {x}, !.del = @ \ {x}, !.view[x] = Copies!NoView]
    BY DEF Copies!RemovedFromSyncer
  <1>4. /\ obj.fin \subseteq obj.label /\ obj.del \subseteq obj.label /\ Copies!Found(obj) = obj.fin
        /\ \A t \in CopyTargets \ obj.fin : obj.view[t].status = None /\ wrote[t] = None
    BY DEF Copies!CopyIInv, Copies!OwnersHaveViews
  <1>5. Copies!NoView.found = FALSE /\ Copies!NoView.status = None
        /\ Copies!NoView \in [found : BOOLEAN, status : Nat \cup {None, Promoted}]
    BY DEF Copies!NoView
  <1> HIDE DEF o
  <1>6. /\ o.label = obj.label \ {x} /\ o.del = obj.del \ {x} /\ o.fin = obj.fin \ {x} /\ o.diff = obj.diff
        /\ o.status = obj.status /\ o.view[x] = Copies!NoView
        /\ \A t \in CopyTargets : t # x => o.view[t] = obj.view[t]
        /\ o \in Copies!Object
    BY <1>1, <1>3, <1>5 DEF Copies!Object
  <1>7. /\ obj' = o /\ kind' = kind
        /\ obj' \in Copies!Object /\ objSeen' \in Copies!Object
        /\ changed' \in BOOLEAN /\ toSplit' \in BOOLEAN /\ toSum' \in BOOLEAN
        /\ Copies!OnlyDeployments' /\ Copies!SplitIsWritten' /\ Copies!SumIsWritten'
    BY <1>2, <1>6, WriteKeeps
  <1>8. Copies!TypeOK' BY <1>1, <1>2, <1>7 DEF Copies!TypeOK, Copies!CopyIInv
  <1>9. Copies!OwnersHaveViews'
    <2>1. Copies!Found(o) = o.fin
      BY <1>4, <1>5, <1>6 DEF Copies!Found
    <2>2. \A t \in CopyTargets \ o.fin : o.view[t].status = None /\ wrote'[t] = None
      BY <1>1, <1>2, <1>4, <1>5, <1>6
    <2>3. Copies!Found(obj)' = Copies!Found(o) BY <1>7 DEF Copies!Found
    <2> QED BY <1>2, <1>4, <1>6, <1>7, <2>1, <2>2, <2>3 DEF Copies!OwnersHaveViews
  <1>10. Copies!OwnStatus'
    <2> SUFFICES ASSUME kind # "deployment", NEW t \in o.fin \ o.del
                 PROVE  Copies!AfterRead(o, t).status = wrote'[t]
      BY <1>7 DEF Copies!OwnStatus, Copies!AfterRead, Copies!StatusInView
    <2>1. t \in obj.fin \ obj.del /\ t # x /\ t \in CopyTargets BY <1>1, <1>6 DEF Copies!Object
    <2>2. Copies!AfterRead(obj, t).status = wrote[t]
      BY <2>1 DEF Copies!CopyIInv, Copies!OwnStatus
    <2>3. wrote'[t] = wrote[t] BY <1>1, <1>2, <2>1
    <2> QED BY <1>6, <2>1, <2>2, <2>3 DEF Copies!AfterRead, Copies!StatusInView
  <1>11. Copies!PromotedIsAlone'
    <2> SUFFICES ASSUME Cardinality(CopyTargets) < 3, NEW t \in CopyTargets, NEW u \in CopyTargets,
                        o.view[t].status = Promoted, o.view[u].found, t # u
                 PROVE  FALSE
      BY <1>7, SameCardinality DEF Copies!PromotedIsAlone
    <2>1. t # x /\ u # x BY <1>5, <1>6, CopyConstants DEF Copies!Constants
    <2>2. IsFiniteSet(CopyTargets) BY CopyConstants, SameFinite DEF Copies!Constants
    <2> QED BY <2>1, <2>2, TwoTargets
  <1> QED BY <1>7, <1>8, <1>9, <1>10, <1>11 DEF Copies!CopyIInv

(* Targets join, leave or stay after all, and a user scales: the views and   *)
(* the status stay.  Who was to leave and stays is in rescued if it owns the *)
(* object, and wrote is what its view shows.                                 *)
LEMMA AssignKeeps ==
    ASSUME Copies!CopyIInv, NEW o \in Copies!Object, Copies!Write(o), copyEvents' \in Nat,
           o.view = obj.view, o.status = obj.status, o.diff = obj.diff, o.fin = obj.fin,
           obj.label \subseteq o.label, o.del \subseteq o.label,
           wrote' \in [CopyTargets -> Nat \cup {None}],
           \A t \in CopyTargets : wrote'[t] = wrote[t]
                                  \/ (t \in obj.del /\ wrote'[t] = Copies!StatusInView(obj, t)),
           \A t \in obj.del : t \in o.del \/ wrote'[t] = Copies!StatusInView(obj, t),
           rescued' \subseteq CopyTargets, rescued \subseteq rescued',
           (obj.del \ o.del) \cap obj.fin \subseteq rescued'
    PROVE  Copies!CopyIInv'
  <1>1. /\ obj \in Copies!Object /\ wrote \in [CopyTargets -> Nat \cup {None}]
    BY DEF Copies!CopyIInv, Copies!TypeOK
  <1>2. /\ obj.fin \subseteq obj.label /\ Copies!Found(obj) = obj.fin
        /\ \A t \in CopyTargets \ obj.fin : obj.view[t].status = None /\ wrote[t] = None
    BY DEF Copies!CopyIInv, Copies!OwnersHaveViews
  <1>3. /\ obj' = o /\ kind' = kind
        /\ obj' \in Copies!Object /\ objSeen' \in Copies!Object
        /\ changed' \in BOOLEAN /\ toSplit' \in BOOLEAN /\ toSum' \in BOOLEAN
        /\ Copies!OnlyDeployments' /\ Copies!SplitIsWritten' /\ Copies!SumIsWritten'
    BY WriteKeeps
  <1>4. Copies!TypeOK' BY <1>1, <1>3 DEF Copies!TypeOK
  <1>5. Copies!OwnersHaveViews'
    <2>1. Copies!Found(obj)' = Copies!Found(obj) BY <1>3 DEF Copies!Found
    <2>2. \A t \in CopyTargets \ obj.fin : wrote'[t] = None
      <3> TAKE t \in CopyTargets \ obj.fin
      <3>1. Copies!StatusInView(obj, t) = None
        BY <1>2, CopyConstants DEF Copies!StatusInView, Copies!Constants
      <3> QED BY <1>2, <3>1
    <2> QED BY <1>2, <1>3, <2>1, <2>2 DEF Copies!OwnersHaveViews
  <1>6. Copies!OwnStatus'
    <2> SUFFICES ASSUME kind # "deployment", NEW t \in o.fin \ o.del
                 PROVE  Copies!StatusInView(obj, t) = wrote'[t]
      BY <1>3 DEF Copies!OwnStatus, Copies!AfterRead, Copies!StatusInView
    <2>1. t \in obj.fin /\ t \in CopyTargets BY <1>1 DEF Copies!Object
    <2>2. CASE t \in obj.del BY <2>2
    <2>3. CASE t \notin obj.del
      <3>1. Copies!AfterRead(obj, t).status = wrote[t]
        BY <2>1, <2>3 DEF Copies!CopyIInv, Copies!OwnStatus
      <3> QED BY <2>1, <2>3, <3>1 DEF Copies!AfterRead
    <2> QED BY <2>2, <2>3
  <1>7. Copies!PromotedIsAlone'
    <2> SUFFICES ASSUME Cardinality(CopyTargets) < 3, rescued' = {}, NEW t \in CopyTargets,
                        NEW u \in CopyTargets, obj.view[t].status = Promoted, obj.view[u].found, t # u
                 PROVE  t \in o.del \/ u \in o.del
      BY <1>3, SameCardinality DEF Copies!PromotedIsAlone
    <2>1. t \in obj.fin /\ u \in obj.fin
      BY <1>2, CopyConstants DEF Copies!Constants, Copies!Found
    <2>2. t \in obj.del \/ u \in obj.del
      BY SameCardinality DEF Copies!CopyIInv, Copies!PromotedIsAlone
    <2> QED BY <2>1, <2>2
  <1> QED BY <1>3, <1>4, <1>5, <1>6, <1>7 DEF Copies!CopyIInv

(* Schedule, Rescue, Unschedule and Scale.                                   *)
LEMMA CopyEnvironmentKeeps ==
    ASSUME Copies!CopyIInv,
           \/ Copies!Scale
           \/ \E t \in CopyTargets : Copies!Schedule(t) \/ Copies!Rescue(t) \/ Copies!Unschedule(t)
    PROVE  Copies!CopyIInv'
  <1>1. /\ obj \in Copies!Object /\ copyEvents \in Nat /\ obj.del \subseteq obj.label
        /\ wrote \in [CopyTargets -> Nat \cup {None}] /\ rescued \subseteq CopyTargets
    BY DEF Copies!CopyIInv, Copies!TypeOK, Copies!OwnersHaveViews
  <1>2. ASSUME NEW t \in CopyTargets, Copies!Schedule(t) PROVE Copies!CopyIInv'
    <2> DEFINE o == [obj EXCEPT !.label = @ \cup {t}]
    <2>1. /\ Copies!Write(o) /\ wrote' = wrote /\ rescued' = rescued /\ copyEvents' = copyEvents + 1
      BY <1>2 DEF Copies!Schedule, Copies!Event
    <2>2. /\ o \in Copies!Object /\ o.view = obj.view /\ o.status = obj.status /\ o.diff = obj.diff
          /\ o.fin = obj.fin /\ o.label = obj.label \cup {t} /\ o.del = obj.del
      BY <1>1 DEF Copies!Object
    <2>3. obj.label \subseteq o.label /\ obj.del \subseteq o.del /\ o.del \subseteq o.label
      BY <1>1, <2>1, <2>2
    <2> HIDE DEF o
    <2> QED BY <1>1, <2>1, <2>2, <2>3, AssignKeeps
  <1>3. ASSUME NEW t \in CopyTargets, Copies!Unschedule(t) PROVE Copies!CopyIInv'
    <2> DEFINE o == [obj EXCEPT !.del = @ \cup {t}]
    <2>1. /\ t \in obj.label /\ Copies!Write(o) /\ wrote' = wrote /\ rescued' = rescued
          /\ copyEvents' = copyEvents + 1
      BY <1>3 DEF Copies!Unschedule, Copies!Event
    <2>2. /\ o \in Copies!Object /\ o.view = obj.view /\ o.status = obj.status /\ o.diff = obj.diff
          /\ o.fin = obj.fin /\ o.label = obj.label /\ o.del = obj.del \cup {t}
      BY <1>1 DEF Copies!Object
    <2>3. obj.label \subseteq o.label /\ obj.del \subseteq o.del /\ o.del \subseteq o.label
      BY <1>1, <2>1, <2>2
    <2> HIDE DEF o
    <2> QED BY <1>1, <2>1, <2>2, <2>3, AssignKeeps
  <1>4. ASSUME Copies!Scale PROVE Copies!CopyIInv'
    <2>1. PICK r \in Replicas : Copies!Write([obj EXCEPT !.replicas = r])
      BY <1>4 DEF Copies!Scale
    <2> DEFINE o == [obj EXCEPT !.replicas = r]
    <2>2. /\ Copies!Write(o) /\ wrote' = wrote /\ rescued' = rescued /\ copyEvents' = copyEvents + 1
          /\ r \in Nat
      BY <1>4, <2>1, CopyConstants DEF Copies!Scale, Copies!Event, Copies!Constants
    <2>3. /\ o \in Copies!Object /\ o.view = obj.view /\ o.status = obj.status /\ o.diff = obj.diff
          /\ o.fin = obj.fin /\ o.label = obj.label /\ o.del = obj.del
      BY <1>1, <2>2 DEF Copies!Object
    <2>4. obj.label \subseteq o.label /\ obj.del \subseteq o.del /\ o.del \subseteq o.label
      BY <1>1, <2>3
    <2> HIDE DEF o
    <2> QED BY <1>1, <2>2, <2>3, <2>4, AssignKeeps
  <1>5. ASSUME NEW t \in CopyTargets, Copies!Rescue(t) PROVE Copies!CopyIInv'
    <2> DEFINE o == [obj EXCEPT !.del = @ \ {t}]
               shown == Copies!StatusInView(obj, t)
    <2>1. /\ t \in obj.del /\ Copies!Write(o) /\ copyEvents' = copyEvents + 1
          /\ wrote' = [wrote EXCEPT ![t] = shown] /\ rescued' = rescued \cup ({t} \cap obj.fin)
      BY <1>5 DEF Copies!Rescue, Copies!Event
    <2>2. /\ o \in Copies!Object /\ o.view = obj.view /\ o.status = obj.status /\ o.diff = obj.diff
          /\ o.fin = obj.fin /\ o.label = obj.label /\ o.del = obj.del \ {t}
      BY <1>1 DEF Copies!Object
    <2>3. shown \in Nat \cup {None} BY <1>1 DEF Copies!StatusInView, Copies!Object
    <2> HIDE DEF o, shown
    <2>4. /\ wrote' \in [CopyTargets -> Nat \cup {None}] /\ wrote'[t] = shown
          /\ \A u \in CopyTargets : u # t => wrote'[u] = wrote[u]
      BY <1>1, <2>1, <2>3
    <2>5. /\ \A u \in CopyTargets : wrote'[u] = wrote[u]
                                      \/ (u \in obj.del /\ wrote'[u] = Copies!StatusInView(obj, u))
          /\ \A u \in obj.del : u \in o.del \/ wrote'[u] = Copies!StatusInView(obj, u)
      BY <2>1, <2>2, <2>4 DEF shown
    <2>6. /\ obj.label \subseteq o.label /\ o.del \subseteq o.label
          /\ rescued' \subseteq CopyTargets /\ rescued \subseteq rescued'
          /\ (obj.del \ o.del) \cap obj.fin \subseteq rescued'
      BY <1>1, <2>1, <2>2
    <2> QED BY <1>1, <2>1, <2>2, <2>4, <2>5, <2>6, AssignKeeps
  <1> QED BY <1>2, <1>3, <1>4, <1>5

-----------------------------------------------------------------------------
(* The coordination controller *)

(* Quotient and rest.                                                        *)
LEMMA Division ==
    ASSUME NEW r \in Nat, NEW n \in Nat \ {0}
    PROVE  r \div n \in Nat /\ r % n \in Nat /\ n * (r \div n) + (r % n) = r
  <1>1. r \in Int /\ n \in Int /\ n > 0 /\ r >= 0 OBVIOUS
  <1>2. r \div n \in Int /\ r % n \in Nat /\ r % n < n BY <1>1
  <1>3. n * (r \div n) + (r % n) = r BY <1>1, Z3
  <1>4. r \div n >= 0
    <2>1. \A q \in Int : n * q <= r /\ r < n * q + n => q >= 0 BY <1>1
    <2>2. n * (r \div n) \in Int BY <1>1, <1>2
    <2>3. n * (r \div n) <= r /\ r < n * (r \div n) + n BY <1>1, <1>2, <1>3, <2>2
    <2> QED BY <1>2, <2>1, <2>3
  <1> QED BY <1>2, <1>3, <1>4

(* What a target is to run: a share, and the first one takes the rest.       *)
LEMMA SplitIs ==
    ASSUME NEW o \in Copies!Object
    PROVE  LET views == Copies!SyncerViews(o)
               n == Cardinality(views)
           IN  /\ Copies!Split(o) \in [CopyTargets -> Nat \cup {None}]
               /\ views # {} =>
                    /\ n \in Nat \ {0} /\ IsFiniteSet(views)
                    /\ \E m \in views : \A t \in views :
                         Copies!Split(o)[t] = o.replicas \div n + (IF t = m THEN o.replicas % n ELSE 0)
  <1> DEFINE views == Copies!SyncerViews(o)
             n == Cardinality(views)
             m == Copies!Min(views)
  <1>1. views \in SUBSET CopyTargets /\ o.replicas \in Nat
    BY DEF Copies!SyncerViews, Copies!Object
  <1>2. IsFiniteSet(views) /\ n \in Nat BY <1>1, CopySubset
  <1>3. Copies!Split(o) = [t \in CopyTargets |->
            IF t \in views THEN o.replicas \div n + (IF t = m THEN o.replicas % n ELSE 0) ELSE None]
    BY SameCardinality DEF Copies!Split
  <1>4. CASE views = {} BY <1>3, <1>4
  <1>5. CASE views # {}
    <2>1. n # 0 BY <1>2, <1>5, FS_EmptySet
    <2>2. m \in views
      <3>1. views \in SUBSET Int BY <1>1, CopyConstants DEF Copies!Constants
      <3>2. \E x \in views : \A y \in views : x <= y BY <1>2, <1>5, <3>1, HasMin
      <3> HIDE DEF views
      <3> QED BY <3>2 DEF Copies!Min
    <2> HIDE DEF m, n, views
    <2>3. o.replicas \div n \in Nat /\ o.replicas % n \in Nat
      BY <1>1, <1>2, <2>1, Division
    <2>4. Copies!Split(o) \in [CopyTargets -> Nat \cup {None}] BY <1>3, <2>3
    <2>5. \A t \in views : Copies!Split(o)[t] = o.replicas \div n + (IF t = m THEN o.replicas % n ELSE 0)
      BY <1>1, <1>3
    <2> QED BY <1>2, <2>1, <2>2, <2>4, <2>5 DEF n, views
  <1> QED BY <1>4, <1>5

(* The replicas of the shares are those that were asked for.                 *)
LEMMA SplitAddsUp ==
    ASSUME NEW o \in Copies!Object, o.diff = Copies!Split(o), Copies!SyncerViews(o) # {}
    PROVE  o.replicas = Copies!SumFunction([t \in Copies!SyncerViews(o) |-> Copies!AfterRead(o, t).replicas])
  <1> DEFINE views == Copies!SyncerViews(o)
             n == Cardinality(views)
             q == o.replicas \div n
             r == o.replicas % n
             f == [t \in views |-> Copies!AfterRead(o, t).replicas]
  <1>1. n \in Nat \ {0} /\ IsFiniteSet(views) BY SplitIs
  <1>2. PICK m \in views : \A t \in views : Copies!Split(o)[t] = q + (IF t = m THEN r ELSE 0)
    BY SplitIs
  <1>3. q \in Nat /\ r \in Nat /\ n * q + r = o.replicas
    <2>1. o.replicas \in Nat BY DEF Copies!Object
    <2> HIDE DEF n
    <2> QED BY <1>1, <2>1, Division
  <1> HIDE DEF n, q, r, views
  <1>4. ASSUME NEW t \in views PROVE f[t] = q + (IF t = m THEN r ELSE 0)
    <2>1. o.diff[t] = q + (IF t = m THEN r ELSE 0) BY <1>2
    <2>2. o.diff[t] # None BY <1>3, <2>1, CopyConstants DEF Copies!Constants
    <2> QED BY <2>1, <2>2 DEF Copies!AfterRead, Copies!ToSyncerView
  <1>5. f \in [views -> Nat] BY <1>3, <1>4
  <1>6. IsShare(f, views, q, r, m) BY <1>4 DEF IsShare
  <1> HIDE DEF f
  <1>7. Copies!SumFunction(f) = n * q + r BY <1>1, <1>3, <1>5, <1>6, SumOfShares DEF n
  <1> QED BY <1>3, <1>7 DEF f, views

(* The controller is told: it divides again, and sums again if a view has    *)
(* changed.                                                                  *)
LEMMA DeliverKeeps ==
    ASSUME Copies!CopyIInv, Copies!Deliver
    PROVE  Copies!CopyIInv'
  <1>1. /\ kind = "deployment" /\ objSeen' = obj /\ toSplit' = TRUE /\ toSum' = (toSum \/ changed)
        /\ changed' = FALSE /\ UNCHANGED <<kind, obj, wrote, rescued, copyEvents>>
    BY DEF Copies!Deliver, Copies!UpstreamViewChanged
  <1>2. Copies!TypeOK' BY <1>1 DEF Copies!TypeOK, Copies!CopyIInv
  <1>3. Copies!OwnersHaveViews' /\ Copies!OwnStatus' /\ Copies!PromotedIsAlone' /\ Copies!OnlyDeployments'
    BY <1>1 DEF Copies!OwnersHaveViews, Copies!OwnStatus, Copies!PromotedIsAlone, Copies!OnlyDeployments,
                Copies!CopyIInv, Copies!Found, Copies!AfterRead, Copies!StatusInView
  <1>4. Copies!SplitIsWritten' BY <1>1 DEF Copies!SplitIsWritten
  <1>5. Copies!SumIsWritten'
    <2> SUFFICES ASSUME ~toSum', Copies!Alone(obj) PROVE Copies!Count(obj.status) = Copies!Summarized(obj)
      BY <1>1 DEF Copies!SumIsWritten, Copies!Summarized, Copies!Alone, Copies!Found, Copies!AfterRead,
                  Copies!StatusInView
    <2>1. ~toSum /\ ~changed BY <1>1
    <2> QED BY <1>1, <2>1 DEF Copies!CopyIInv, Copies!SumIsWritten
  <1> QED BY <1>2, <1>3, <1>4, <1>5 DEF Copies!CopyIInv

(* Views and status stay when the shares are written.                        *)
LEMMA ProcessUpstreamViewKeeps ==
    ASSUME Copies!CopyIInv, Copies!ProcessUpstreamView
    PROVE  Copies!CopyIInv'
  <1>1. /\ toSplit' = FALSE /\ objSeen' = objSeen /\ obj' = [obj EXCEPT !.diff = Copies!Split(objSeen)]
        /\ UNCHANGED <<kind, changed, toSum, wrote, rescued, copyEvents>>
    BY DEF Copies!ProcessUpstreamView
  <1>2. obj \in Copies!Object /\ objSeen \in Copies!Object BY DEF Copies!CopyIInv, Copies!TypeOK
  <1>3. Copies!Split(objSeen) \in [CopyTargets -> Nat \cup {None}] BY <1>2, SplitIs
  <1>4. /\ obj' \in Copies!Object /\ obj'.diff = Copies!Split(objSeen)
        /\ obj'.label = obj.label /\ obj'.del = obj.del /\ obj'.fin = obj.fin
        /\ obj'.view = obj.view /\ obj'.status = obj.status
    BY <1>1, <1>2, <1>3 DEF Copies!Object
  <1>5. Copies!TypeOK' BY <1>1, <1>4 DEF Copies!TypeOK, Copies!CopyIInv
  <1>6. Copies!OwnersHaveViews' /\ Copies!OwnStatus' /\ Copies!PromotedIsAlone' /\ Copies!OnlyDeployments'
    BY <1>1, <1>4 DEF Copies!OwnersHaveViews, Copies!OwnStatus, Copies!PromotedIsAlone, Copies!OnlyDeployments,
                Copies!CopyIInv, Copies!Found, Copies!AfterRead, Copies!StatusInView
  <1>7. Copies!SplitIsWritten'
    BY <1>1, <1>4 DEF Copies!SplitIsWritten, Copies!Split, Copies!SyncerViews
  <1>8. Copies!SumIsWritten'
    <2>1. (Copies!Summarized(obj))' = Copies!Summarized(obj')
      BY DEF Copies!Summarized, Copies!Found, Copies!AfterRead, Copies!StatusInView
    <2>2. (Copies!Alone(obj))' = Copies!Alone(obj') BY DEF Copies!Alone, Copies!Found
    <2>3. Copies!Summarized(obj') = Copies!Summarized(obj) /\ (Copies!Alone(obj') <=> Copies!Alone(obj))
      BY <1>4, SummarizedReads
    <2> QED BY <1>1, <1>4, <2>1, <2>2, <2>3 DEF Copies!CopyIInv, Copies!SumIsWritten
  <1> QED BY <1>5, <1>6, <1>7, <1>8 DEF Copies!CopyIInv

(* The sum is written: a status in the object that is alone is its own sum.  *)
LEMMA ProcessSyncerViewKeeps ==
    ASSUME Copies!CopyIInv, Copies!ProcessSyncerView
    PROVE  Copies!CopyIInv'
  <1> DEFINE sum == Copies!Summarized(obj)
  <1>1. /\ toSum /\ toSum' = FALSE /\ objSeen = obj
        /\ UNCHANGED <<kind, objSeen, changed, toSplit, wrote, rescued, copyEvents>>
        /\ obj' = IF Copies!Count(obj.status) = sum THEN obj ELSE [obj EXCEPT !.status = sum]
    BY DEF Copies!ProcessSyncerView
  <1>2. obj \in Copies!Object /\ kind = "deployment"
    BY <1>1 DEF Copies!CopyIInv, Copies!TypeOK, Copies!OnlyDeployments
  <1>3. sum \in Nat BY <1>2, SummarizedIsNatural
  <1> HIDE DEF sum
  <1>4. /\ obj' \in Copies!Object /\ obj'.diff = obj.diff
        /\ obj'.label = obj.label /\ obj'.del = obj.del /\ obj'.fin = obj.fin /\ obj'.view = obj.view
        /\ Copies!Count(obj.status) # sum => obj'.status = sum
        /\ Copies!Count(obj.status) = sum => obj'.status = obj.status
    BY <1>1, <1>2, <1>3 DEF Copies!Object
  <1>5. Copies!TypeOK' BY <1>1, <1>4 DEF Copies!TypeOK, Copies!CopyIInv
  <1>6. Copies!OwnersHaveViews' /\ Copies!OwnStatus' /\ Copies!PromotedIsAlone' /\ Copies!OnlyDeployments'
    BY <1>1, <1>2, <1>4 DEF Copies!OwnersHaveViews, Copies!OwnStatus, Copies!PromotedIsAlone,
                Copies!OnlyDeployments, Copies!CopyIInv, Copies!Found
  <1>7. Copies!SplitIsWritten'
    BY <1>1, <1>4 DEF Copies!SplitIsWritten, Copies!Split, Copies!SyncerViews, Copies!CopyIInv
  <1>8. Copies!SumIsWritten'
    <2>1. (Copies!Summarized(obj))' = Copies!Summarized(obj')
      BY DEF Copies!Summarized, Copies!Found, Copies!AfterRead, Copies!StatusInView
    <2>2. (Copies!Alone(obj))' = Copies!Alone(obj') BY DEF Copies!Alone, Copies!Found
    <2> SUFFICES ASSUME Copies!Alone(obj') PROVE Copies!Count(obj'.status) = Copies!Summarized(obj')
      BY <2>1, <2>2 DEF Copies!SumIsWritten
    <2>3. CASE Copies!Count(obj.status) = sum
      <3>1. Copies!Summarized(obj') = Copies!Summarized(obj) BY <1>4, <2>3, SummarizedReads
      <3> QED BY <1>4, <2>3, <3>1 DEF sum
    <2>4. CASE Copies!Count(obj.status) # sum
      <3>1. ASSUME NEW t \in CopyTargets, obj.view[t].status = Promoted PROVE FALSE
        <4>1. t \in Copies!Found(obj)
          BY <3>1, CopyConstants DEF Copies!CopyIInv, Copies!OwnersHaveViews, Copies!Constants
        <4>2. Copies!Found(obj) = {t}
          BY <1>4, <3>1, <4>1 DEF Copies!Alone, Copies!Found
        <4> QED BY <1>2, <2>4, <3>1, <4>2, SummarizedAlone DEF sum
      <3>2. Copies!Summarized(obj') = sum BY <1>4, <3>1, SummarizedUnpromoted DEF sum
      <3>3. Copies!Count(sum) = sum BY <1>3, CopyConstants DEF Copies!Count, Copies!Constants
      <3> QED BY <1>4, <2>4, <3>2, <3>3
    <2> QED BY <2>3, <2>4
  <1> QED BY <1>5, <1>6, <1>7, <1>8 DEF Copies!CopyIInv

(* The object is new, on no target.                                          *)
LEMMA CopyInit == Copies!Init => Copies!CopyIInv
  <1> SUFFICES ASSUME Copies!Init PROVE Copies!CopyIInv
    OBVIOUS
  <1>1. PICK r \in Replicas :
           obj = [replicas |-> r, label |-> {}, del |-> {}, fin |-> {}, status |-> None,
                  view |-> [t \in CopyTargets |-> Copies!NoView], diff |-> [t \in CopyTargets |-> None]]
    BY DEF Copies!Init
  <1>2. r \in Nat BY CopyConstants DEF Copies!Constants
  <1>3. Copies!NoView \in [found : BOOLEAN, status : Nat \cup {None, Promoted}]
        /\ Copies!NoView.found = FALSE /\ Copies!NoView.status = None
    BY DEF Copies!NoView
  <1>4. obj \in Copies!Object BY <1>1, <1>2, <1>3 DEF Copies!Object
  <1>5. /\ objSeen = obj /\ changed = FALSE /\ toSplit = (kind = "deployment") /\ toSum = (kind = "deployment")
        /\ wrote = [t \in CopyTargets |-> None] /\ rescued = {} /\ copyEvents = 0
    BY DEF Copies!Init
  <1>6. Copies!TypeOK BY <1>4, <1>5 DEF Copies!TypeOK
  <1>7. Copies!OwnersHaveViews BY <1>1, <1>3, <1>5 DEF Copies!OwnersHaveViews, Copies!Found
  <1>8. Copies!OwnStatus /\ Copies!PromotedIsAlone
    BY <1>1, <1>3, CopyConstants DEF Copies!OwnStatus, Copies!PromotedIsAlone, Copies!Constants
  <1>9. Copies!OnlyDeployments /\ Copies!SplitIsWritten /\ Copies!SumIsWritten
    BY <1>5 DEF Copies!OnlyDeployments, Copies!SplitIsWritten, Copies!SumIsWritten
  <1> QED BY <1>6, <1>7, <1>8, <1>9 DEF Copies!CopyIInv

(* Every step.                                                               *)
LEMMA CopyStep ==
    ASSUME Copies!CopyIInv, AnyNext \/ UNCHANGED all
    PROVE  Copies!CopyIInv'
  <1>1. CASE Copies!Next
    <2>1. CASE \E t \in CopyTargets : Copies!Syncer(t) \/ Copies!WriteStatus(t)
      BY <2>1, TakeOverKeeps, PromoteKeeps, RemoveKeeps, WriteStatusKeeps DEF Copies!Syncer
    <2>2. CASE \/ Copies!Scale
               \/ \E t \in CopyTargets : Copies!Schedule(t) \/ Copies!Rescue(t) \/ Copies!Unschedule(t)
      BY <2>2, CopyEnvironmentKeeps
    <2>3. CASE Copies!Deliver \/ Copies!ProcessUpstreamView \/ Copies!ProcessSyncerView
      BY <2>3, DeliverKeeps, ProcessUpstreamViewKeeps, ProcessSyncerViewKeeps
    <2> QED BY <1>1, <2>1, <2>2, <2>3 DEF Copies!Next
  <1>2. CASE UNCHANGED copyVars
    BY <1>2 DEF copyVars, Copies!CopyIInv, Copies!TypeOK, Copies!OwnersHaveViews, Copies!OwnStatus,
                Copies!PromotedIsAlone, Copies!OnlyDeployments, Copies!SplitIsWritten, Copies!SumIsWritten,
                Copies!Found, Copies!AfterRead, Copies!StatusInView, Copies!Split, Copies!SyncerViews,
                Copies!Summarized, Copies!Alone
  <1>3. Copies!Next \/ UNCHANGED copyVars
    BY DEF AnyNext, all
  <1> QED BY <1>1, <1>2, <1>3

(* The invariant, whatever the other parts do.                               *)
LEMMA CopyInvariant == AnySpec => []Copies!CopyIInv
  <1>1. AnyInit => Copies!CopyIInv BY CopyInit DEF AnyInit
  <1>2. Copies!CopyIInv /\ [AnyNext]_all => Copies!CopyIInv' BY CopyStep
  <1> QED BY <1>1, <1>2, PTL DEF AnySpec

(* The view of a syncer that stays shows the status that it wrote last, or   *)
(* that it showed when it was told to stay (BeforeWrite, AfterRead), for any *)
(* targets, statuses and numbers of events: promotion, its reversal and the  *)
(* promotion of the remaining one lose nothing of a target that stays.       *)
THEOREM CopiesOwnStatus == AnySpec => []OwnStatus
  <1>1. Copies!CopyIInv => OwnStatus BY DEF Copies!CopyIInv, OwnStatus
  <1> QED BY <1>1, CopyInvariant, PTL

(* With no event on its way and no key queued, the replicas that the targets *)
(* are shown add up to what was asked for; the status of the deployment is   *)
(* the sum of theirs if no status is in the object beside another view, as   *)
(* with two targets of which none leaves or was told to stay                 *)
(* (processUpstreamView, processSyncerView).                                 *)
THEOREM CopiesCoordinated == AnySpec => []QuietMeansCoordinated
  <1>1. ASSUME Copies!CopyIInv PROVE QuietMeansCoordinated
    <2> SUFFICES ASSUME Copies!Quiet PROVE
           /\ Copies!SyncerViews(obj) # {} => obj.replicas =
                Copies!SumFunction([t \in Copies!SyncerViews(obj) |-> Copies!AfterRead(obj, t).replicas])
           /\ Copies!Alone(obj) \/ (Copies!Cardinality(CopyTargets) < 3 /\ obj.del = {} /\ rescued = {}) =>
                Copies!Count(obj.status) = Copies!Summarized(obj)
      BY DEF QuietMeansCoordinated, Copies!QuietMeansCoordinated
    <2>1. obj \in Copies!Object BY <1>1 DEF Copies!CopyIInv, Copies!TypeOK
    <2>2. obj.diff = Copies!Split(obj)
      BY <1>1 DEF Copies!CopyIInv, Copies!SplitIsWritten, Copies!Quiet
    <2>3. Copies!Alone(obj) => Copies!Count(obj.status) = Copies!Summarized(obj)
      BY <1>1 DEF Copies!CopyIInv, Copies!SumIsWritten, Copies!Quiet
    <2>4. Copies!Cardinality(CopyTargets) < 3 /\ obj.del = {} /\ rescued = {} => Copies!Alone(obj)
      BY <1>1 DEF Copies!CopyIInv, Copies!PromotedIsAlone, Copies!Alone, Copies!Found
    <2> QED BY <2>1, <2>2, <2>3, <2>4, SplitAddsUp
  <1> QED BY <1>1, CopyInvariant, PTL

-----------------------------------------------------------------------------
(* The commands of users *)

(* What a step of one run leaves alone: the other runs, and its command.     *)
Moves(r, step) ==
    /\ cmd' \in [Runs -> Cmd!Run]
    /\ \A q \in Runs : q # r => cmd'[q] = cmd[q]
    /\ cmd'[r].name = cmd[r].name /\ cmd'[r].flags = cmd[r].flags /\ cmd'[r].at = step

Keeps(r) ==
    /\ cmd'[r].uid = cmd[r].uid /\ cmd'[r].todo = cmd[r].todo /\ cmd'[r].made = cmd[r].made

(* A step that only changes where a run is (Goto).                           *)
LEMMA GotoMoves ==
    ASSUME Cmd!CmdTypeOK, NEW r \in Runs, NEW step \in Cmd!Steps, Cmd!Goto(r, step)
    PROVE  Moves(r, step) /\ Keeps(r)
  <1>1. cmd \in [Runs -> Cmd!Run] BY DEF Cmd!CmdTypeOK
  <1>2. cmd' = [cmd EXCEPT ![r].at = step] BY DEF Cmd!Goto
  <1>3. cmd' \in [Runs -> Cmd!Run] BY <1>1, <1>2 DEF Cmd!Run
  <1>4. \A q \in Runs : q # r => cmd'[q] = cmd[q] BY <1>1, <1>2
  <1>5. /\ cmd'[r].name = cmd[r].name /\ cmd'[r].flags = cmd[r].flags /\ cmd'[r].at = step
        /\ cmd'[r].uid = cmd[r].uid /\ cmd'[r].todo = cmd[r].todo /\ cmd'[r].made = cmd[r].made
    BY <1>1, <1>2 DEF Cmd!Run
  <1> QED BY <1>3, <1>4, <1>5 DEF Moves, Keeps

CmdRest == <<offer, spoiled, cmdTarget, lastUID, localExport, apiBinding, placement, cmdEvents>>

(* Every run stays one of those offered.                                     *)
LEMMA MovesTyped ==
    ASSUME Cmd!CmdTypeOK, NEW r \in Runs, NEW step, Moves(r, step), offer' = offer,
           step = "failed" \/ step \in Cmd!StepsOf(cmd[r].name), cmd[r].at # "idle"
    PROVE  \A q \in Runs : Cmd!IsOffered(q)'
  BY DEF Cmd!CmdTypeOK, Cmd!IsOffered, Moves

(* A run of workload sync that has its SyncTarget: the objects it makes.     *)
LEMMA PastTargetKeeps ==
    ASSUME Cmd!CmdIInv, NEW r \in Runs, NEW step \in Cmd!PastTarget, Moves(r, step), Keeps(r),
           cmd[r].name = "sync", cmd[r].at \in Cmd!PastTarget,
           UNCHANGED CmdRest,
           account \subseteq account', role \subseteq role', token \subseteq token',
           ~spoiled => /\ step \in Cmd!PastAccount => cmd[r].uid \in account'
                       /\ step \in Cmd!PastRole => cmd[r].uid \in role'
                       /\ step \in Cmd!PastToken => cmd[r].uid \in token',
           \/ step = "createBinding"
           \/ cmd[r].uid \in binding' /\ binding \subseteq binding'
           \/ cmd[r].at # "createBinding" /\ binding' = binding
              /\ (step \in Cmd!PastBinding => cmd[r].at \in Cmd!PastBinding)
    PROVE  Cmd!CmdIInv'
  <1>1. Cmd!CmdTypeOK BY DEF Cmd!CmdIInv
  <1>2. UNCHANGED <<offer, spoiled, cmdTarget, lastUID, localExport, apiBinding, placement, cmdEvents>>
    BY DEF CmdRest
  <1>3. /\ cmd' \in [Runs -> Cmd!Run]
        /\ \A q \in Runs : q # r => cmd'[q] = cmd[q]
        /\ cmd'[r].name = "sync" /\ cmd'[r].flags = cmd[r].flags /\ cmd'[r].at = step
        /\ cmd'[r].uid = cmd[r].uid /\ cmd'[r].made = cmd[r].made
    BY DEF Moves, Keeps
  <1>4. Cmd!CmdTypeOK'
    <2>1. step \in Cmd!StepsOf(cmd[r].name) BY DEF Cmd!StepsOf, Cmd!PastExport
    <2>2. cmd[r].at # "idle"
      BY DEF Cmd!PastTarget, Cmd!PastAccount, Cmd!PastRole, Cmd!PastBinding, Cmd!PastToken
    <2>3. \A q \in Runs : Cmd!IsOffered(q)'
      BY <1>1, <1>2, <2>1, <2>2, MovesTyped
    <2> QED BY <1>1, <1>2, <1>3, <2>3 DEF Cmd!CmdTypeOK
  <1> SUFFICES ASSUME ~spoiled
               PROVE  Cmd!TargetIsTheirs' /\ Cmd!ObjectsAreThere' /\ Cmd!ExportIsListed' /\ Cmd!BindingsAreThere'
    BY <1>2, <1>4 DEF Cmd!CmdIInv
  <1>5. Cmd!TargetIsTheirs /\ Cmd!ObjectsAreThere /\ Cmd!ExportIsListed /\ Cmd!BindingsAreThere
    BY DEF Cmd!CmdIInv
  <1>6. r \in Cmd!Syncing(Cmd!PastTarget) /\ r \in Cmd!Syncing(Cmd!PastExport)
    BY DEF Cmd!Syncing, Cmd!PastExport
  <1>7. /\ cmdTarget # None /\ cmd[r].uid = cmdTarget.uid
        /\ \A q \in Runs : cmd[q].name = "sync" /\ cmd[q].at \in Cmd!PastTarget => cmd[q].uid = cmd[r].uid
    BY <1>5, <1>6 DEF Cmd!TargetIsTheirs, Cmd!Syncing
  <1>8. step \notin Cmd!AtExport /\ step \notin Cmd!AtTarget /\ cmd[r].at \notin Cmd!AtExport
        /\ cmd[r].at \notin Cmd!AtTarget /\ step \in Cmd!PastExport
    BY DEF Cmd!AtExport, Cmd!AtTarget, Cmd!PastTarget, Cmd!PastAccount, Cmd!PastRole, Cmd!PastBinding,
           Cmd!PastToken, Cmd!PastExport
  <1>9. Cmd!TargetIsTheirs'
    <2>1. \A q \in Runs : cmd'[q].name = "sync" /\ cmd'[q].at \in Cmd!PastTarget =>
             cmdTarget # None /\ cmd'[q].uid = cmdTarget.uid
      BY <1>3, <1>7
    <2>2. (Cmd!Syncing(Cmd!PastTarget))' = Cmd!Syncing(Cmd!PastTarget)
      BY <1>3 DEF Cmd!Syncing
    <2>3. (Cmd!Syncing(Cmd!AtExport \cup Cmd!AtTarget))' = Cmd!Syncing(Cmd!AtExport \cup Cmd!AtTarget)
      BY <1>3, <1>8 DEF Cmd!Syncing
    <2>4. \A q \in Runs : cmd'[q].flags = cmd[q].flags BY <1>3
    <2>5. \A q \in Cmd!Syncing(Cmd!PastTarget) : q \in Runs /\ cmd[q].name = "sync" /\ cmd[q].at \in Cmd!PastTarget
      BY DEF Cmd!Syncing
    <2>6. \A q \in (Cmd!Syncing(Cmd!PastTarget))' : cmdTarget' # None /\ cmd'[q].uid = cmdTarget'.uid
      BY <1>2, <1>3, <2>1, <2>2, <2>5
    <2>7. (Cmd!Syncing(Cmd!PastTarget))' # {} /\ (Cmd!Syncing(Cmd!AtExport \cup Cmd!AtTarget))' = {} =>
             \E q \in (Cmd!Syncing(Cmd!PastTarget))' : cmd'[q].flags = cmdTarget'.exports
      <3>1. Cmd!Syncing(Cmd!PastTarget) # {} /\ Cmd!Syncing(Cmd!AtExport \cup Cmd!AtTarget) = {} =>
               \E q \in Cmd!Syncing(Cmd!PastTarget) : cmd[q].flags = cmdTarget.exports
        BY <1>5 DEF Cmd!TargetIsTheirs
      <3> QED BY <1>2, <2>2, <2>3, <2>4, <2>5, <3>1
    <2> QED BY <2>6, <2>7 DEF Cmd!TargetIsTheirs
  <1>10. Cmd!ObjectsAreThere'
    <2>0. /\ \A q \in Runs : cmd[q].name = "sync" /\ cmd[q].at \in Cmd!PastAccount => cmd[q].uid \in account
          /\ \A q \in Runs : cmd[q].name = "sync" /\ cmd[q].at \in Cmd!PastRole => cmd[q].uid \in role
          /\ \A q \in Runs : cmd[q].name = "sync" /\ cmd[q].at \in Cmd!PastToken => cmd[q].uid \in token
          /\ \A q \in Runs : cmd[q].name = "sync" /\ cmd[q].at \in Cmd!PastBinding =>
               cmd[q].uid \in binding \/ \E p \in Runs : cmd[p].name = "sync" /\ cmd[p].at = "createBinding"
      BY <1>5 DEF Cmd!ObjectsAreThere, Cmd!Syncing
    <2>1. /\ \A q \in Runs : cmd'[q].name = "sync" /\ cmd'[q].at \in Cmd!PastAccount => cmd'[q].uid \in account'
          /\ \A q \in Runs : cmd'[q].name = "sync" /\ cmd'[q].at \in Cmd!PastRole => cmd'[q].uid \in role'
          /\ \A q \in Runs : cmd'[q].name = "sync" /\ cmd'[q].at \in Cmd!PastToken => cmd'[q].uid \in token'
      BY <1>3, <2>0
    <2>2. \A q \in Runs : cmd'[q].name = "sync" /\ cmd'[q].at \in Cmd!PastBinding =>
               cmd'[q].uid \in binding' \/ \E p \in Runs : cmd'[p].name = "sync" /\ cmd'[p].at = "createBinding"
      <3>1. Cmd!PastBinding \subseteq Cmd!PastTarget
        BY DEF Cmd!PastTarget, Cmd!PastAccount, Cmd!PastRole
      <3>2. CASE step = "createBinding" BY <1>3, <3>2
      <3>3. CASE cmd[r].uid \in binding' BY <1>3, <1>7, <3>1, <3>3
      <3>4. CASE cmd[r].at # "createBinding" /\ binding' = binding
                 /\ (step \in Cmd!PastBinding => cmd[r].at \in Cmd!PastBinding)
        BY <1>3, <2>0, <3>4
      <3> QED BY <3>2, <3>3, <3>4
    <2> QED BY <2>1, <2>2 DEF Cmd!ObjectsAreThere, Cmd!Syncing
  <1>11. Cmd!ExportIsListed'
    <2>1. /\ (Cmd!Syncing(Cmd!PastExport))' = Cmd!Syncing(Cmd!PastExport)
          /\ (Cmd!Syncing(Cmd!PastExport \cup {"createExport"}))' = Cmd!Syncing(Cmd!PastExport \cup {"createExport"})
      BY <1>3, <1>8 DEF Cmd!Syncing, Cmd!PastExport
    <2>2. (Cmd!Syncing({"export", "updateExport"}))' = Cmd!Syncing({"export", "updateExport"})
      BY <1>3, <1>8 DEF Cmd!Syncing, Cmd!AtExport
    <2>3. \A q \in Cmd!Syncing(Cmd!PastExport) : cmd'[q].flags = cmd[q].flags BY <1>3 DEF Cmd!Syncing
    <2> QED BY <1>2, <1>5, <2>1, <2>2, <2>3 DEF Cmd!ExportIsListed
  <1>12. Cmd!BindingsAreThere'
    <2>1. step \notin {"apply", "placement", "waitPlacement"}
      BY DEF Cmd!PastTarget, Cmd!PastAccount, Cmd!PastRole, Cmd!PastBinding, Cmd!PastToken
    <2>2. \A q \in Runs : q # r \/ cmd'[q].name = "sync" BY <1>3
    <2> QED BY <1>2, <1>3, <1>5, <2>1 DEF Cmd!BindingsAreThere, Cmd!FoundBound, Cmd!At, Cmd!Done, Cmd!BindingsReady
  <1> QED BY <1>9, <1>10, <1>11, <1>12

(* Who is at a step of workload sync runs it, and so does everybody.         *)
LEMMA AtSync ==
    ASSUME Cmd!CmdTypeOK, NEW r \in Runs,
           cmd[r].at \in (Cmd!AtExport \cup Cmd!PastExport) \ {"done"}
    PROVE  cmd[r].name = "sync" /\ offer = {"sync"} /\ cmd[r].flags \in Flags
  <1>1. cmd[r].at # "idle" /\ cmd[r].at # "failed"
    BY DEF Cmd!AtExport, Cmd!PastExport, Cmd!AtTarget, Cmd!PastTarget, Cmd!PastAccount, Cmd!PastRole,
           Cmd!PastBinding, Cmd!PastToken
  <1>2. cmd[r].name \in offer /\ cmd[r].flags \in Flags /\ cmd[r].at \in Cmd!StepsOf(cmd[r].name) /\ offer \in Offers
    BY <1>1 DEF Cmd!CmdTypeOK, Cmd!IsOffered
  <1>3. cmd[r].name = "sync"
    BY <1>2 DEF Cmd!StepsOf, Cmd!AtExport, Cmd!PastExport, Cmd!AtTarget, Cmd!PastTarget, Cmd!PastAccount,
           Cmd!PastRole, Cmd!PastBinding, Cmd!PastToken
  <1> QED BY <1>2, <1>3, CmdConstants DEF Cmd!Constants

(* Which step is past what.                                                  *)
LEMMA SyncStepSets ==
    /\ {"account", "createAccount", "patchAccount"} \subseteq Cmd!PastTarget \ Cmd!PastAccount
    /\ {"role", "createRole", "patchRole"} \subseteq (Cmd!PastTarget \cap Cmd!PastAccount) \ Cmd!PastRole
    /\ {"binding", "deleteBinding", "createBinding"} \subseteq
         (Cmd!PastTarget \cap Cmd!PastAccount \cap Cmd!PastRole) \ Cmd!PastBinding
    /\ "token" \in (Cmd!PastTarget \cap Cmd!PastAccount \cap Cmd!PastRole \cap Cmd!PastBinding) \ Cmd!PastToken
    /\ {"resources", "render", "done"} \subseteq
         Cmd!PastTarget \cap Cmd!PastAccount \cap Cmd!PastRole \cap Cmd!PastBinding \cap Cmd!PastToken
    /\ Cmd!PastTarget \subseteq Cmd!PastExport /\ Cmd!PastExport \subseteq Cmd!Steps
    /\ Cmd!AtTarget \subseteq Cmd!PastExport /\ Cmd!AtExport \subseteq Cmd!Steps
    /\ Cmd!PastToken \subseteq Cmd!PastBinding /\ Cmd!PastBinding \subseteq Cmd!PastRole
    /\ Cmd!PastRole \subseteq Cmd!PastAccount
  BY DEF Cmd!PastExport, Cmd!PastTarget, Cmd!PastAccount, Cmd!PastRole, Cmd!PastBinding, Cmd!PastToken, Cmd!Steps

(* What a run has behind it is there, as long as nothing has failed.         *)
LEMMA StepSetsSyncing ==
    ASSUME Cmd!CmdIInv, ~spoiled, NEW r \in Runs, cmd[r].name = "sync"
    PROVE  /\ cmd[r].at \in Cmd!PastAccount => cmd[r].uid \in account
           /\ cmd[r].at \in Cmd!PastRole => cmd[r].uid \in role
           /\ cmd[r].at \in Cmd!PastToken => cmd[r].uid \in token
  BY DEF Cmd!CmdIInv, Cmd!ObjectsAreThere, Cmd!Syncing

(* The service account is answered with a name or without (CreateServiceAccount, *)
(* PatchServiceAccount).                                                     *)
LEMMA NamedMoves ==
    ASSUME Cmd!CmdTypeOK, NEW r \in Runs, NEW b \in BOOLEAN, cmd' = [cmd EXCEPT ![r].at = "role", ![r].named = b]
    PROVE  Moves(r, "role") /\ Keeps(r)
  <1>1. cmd \in [Runs -> Cmd!Run] BY DEF Cmd!CmdTypeOK
  <1>2. "role" \in Cmd!Steps BY SyncStepSets
  <1>3. cmd' \in [Runs -> Cmd!Run]
    <2>1. \A c \in Cmd!Run : [c EXCEPT !.at = "role", !.named = b] \in Cmd!Run
      BY <1>2 DEF Cmd!Run
    <2> DEFINE new == [cmd[r] EXCEPT !.at = "role", !.named = b]
    <2>2. cmd' = [cmd EXCEPT ![r] = new] OBVIOUS
    <2>3. new \in Cmd!Run BY <1>1, <2>1
    <2> HIDE DEF new
    <2> QED BY <1>1, <2>2, <2>3
  <1>4. \A q \in Runs : q # r => cmd'[q] = cmd[q] BY <1>1
  <1>5. /\ cmd'[r].name = cmd[r].name /\ cmd'[r].flags = cmd[r].flags /\ cmd'[r].at = "role"
        /\ cmd'[r].uid = cmd[r].uid /\ cmd'[r].todo = cmd[r].todo /\ cmd'[r].made = cmd[r].made
    BY <1>1 DEF Cmd!Run
  <1> QED BY <1>3, <1>4, <1>5 DEF Moves, Keeps

(* Account, role, binding and token: who finds an object there patches it,   *)
(* or deletes and makes it, while others do the same.                        *)
LEMMA SyncObjectsKeep ==
    ASSUME Cmd!CmdIInv, NEW r \in Runs,
           \/ Cmd!GetServiceAccount(r) \/ Cmd!CreateServiceAccount(r) \/ Cmd!PatchServiceAccount(r)
           \/ Cmd!GetClusterRole(r) \/ Cmd!ApplyClusterRole(r)
           \/ Cmd!GetClusterRoleBinding(r) \/ Cmd!DeleteClusterRoleBinding(r) \/ Cmd!CreateClusterRoleBinding(r)
           \/ Cmd!WaitForToken(r) \/ Cmd!GetResourcesForPermission(r) \/ Cmd!RenderSyncerResources(r)
    PROVE  Cmd!CmdIInv'
  <1>1. Cmd!CmdTypeOK BY DEF Cmd!CmdIInv
  <1>2. \A s \in Cmd!PastTarget : s \in Cmd!Steps BY SyncStepSets
  <1>3. ASSUME cmd[r].at \in Cmd!PastTarget \ {"done"} PROVE cmd[r].name = "sync"
    BY <1>1, <1>3, AtSync, SyncStepSets
  <1>4. CASE Cmd!GetServiceAccount(r)
    <2>1. PICK s \in {"patchAccount", "createAccount"} : Cmd!Goto(r, s)
      BY <1>4 DEF Cmd!GetServiceAccount
    <2>2. Moves(r, s) /\ Keeps(r) BY <1>1, <1>2, <2>1, GotoMoves, SyncStepSets
    <2>3. cmd[r].at = "account" /\ UNCHANGED CmdRest /\ UNCHANGED <<account, role, token, binding>>
      BY <1>4 DEF Cmd!GetServiceAccount, Cmd!At, Cmd!owned, Cmd!bound, CmdRest
    <2> QED BY <1>3, <2>1, <2>2, <2>3, PastTargetKeeps, SyncStepSets
  <1>5. CASE Cmd!CreateServiceAccount(r)
    <2>1. cmd' = [cmd EXCEPT ![r].at = "role", ![r].named = cmd[r].uid \notin account]
      BY <1>5 DEF Cmd!CreateServiceAccount
    <2>2. Moves(r, "role") /\ Keeps(r)
      BY <1>1, <2>1, NamedMoves
    <2>3. cmd[r].at = "createAccount" /\ UNCHANGED CmdRest /\ UNCHANGED <<role, token, binding>>
          /\ account' = account \cup {cmd[r].uid}
      BY <1>5 DEF Cmd!CreateServiceAccount, Cmd!At, Cmd!bound, CmdRest, Cmd!MergeOwnerReference
    <2> QED BY <1>3, <2>2, <2>3, PastTargetKeeps, SyncStepSets
  <1>6. CASE Cmd!PatchServiceAccount(r)
    <2>1. cmd' = [cmd EXCEPT ![r].at = "role", ![r].named = TRUE]
      BY <1>6 DEF Cmd!PatchServiceAccount
    <2>2. Moves(r, "role") /\ Keeps(r)
      BY <1>1, <2>1, NamedMoves
    <2>3. cmd[r].at = "patchAccount" /\ UNCHANGED CmdRest /\ UNCHANGED <<account, role, token, binding>>
          /\ cmd[r].uid \in account
      BY <1>6 DEF Cmd!PatchServiceAccount, Cmd!At, Cmd!owned, Cmd!bound, CmdRest
    <2> QED BY <1>3, <2>2, <2>3, PastTargetKeeps, SyncStepSets
  <1>7. CASE Cmd!GetClusterRole(r)
    <2>1. PICK s \in {"patchRole", "createRole"} : Cmd!Goto(r, s)
      BY <1>7 DEF Cmd!GetClusterRole
    <2>2. Moves(r, s) /\ Keeps(r) BY <1>1, <1>2, <2>1, GotoMoves, SyncStepSets
    <2>3. cmd[r].at = "role" /\ UNCHANGED CmdRest /\ UNCHANGED <<account, role, token, binding>>
      BY <1>7 DEF Cmd!GetClusterRole, Cmd!At, Cmd!owned, Cmd!bound, CmdRest
    <2>4. cmd[r].name = "sync" BY <1>3, <2>3, SyncStepSets
    <2>5. ~spoiled => cmd[r].uid \in account BY <2>3, <2>4, StepSetsSyncing, SyncStepSets
    <2> QED BY <2>1, <2>2, <2>3, <2>4, <2>5, PastTargetKeeps, SyncStepSets
  <1>8. CASE Cmd!ApplyClusterRole(r)
    <2>1. Cmd!Goto(r, "binding") BY <1>8 DEF Cmd!ApplyClusterRole
    <2>2. Moves(r, "binding") /\ Keeps(r) BY <1>1, <1>2, <2>1, GotoMoves, SyncStepSets
    <2>3. cmd[r].at \in {"createRole", "patchRole"} /\ UNCHANGED CmdRest /\ UNCHANGED <<account, token, binding>>
          /\ role' = role \cup {cmd[r].uid}
      BY <1>8 DEF Cmd!ApplyClusterRole, Cmd!At, Cmd!bound, CmdRest, Cmd!MergeOwnerReference
    <2>4. cmd[r].name = "sync" BY <1>3, <2>3, SyncStepSets
    <2>5. ~spoiled => cmd[r].uid \in account BY <2>3, <2>4, StepSetsSyncing, SyncStepSets
    <2> QED BY <2>2, <2>3, <2>4, <2>5, PastTargetKeeps, SyncStepSets
  <1>9. CASE Cmd!GetClusterRoleBinding(r)
    <2>1. PICK s \in {"deleteBinding", "createBinding"} : Cmd!Goto(r, s)
      BY <1>9 DEF Cmd!GetClusterRoleBinding
    <2>2. Moves(r, s) /\ Keeps(r) BY <1>1, <1>2, <2>1, GotoMoves, SyncStepSets
    <2>3. cmd[r].at = "binding" /\ UNCHANGED CmdRest /\ UNCHANGED <<account, role, token, binding>>
      BY <1>9 DEF Cmd!GetClusterRoleBinding, Cmd!At, Cmd!owned, Cmd!bound, CmdRest
    <2>4. cmd[r].name = "sync" BY <1>3, <2>3, SyncStepSets
    <2>5. ~spoiled => cmd[r].uid \in account /\ cmd[r].uid \in role
      BY <2>3, <2>4, StepSetsSyncing, SyncStepSets
    <2> QED BY <2>1, <2>2, <2>3, <2>4, <2>5, PastTargetKeeps, SyncStepSets
  <1>10. CASE Cmd!DeleteClusterRoleBinding(r)
    <2>1. Cmd!Goto(r, "createBinding") BY <1>10 DEF Cmd!DeleteClusterRoleBinding, Cmd!AfterDeletion
    <2>2. Moves(r, "createBinding") /\ Keeps(r) BY <1>1, <1>2, <2>1, GotoMoves, SyncStepSets
    <2>3. cmd[r].at = "deleteBinding" /\ UNCHANGED CmdRest /\ UNCHANGED <<account, role, token>>
      BY <1>10 DEF Cmd!DeleteClusterRoleBinding, Cmd!At, Cmd!bound, CmdRest
    <2>4. cmd[r].name = "sync" BY <1>3, <2>3, SyncStepSets
    <2>5. ~spoiled => cmd[r].uid \in account /\ cmd[r].uid \in role
      BY <2>3, <2>4, StepSetsSyncing, SyncStepSets
    <2> QED BY <2>2, <2>3, <2>4, <2>5, PastTargetKeeps, SyncStepSets
  <1>11. CASE Cmd!CreateClusterRoleBinding(r)
    <2>1. Cmd!Goto(r, "token") BY <1>11 DEF Cmd!CreateClusterRoleBinding
    <2>2. Moves(r, "token") /\ Keeps(r) BY <1>1, <1>2, <2>1, GotoMoves, SyncStepSets
    <2>3. cmd[r].at = "createBinding" /\ UNCHANGED CmdRest /\ UNCHANGED <<account, role, token>>
          /\ binding' = binding \cup {cmd[r].uid}
      BY <1>11 DEF Cmd!CreateClusterRoleBinding, Cmd!At, Cmd!bound, CmdRest, Cmd!MergeOwnerReference
    <2>4. cmd[r].name = "sync" BY <1>3, <2>3, SyncStepSets
    <2>5. ~spoiled => cmd[r].uid \in account /\ cmd[r].uid \in role
      BY <2>3, <2>4, StepSetsSyncing, SyncStepSets
    <2> QED BY <2>2, <2>3, <2>4, <2>5, PastTargetKeeps, SyncStepSets
  <1>12. CASE Cmd!WaitForToken(r)
    <2>1. Cmd!Goto(r, "resources") BY <1>12 DEF Cmd!WaitForToken
    <2>2. Moves(r, "resources") /\ Keeps(r) BY <1>1, <1>2, <2>1, GotoMoves, SyncStepSets
    <2>3. cmd[r].at = "token" /\ UNCHANGED CmdRest /\ UNCHANGED <<account, role, token, binding>>
          /\ cmd[r].uid \in token
      BY <1>12 DEF Cmd!WaitForToken, Cmd!At, Cmd!owned, Cmd!bound, CmdRest
    <2>4. cmd[r].name = "sync" BY <1>3, <2>3, SyncStepSets
    <2>5. ~spoiled => cmd[r].uid \in account /\ cmd[r].uid \in role
      BY <2>3, <2>4, StepSetsSyncing, SyncStepSets
    <2> QED BY <2>2, <2>3, <2>4, <2>5, PastTargetKeeps, SyncStepSets
  <1>13. CASE Cmd!GetResourcesForPermission(r) \/ Cmd!RenderSyncerResources(r)
    <2>1. PICK s \in {"render", "done"} : Cmd!Goto(r, s)
      BY <1>13 DEF Cmd!GetResourcesForPermission, Cmd!RenderSyncerResources
    <2>2. Moves(r, s) /\ Keeps(r) BY <1>1, <1>2, <2>1, GotoMoves, SyncStepSets
    <2>3. cmd[r].at \in {"resources", "render"} /\ UNCHANGED CmdRest /\ UNCHANGED <<account, role, token, binding>>
      BY <1>13 DEF Cmd!GetResourcesForPermission, Cmd!RenderSyncerResources, Cmd!At, Cmd!owned, Cmd!bound, CmdRest
    <2>4. cmd[r].name = "sync" BY <1>3, <2>3, SyncStepSets
    <2>5. ~spoiled => cmd[r].uid \in account /\ cmd[r].uid \in role /\ cmd[r].uid \in token
      BY <2>3, <2>4, StepSetsSyncing, SyncStepSets
    <2> QED BY <2>1, <2>2, <2>3, <2>4, <2>5, PastTargetKeeps, SyncStepSets
  <1> QED BY <1>4, <1>5, <1>6, <1>7, <1>8, <1>9, <1>10, <1>11, <1>12, <1>13

(* A run reads or has written the list of the APIExport.                     *)
LEMMA ListedMoves ==
    ASSUME Cmd!CmdTypeOK, NEW r \in Runs, NEW l \in SUBSET Flags, NEW step \in Cmd!Steps,
           cmd' = [cmd EXCEPT ![r].listed = l, ![r].at = step]
    PROVE  Moves(r, step) /\ Keeps(r)
  <1>1. cmd \in [Runs -> Cmd!Run] BY DEF Cmd!CmdTypeOK
  <1>2. cmd' \in [Runs -> Cmd!Run]
    <2>1. \A c \in Cmd!Run : [c EXCEPT !.listed = l, !.at = step] \in Cmd!Run
      BY DEF Cmd!Run
    <2> DEFINE new == [cmd[r] EXCEPT !.listed = l, !.at = step]
    <2>2. cmd' = [cmd EXCEPT ![r] = new] OBVIOUS
    <2>3. new \in Cmd!Run BY <1>1, <2>1
    <2> HIDE DEF new
    <2> QED BY <1>1, <2>2, <2>3
  <1>3. \A q \in Runs : q # r => cmd'[q] = cmd[q] BY <1>1
  <1>4. /\ cmd'[r].name = cmd[r].name /\ cmd'[r].flags = cmd[r].flags /\ cmd'[r].at = step
        /\ cmd'[r].uid = cmd[r].uid /\ cmd'[r].todo = cmd[r].todo /\ cmd'[r].made = cmd[r].made
    BY <1>1 DEF Cmd!Run
  <1> QED BY <1>2, <1>3, <1>4 DEF Moves, Keeps

(* A run reads the SyncTarget (GetSyncTarget).                               *)
LEMMA SeenMoves ==
    ASSUME Cmd!CmdTypeOK, NEW r \in Runs, NEW t \in Cmd!SyncTarget \cup {None}, NEW u \in Nat \cup {None},
           NEW step \in Cmd!Steps,
           cmd' = [cmd EXCEPT ![r].seen = t, ![r].uid = u, ![r].at = step]
    PROVE  Moves(r, step) /\ cmd'[r].uid = u
  <1>1. cmd \in [Runs -> Cmd!Run] BY DEF Cmd!CmdTypeOK
  <1>2. cmd' \in [Runs -> Cmd!Run]
    <2>1. \A c \in Cmd!Run : [c EXCEPT !.seen = t, !.uid = u, !.at = step] \in Cmd!Run
      BY DEF Cmd!Run
    <2> DEFINE new == [cmd[r] EXCEPT !.seen = t, !.uid = u, !.at = step]
    <2>2. cmd' = [cmd EXCEPT ![r] = new] OBVIOUS
    <2>3. new \in Cmd!Run BY <1>1, <2>1
    <2> HIDE DEF new
    <2> QED BY <1>1, <2>2, <2>3
  <1>3. \A q \in Runs : q # r => cmd'[q] = cmd[q] BY <1>1
  <1>4. /\ cmd'[r].name = cmd[r].name /\ cmd'[r].flags = cmd[r].flags /\ cmd'[r].at = step
        /\ cmd'[r].uid = u
    BY <1>1 DEF Cmd!Run
  <1> QED BY <1>2, <1>3, <1>4 DEF Moves

(* A run knows the UID of the SyncTarget (CreateSyncTarget, PatchSyncTarget). *)
LEMMA UidMoves ==
    ASSUME Cmd!CmdTypeOK, NEW r \in Runs, NEW u \in Nat, NEW step \in Cmd!Steps,
           cmd' = [cmd EXCEPT ![r].uid = u, ![r].at = step]
    PROVE  Moves(r, step) /\ cmd'[r].uid = u
  <1>1. cmd \in [Runs -> Cmd!Run] BY DEF Cmd!CmdTypeOK
  <1>2. cmd' \in [Runs -> Cmd!Run]
    <2>1. \A c \in Cmd!Run : [c EXCEPT !.uid = u, !.at = step] \in Cmd!Run
      BY DEF Cmd!Run
    <2> DEFINE new == [cmd[r] EXCEPT !.uid = u, !.at = step]
    <2>2. cmd' = [cmd EXCEPT ![r] = new] OBVIOUS
    <2>3. new \in Cmd!Run BY <1>1, <2>1
    <2> HIDE DEF new
    <2> QED BY <1>1, <2>2, <2>3
  <1>3. \A q \in Runs : q # r => cmd'[q] = cmd[q] BY <1>1
  <1>4. /\ cmd'[r].name = cmd[r].name /\ cmd'[r].flags = cmd[r].flags /\ cmd'[r].at = step
        /\ cmd'[r].uid = u
    BY <1>1 DEF Cmd!Run
  <1> QED BY <1>2, <1>3, <1>4 DEF Moves

(* A step at the APIExport: its list only grows, and the run goes on with its *)
(* resources in it, or another has made the list meanwhile.                  *)
LEMMA ExportStepKeeps ==
    ASSUME Cmd!CmdIInv, NEW r \in Runs, NEW step \in {"createExport", "updateExport", "target"},
           Moves(r, step), Keeps(r), cmd[r].at \in Cmd!AtExport,
           UNCHANGED <<offer, spoiled, cmdTarget, lastUID, account, role, binding, token,
                       apiBinding, placement, cmdEvents>>,
           localExport' \in (SUBSET Flags) \cup {None},
           localExport # None => localExport' # None /\ localExport \subseteq localExport',
           step = "target" => localExport' # None,
           localExport' # None =>
             \/ step = "updateExport"
             \/ step = "target" /\ cmd[r].flags \in localExport'
             \/ cmd[r].at = "createExport" /\ localExport' = localExport
    PROVE  Cmd!CmdIInv'
  <1>1. Cmd!CmdTypeOK BY DEF Cmd!CmdIInv
  <1>2. cmd[r].name = "sync"
    <2>1. "done" \notin Cmd!AtExport BY DEF Cmd!AtExport
    <2> QED BY <1>1, <2>1, AtSync
  <1>3. /\ cmd' \in [Runs -> Cmd!Run]
        /\ \A q \in Runs : q # r => cmd'[q] = cmd[q]
        /\ cmd'[r].name = "sync" /\ cmd'[r].flags = cmd[r].flags /\ cmd'[r].at = step
    BY <1>2 DEF Moves
  <1>4. step \in Cmd!AtExport \cup Cmd!AtTarget
    BY DEF Cmd!AtExport, Cmd!AtTarget
  <1>5. Cmd!CmdTypeOK'
    <2>1. step \in Cmd!StepsOf(cmd[r].name) BY <1>2, <1>4 DEF Cmd!StepsOf, Cmd!PastExport
    <2>2. cmd[r].at # "idle" BY DEF Cmd!AtExport
    <2>3. \A q \in Runs : Cmd!IsOffered(q)'
      BY <1>1, <2>1, <2>2, MovesTyped
    <2> QED BY <1>1, <1>3, <2>3 DEF Cmd!CmdTypeOK
  <1> SUFFICES ASSUME ~spoiled
               PROVE  Cmd!TargetIsTheirs' /\ Cmd!ObjectsAreThere' /\ Cmd!ExportIsListed' /\ Cmd!BindingsAreThere'
    BY <1>5 DEF Cmd!CmdIInv
  <1>6. Cmd!TargetIsTheirs /\ Cmd!ObjectsAreThere /\ Cmd!ExportIsListed /\ Cmd!BindingsAreThere
    BY DEF Cmd!CmdIInv
  <1>7. step \notin Cmd!PastTarget /\ cmd[r].at \notin Cmd!PastTarget
    BY DEF Cmd!AtExport, Cmd!PastTarget, Cmd!PastAccount, Cmd!PastRole, Cmd!PastBinding, Cmd!PastToken
  <1>8. /\ Cmd!PastToken \subseteq Cmd!PastTarget /\ Cmd!PastBinding \subseteq Cmd!PastTarget
        /\ Cmd!PastRole \subseteq Cmd!PastTarget /\ Cmd!PastAccount \subseteq Cmd!PastTarget
        /\ "createBinding" \in Cmd!PastTarget /\ "createExport" \notin Cmd!PastTarget
        /\ cmd[r].at \notin Cmd!PastExport
    BY DEF Cmd!AtExport, Cmd!AtTarget, Cmd!PastExport, Cmd!PastTarget, Cmd!PastAccount, Cmd!PastRole,
           Cmd!PastBinding, Cmd!PastToken
  <1>9. \A q \in Runs : cmd'[q].at \in Cmd!PastTarget \/ cmd[q].at \in Cmd!PastTarget => cmd'[q] = cmd[q]
    BY <1>3, <1>7
  <1>10. Cmd!TargetIsTheirs'
    <2>1. r \in (Cmd!Syncing(Cmd!AtExport \cup Cmd!AtTarget))' BY <1>3, <1>4 DEF Cmd!Syncing
    <2>2. \A q \in (Cmd!Syncing(Cmd!PastTarget))' : q \in Cmd!Syncing(Cmd!PastTarget) /\ cmd'[q] = cmd[q]
      BY <1>9 DEF Cmd!Syncing
    <2> QED BY <1>6, <2>1, <2>2 DEF Cmd!TargetIsTheirs
  <1>11. Cmd!ObjectsAreThere'
    BY <1>6, <1>8, <1>9 DEF Cmd!ObjectsAreThere, Cmd!Syncing
  <1>12. Cmd!ExportIsListed'
    <2>0. \A q \in Runs : q # r => cmd'[q] = cmd[q] BY <1>3
    <2>1. (Cmd!Syncing(Cmd!PastExport))' # {} => localExport' # None
      <3>1. CASE step = "target" BY <3>1
      <3>2. CASE step # "target"
        <4>1. step \notin Cmd!PastExport
          BY <1>7, <3>2 DEF Cmd!PastExport, Cmd!AtTarget
        <4>2. (Cmd!Syncing(Cmd!PastExport))' \subseteq Cmd!Syncing(Cmd!PastExport)
          BY <1>3, <4>1 DEF Cmd!Syncing
        <4> QED BY <1>6, <4>2 DEF Cmd!ExportIsListed
      <3> QED BY <3>1, <3>2
    <2>2. ASSUME localExport' # None
          PROVE  \/ \E q \in (Cmd!Syncing(Cmd!PastExport))' : cmd'[q].flags \in localExport'
                 \/ (Cmd!Syncing({"export", "updateExport"}))' # {}
                 \/ (Cmd!Syncing(Cmd!PastExport \cup {"createExport"}))' = {}
      <3>1. CASE step = "updateExport"
        <4>1. r \in (Cmd!Syncing({"export", "updateExport"}))' BY <1>3, <3>1 DEF Cmd!Syncing
        <4> QED BY <4>1
      <3>2. CASE step = "target" /\ cmd[r].flags \in localExport'
        <4>1. r \in (Cmd!Syncing(Cmd!PastExport))'
          BY <1>3, <3>2 DEF Cmd!Syncing, Cmd!PastExport, Cmd!AtTarget
        <4> QED BY <1>3, <3>2, <4>1
      <3>3. CASE cmd[r].at = "createExport" /\ localExport' = localExport
        <4>1. r \in Cmd!Syncing(Cmd!PastExport \cup {"createExport"}) BY <1>2, <3>3 DEF Cmd!Syncing
        <4>2. CASE \E q \in Cmd!Syncing(Cmd!PastExport) : cmd[q].flags \in localExport
          <5>1. PICK q \in Cmd!Syncing(Cmd!PastExport) : cmd[q].flags \in localExport BY <4>2
          <5>2. q # r BY <1>8, <5>1 DEF Cmd!Syncing
          <5>3. q \in (Cmd!Syncing(Cmd!PastExport))' /\ cmd'[q].flags \in localExport'
            BY <2>0, <3>3, <5>1, <5>2 DEF Cmd!Syncing
          <5> QED BY <5>3
        <4>3. CASE Cmd!Syncing({"export", "updateExport"}) # {}
          <5>1. PICK q \in Cmd!Syncing({"export", "updateExport"}) : TRUE BY <4>3
          <5>2. q # r BY <3>3, <5>1 DEF Cmd!Syncing
          <5>3. q \in (Cmd!Syncing({"export", "updateExport"}))' BY <2>0, <5>1, <5>2 DEF Cmd!Syncing
          <5> QED BY <5>3
        <4> QED BY <1>6, <2>2, <3>3, <4>1, <4>2, <4>3 DEF Cmd!ExportIsListed
      <3> QED BY <2>2, <3>1, <3>2, <3>3
    <2> QED BY <2>1, <2>2 DEF Cmd!ExportIsListed
  <1>13. Cmd!BindingsAreThere'
    BY <1>3, <1>6 DEF Cmd!BindingsAreThere, Cmd!FoundBound, Cmd!At, Cmd!Done, Cmd!BindingsReady
  <1> QED BY <1>10, <1>11, <1>12, <1>13

(* A step at the SyncTarget: it keeps its UID, and the run that goes on has  *)
(* patched it or found it as it wants it.                                    *)
LEMMA TargetStepKeeps ==
    ASSUME Cmd!CmdIInv, NEW r \in Runs, NEW step \in {"createTarget", "patchTarget", "account"},
           Moves(r, step), cmd[r].at \in Cmd!AtTarget,
           UNCHANGED <<offer, spoiled, localExport, account, role, binding, token, apiBinding, placement,
                       cmdEvents>>,
           cmdTarget' \in Cmd!SyncTarget \cup {None}, lastUID' \in Nat,
           cmdTarget # None => cmdTarget' # None /\ cmdTarget'.uid = cmdTarget.uid,
           step = "account" => /\ cmdTarget' # None /\ cmd'[r].uid = cmdTarget'.uid
                               /\ cmd[r].flags = cmdTarget'.exports
    PROVE  Cmd!CmdIInv'
  <1>1. Cmd!CmdTypeOK BY DEF Cmd!CmdIInv
  <1>2. cmd[r].name = "sync"
    <2>1. "done" \notin Cmd!AtTarget BY DEF Cmd!AtTarget
    <2> QED BY <1>1, <2>1, AtSync, SyncStepSets
  <1>3. /\ cmd' \in [Runs -> Cmd!Run]
        /\ \A q \in Runs : q # r => cmd'[q] = cmd[q]
        /\ cmd'[r].name = "sync" /\ cmd'[r].flags = cmd[r].flags /\ cmd'[r].at = step
    BY <1>2 DEF Moves
  <1>4. step \in Cmd!PastExport /\ cmd[r].at \in Cmd!PastExport /\ step \notin Cmd!AtExport
        /\ cmd[r].at \notin Cmd!AtExport
    BY DEF Cmd!AtExport, Cmd!AtTarget, Cmd!PastExport, Cmd!PastTarget
  <1>5. Cmd!CmdTypeOK'
    <2>1. step \in Cmd!StepsOf(cmd[r].name) BY <1>2, <1>4 DEF Cmd!StepsOf
    <2>2. cmd[r].at # "idle" BY DEF Cmd!AtTarget
    <2>3. \A q \in Runs : Cmd!IsOffered(q)'
      BY <1>1, <2>1, <2>2, MovesTyped
    <2> QED BY <1>1, <1>3, <2>3 DEF Cmd!CmdTypeOK
  <1> SUFFICES ASSUME ~spoiled
               PROVE  Cmd!TargetIsTheirs' /\ Cmd!ObjectsAreThere' /\ Cmd!ExportIsListed' /\ Cmd!BindingsAreThere'
    BY <1>5 DEF Cmd!CmdIInv
  <1>6. Cmd!TargetIsTheirs /\ Cmd!ObjectsAreThere /\ Cmd!ExportIsListed /\ Cmd!BindingsAreThere
    BY DEF Cmd!CmdIInv
  <1>7. step \notin Cmd!PastAccount /\ cmd[r].at \notin Cmd!PastTarget
    BY DEF Cmd!AtTarget, Cmd!PastTarget, Cmd!PastAccount, Cmd!PastRole, Cmd!PastBinding, Cmd!PastToken
  <1>8. /\ Cmd!PastToken \subseteq Cmd!PastAccount /\ Cmd!PastBinding \subseteq Cmd!PastAccount
        /\ Cmd!PastRole \subseteq Cmd!PastAccount /\ Cmd!PastAccount \subseteq Cmd!PastTarget
        /\ "createBinding" \in Cmd!PastAccount
    BY DEF Cmd!PastTarget, Cmd!PastAccount, Cmd!PastRole, Cmd!PastBinding
  <1>9. \A q \in Runs : cmd'[q].at \in Cmd!PastAccount \/ cmd[q].at \in Cmd!PastAccount => cmd'[q] = cmd[q]
    BY <1>3, <1>7, <1>8
  <1>10. Cmd!TargetIsTheirs'
    <2>1. \A q \in Runs : q # r /\ cmd'[q].name = "sync" /\ cmd'[q].at \in Cmd!PastTarget =>
            cmdTarget' # None /\ cmd'[q].uid = cmdTarget'.uid
      BY <1>3, <1>6 DEF Cmd!TargetIsTheirs, Cmd!Syncing
    <2>2. CASE step = "account"
      <3>1. r \in (Cmd!Syncing(Cmd!PastTarget))' BY <1>3, <2>2 DEF Cmd!Syncing, Cmd!PastTarget
      <3>2. cmd'[r].flags = cmdTarget'.exports BY <1>3, <2>2
      <3>3. \A q \in (Cmd!Syncing(Cmd!PastTarget))' : cmdTarget' # None /\ cmd'[q].uid = cmdTarget'.uid
        BY <2>1, <2>2 DEF Cmd!Syncing
      <3> QED BY <3>1, <3>2, <3>3 DEF Cmd!TargetIsTheirs
    <2>3. CASE step # "account"
      <3>1. r \in (Cmd!Syncing(Cmd!AtExport \cup Cmd!AtTarget))'
        BY <1>3, <2>3 DEF Cmd!Syncing, Cmd!AtTarget
      <3>2. step \notin Cmd!PastTarget BY <1>7, <2>3 DEF Cmd!PastTarget
      <3>3. \A q \in (Cmd!Syncing(Cmd!PastTarget))' : cmdTarget' # None /\ cmd'[q].uid = cmdTarget'.uid
        BY <1>3, <2>1, <3>2 DEF Cmd!Syncing
      <3> QED BY <3>1, <3>3 DEF Cmd!TargetIsTheirs
    <2> QED BY <2>2, <2>3
  <1>11. Cmd!ObjectsAreThere'
    BY <1>6, <1>8, <1>9 DEF Cmd!ObjectsAreThere, Cmd!Syncing
  <1>12. Cmd!ExportIsListed'
    <2>1. /\ (Cmd!Syncing(Cmd!PastExport))' = Cmd!Syncing(Cmd!PastExport)
          /\ (Cmd!Syncing(Cmd!PastExport \cup {"createExport"}))' = Cmd!Syncing(Cmd!PastExport \cup {"createExport"})
      BY <1>2, <1>3, <1>4 DEF Cmd!Syncing
    <2>2. (Cmd!Syncing({"export", "updateExport"}))' = Cmd!Syncing({"export", "updateExport"})
      BY <1>3, <1>4 DEF Cmd!Syncing, Cmd!AtExport
    <2>3. \A q \in Cmd!Syncing(Cmd!PastExport) : cmd'[q].flags = cmd[q].flags BY <1>3 DEF Cmd!Syncing
    <2> QED BY <1>6, <2>1, <2>2, <2>3 DEF Cmd!ExportIsListed
  <1>13. Cmd!BindingsAreThere'
    BY <1>3, <1>6 DEF Cmd!BindingsAreThere, Cmd!FoundBound, Cmd!At, Cmd!Done, Cmd!BindingsReady
  <1> QED BY <1>10, <1>11, <1>12, <1>13

(* The APIExport and the SyncTarget, read and written by several at once.    *)
LEMMA SyncBeginsKeep ==
    ASSUME Cmd!CmdIInv, NEW r \in Runs,
           \/ Cmd!GetLocalExport(r) \/ Cmd!CreateLocalExport(r) \/ Cmd!UpdateLocalExport(r)
           \/ Cmd!GetSyncTarget(r) \/ Cmd!CreateSyncTarget(r) \/ Cmd!PatchSyncTarget(r)
    PROVE  Cmd!CmdIInv'
  <1>1. /\ Cmd!CmdTypeOK /\ cmd \in [Runs -> Cmd!Run] /\ localExport \in (SUBSET Flags) \cup {None}
        /\ cmdTarget \in Cmd!SyncTarget \cup {None} /\ lastUID \in Nat
    BY DEF Cmd!CmdIInv, Cmd!CmdTypeOK
  <1>2. /\ {"createExport", "updateExport", "target", "createTarget", "patchTarget", "account"} \subseteq Cmd!Steps
        /\ {"export", "createExport", "updateExport"} \subseteq Cmd!AtExport
        /\ {"target", "createTarget", "patchTarget"} \subseteq Cmd!AtTarget
        /\ "done" \notin Cmd!AtExport \cup Cmd!AtTarget
    BY DEF Cmd!Steps, Cmd!PastExport, Cmd!AtExport, Cmd!AtTarget, Cmd!PastTarget
  <1>3. ASSUME cmd[r].at \in Cmd!AtExport \cup Cmd!AtTarget PROVE cmd[r].flags \in Flags
    BY <1>1, <1>2, <1>3, AtSync, SyncStepSets
  <1>4. CASE Cmd!GetLocalExport(r)
    <2>1. cmd[r].at = "export" /\ UNCHANGED <<offer, spoiled, cmdTarget, lastUID, localExport, account, role,
            binding, token, apiBinding, placement, cmdEvents>>
      BY <1>4 DEF Cmd!GetLocalExport, Cmd!At, Cmd!owned, Cmd!bound
    <2>2. CASE localExport = None /\ Cmd!Goto(r, "createExport")
      <3>1. Moves(r, "createExport") /\ Keeps(r) BY <1>1, <1>2, <2>2, GotoMoves
      <3> QED BY <1>1, <1>2, <2>1, <2>2, <3>1, ExportStepKeeps
    <2>3. CASE localExport # None /\ cmd[r].flags \in localExport /\ Cmd!Goto(r, "target")
      <3>1. Moves(r, "target") /\ Keeps(r) BY <1>1, <1>2, <2>3, GotoMoves
      <3> QED BY <1>1, <1>2, <2>1, <2>3, <3>1, ExportStepKeeps
    <2>4. CASE localExport # None /\ cmd' = [cmd EXCEPT ![r].listed = localExport, ![r].at = "updateExport"]
      <3>0. localExport \in SUBSET Flags BY <1>1, <2>4
      <3>1. Moves(r, "updateExport") /\ Keeps(r) BY <1>1, <1>2, <2>4, <3>0, ListedMoves
      <3> QED BY <1>1, <1>2, <2>1, <2>4, <3>1, ExportStepKeeps
    <2> QED BY <1>4, <2>2, <2>3, <2>4 DEF Cmd!GetLocalExport
  <1>5. CASE Cmd!CreateLocalExport(r)
    <2>1. cmd[r].at = "createExport" /\ UNCHANGED <<offer, spoiled, cmdTarget, lastUID, account, role,
            binding, token, apiBinding, placement, cmdEvents>>
      BY <1>5 DEF Cmd!CreateLocalExport, Cmd!At, Cmd!owned, Cmd!bound
    <2>2. Cmd!Goto(r, "target") /\ localExport' = IF localExport = None THEN {cmd[r].flags} ELSE localExport
      BY <1>5 DEF Cmd!CreateLocalExport, Cmd!MergeLatestResourceSchema
    <2>3. Moves(r, "target") /\ Keeps(r) BY <1>1, <1>2, <2>2, GotoMoves
    <2>4. cmd[r].flags \in Flags BY <1>2, <1>3, <2>1
    <2>5. localExport' \in SUBSET Flags /\ localExport' # None
      <3>1. CASE localExport = None
        <4>1. localExport' = {cmd[r].flags} BY <2>2, <3>1
        <4>2. localExport' \in SUBSET Flags BY <2>4, <4>1
        <4> QED BY <4>2, CmdConstants DEF Cmd!Constants
      <3>2. CASE localExport # None BY <1>1, <2>2, <3>2
      <3> QED BY <3>1, <3>2
    <2> QED BY <1>1, <1>2, <2>1, <2>2, <2>3, <2>5, ExportStepKeeps
  <1>6. CASE Cmd!UpdateLocalExport(r)
    <2>1. cmd[r].at = "updateExport" /\ UNCHANGED <<offer, spoiled, cmdTarget, lastUID, account, role,
            binding, token, apiBinding, placement, cmdEvents>>
      BY <1>6 DEF Cmd!UpdateLocalExport, Cmd!At, Cmd!owned, Cmd!bound
    <2>2. /\ cmd' = [cmd EXCEPT ![r].listed = {}, ![r].at = "target"]
          /\ localExport' = localExport \cup {cmd[r].flags} /\ localExport = cmd[r].listed
      BY <1>6 DEF Cmd!UpdateLocalExport, Cmd!MergeLatestResourceSchema
    <2>3. Moves(r, "target") /\ Keeps(r) BY <1>1, <1>2, <2>2, ListedMoves
    <2>4. cmd[r].flags \in Flags /\ localExport \in SUBSET Flags BY <1>1, <1>2, <1>3, <2>1, <2>2 DEF Cmd!Run
    <2>5. localExport' \in SUBSET Flags /\ localExport' # None
      BY <2>2, <2>4, CmdConstants DEF Cmd!Constants
    <2> QED BY <1>1, <1>2, <2>1, <2>2, <2>3, <2>5, ExportStepKeeps
  <1>7. CASE Cmd!GetSyncTarget(r)
    <2>1. cmd[r].at = "target" /\ UNCHANGED <<offer, spoiled, cmdTarget, lastUID, localExport, account, role,
            binding, token, apiBinding, placement, cmdEvents>>
      BY <1>7 DEF Cmd!GetSyncTarget, Cmd!At, Cmd!owned, Cmd!bound
    <2> DEFINE step == IF cmdTarget = None THEN "createTarget"
                       ELSE IF cmdTarget.exports = cmd[r].flags THEN "account" ELSE "patchTarget"
               u == IF cmdTarget = None THEN None ELSE cmdTarget.uid
    <2>2. cmd' = [cmd EXCEPT ![r].seen = cmdTarget, ![r].uid = u, ![r].at = step]
      BY <1>7 DEF Cmd!GetSyncTarget, Cmd!UIDOf
    <2>3. u \in Nat \cup {None} BY <1>1 DEF Cmd!SyncTarget
    <2>4. step \in {"createTarget", "patchTarget", "account"} OBVIOUS
    <2>5. step \in Cmd!Steps BY <1>2
    <2>6. step = "account" => cmdTarget # None /\ u = cmdTarget.uid /\ cmd[r].flags = cmdTarget.exports
      OBVIOUS
    <2> HIDE DEF step, u
    <2>7. Moves(r, step) /\ cmd'[r].uid = u BY <1>1, <2>2, <2>3, <2>5, SeenMoves
    <2> QED BY <1>1, <1>2, <2>1, <2>4, <2>6, <2>7, TargetStepKeeps
  <1>8. CASE Cmd!CreateSyncTarget(r)
    <2>1. cmd[r].at = "createTarget" /\ UNCHANGED <<offer, spoiled, localExport, account, role,
            binding, token, apiBinding, placement, cmdEvents>>
      BY <1>8 DEF Cmd!CreateSyncTarget, Cmd!At, Cmd!owned, Cmd!bound
    <2>2. CASE cmdTarget = None
      <3>1. /\ lastUID' = lastUID + 1
            /\ cmdTarget' = [uid |-> lastUID', exports |-> cmd[r].flags, unschedulable |-> FALSE, evict |-> FALSE]
            /\ cmd' = [cmd EXCEPT ![r].uid = lastUID', ![r].at = "account"]
        BY <1>8, <2>2 DEF Cmd!CreateSyncTarget
      <3>2. lastUID' \in Nat BY <1>1, <3>1
      <3>3. Moves(r, "account") /\ cmd'[r].uid = lastUID' BY <1>1, <1>2, <3>1, <3>2, UidMoves
      <3>4. cmd[r].flags \in Flags BY <1>2, <1>3, <2>1
      <3>5. cmdTarget' \in Cmd!SyncTarget BY <3>1, <3>2, <3>4 DEF Cmd!SyncTarget
      <3>6. cmdTarget' # None BY <3>5, CmdConstants DEF Cmd!Constants
      <3>7. cmdTarget'.uid = lastUID' /\ cmdTarget'.exports = cmd[r].flags BY <3>1
      <3> QED BY <1>2, <2>1, <2>2, <3>2, <3>3, <3>5, <3>6, <3>7, TargetStepKeeps
    <2>3. CASE cmdTarget # None
      <3>1. Cmd!Goto(r, "patchTarget") /\ UNCHANGED <<cmdTarget, lastUID>>
        BY <1>8, <2>3 DEF Cmd!CreateSyncTarget
      <3>2. Moves(r, "patchTarget") BY <1>1, <1>2, <3>1, GotoMoves
      <3> QED BY <1>1, <1>2, <2>1, <3>1, <3>2, TargetStepKeeps
    <2> QED BY <2>2, <2>3
  <1>9. CASE Cmd!PatchSyncTarget(r)
    <2>1. cmd[r].at = "patchTarget" /\ UNCHANGED <<offer, spoiled, lastUID, localExport, account, role,
            binding, token, apiBinding, placement, cmdEvents>>
      BY <1>9 DEF Cmd!PatchSyncTarget, Cmd!At, Cmd!owned, Cmd!bound
    <2>2. /\ cmdTarget # None /\ cmdTarget' = [cmdTarget EXCEPT !.exports = cmd[r].flags]
          /\ cmd' = [cmd EXCEPT ![r].uid = cmdTarget.uid, ![r].at = "account"]
      BY <1>9 DEF Cmd!PatchSyncTarget
    <2>3. cmdTarget \in Cmd!SyncTarget BY <1>1, <2>2
    <2>4. cmd[r].flags \in Flags BY <1>2, <1>3, <2>1
    <2>5. cmdTarget' \in Cmd!SyncTarget /\ cmdTarget'.uid = cmdTarget.uid /\ cmdTarget'.exports = cmd[r].flags
      BY <2>2, <2>3, <2>4 DEF Cmd!SyncTarget
    <2>6. cmdTarget' # None BY <2>5, CmdConstants DEF Cmd!Constants
    <2>7. cmdTarget.uid \in Nat BY <2>3 DEF Cmd!SyncTarget
    <2>8. Moves(r, "account") /\ cmd'[r].uid = cmdTarget.uid BY <1>1, <1>2, <2>2, <2>7, UidMoves
    <2> QED BY <1>1, <1>2, <2>1, <2>5, <2>6, <2>8, TargetStepKeeps
  <1> QED BY <1>4, <1>5, <1>6, <1>7, <1>8, <1>9

(* Runs of other commands leave what is known about workload sync.           *)
LEMMA SyncStays ==
    ASSUME Cmd!CmdIInv, ~spoiled, cmd' \in [Runs -> Cmd!Run],
           \A q \in Runs : cmd'[q] # cmd[q] => cmd[q].name # "sync" /\ cmd'[q].name # "sync",
           UNCHANGED <<localExport, account, role, binding, token>>,
           cmdTarget' = cmdTarget \/ \A q \in Runs : cmd[q].name # "sync"
    PROVE  Cmd!TargetIsTheirs' /\ Cmd!ObjectsAreThere' /\ Cmd!ExportIsListed'
  <1>1. Cmd!TargetIsTheirs /\ Cmd!ObjectsAreThere /\ Cmd!ExportIsListed
    BY DEF Cmd!CmdIInv
  <1>3. \A S : \A q \in Cmd!Syncing(S) : cmd'[q] = cmd[q] BY DEF Cmd!Syncing
  <1>5. Cmd!TargetIsTheirs'
    <2>1. CASE cmdTarget' = cmdTarget BY <1>1, <1>3, <2>1 DEF Cmd!TargetIsTheirs, Cmd!Syncing
    <2>2. CASE \A q \in Runs : cmd[q].name # "sync" BY <2>2 DEF Cmd!TargetIsTheirs, Cmd!Syncing
    <2> QED BY <2>1, <2>2
  <1>6. Cmd!ObjectsAreThere' BY <1>1 DEF Cmd!ObjectsAreThere, Cmd!Syncing
  <1>7. Cmd!ExportIsListed' BY <1>1 DEF Cmd!ExportIsListed, Cmd!Syncing
  <1> QED BY <1>5, <1>6, <1>7

OtherSteps == {"list", "apply", "placement", "waitPlacement", "create", "waitBound", "look", "patch"}

(* What the exports and the placement may become as long as nobody deletes.  *)
OnlyAdded ==
    /\ apiBinding' \in [Exports -> {None, "binding", "bound"}] /\ placement' \in {None, "pending", "ready"}
    /\ \A e \in Exports : /\ apiBinding[e] # None => apiBinding'[e] # None
                          /\ apiBinding[e] = "bound" => apiBinding'[e] = "bound"
    /\ placement # None => placement' # None
    /\ placement = "ready" => placement' = "ready"

(* The runs that do not move keep what they have found.                      *)
LEMMA FoundStays ==
    ASSUME Cmd!CmdTypeOK, NEW q \in Runs, Cmd!FoundBound(q), cmd'[q] = cmd[q], OnlyAdded
    PROVE  Cmd!FoundBound(q)'
  <1>1. cmd[q] \in Cmd!Run BY DEF Cmd!CmdTypeOK
  <1>2. \A e \in cmd[q].made : e # None => e \in Exports
    BY <1>1 DEF Cmd!Run
  <1>3. Cmd!BindingsReady(q) => Cmd!BindingsReady(q)'
    BY <1>2 DEF Cmd!BindingsReady, OnlyAdded
  <1> QED BY <1>1, <1>3 DEF Cmd!FoundBound, Cmd!At, Cmd!Done, OnlyAdded

(* A step of another command.                                                *)
LEMMA OtherStepKeeps ==
    ASSUME Cmd!CmdIInv, NEW r \in Runs, NEW step \in Cmd!Steps, Moves(r, step),
           cmd[r].at \in OtherSteps, step \in Cmd!StepsOf(cmd[r].name),
           UNCHANGED <<offer, spoiled, lastUID, localExport, account, role, binding, token, cmdEvents>>,
           cmdTarget' \in Cmd!SyncTarget \cup {None}, OnlyAdded,
           cmdTarget' = cmdTarget \/ cmd[r].at \in {"look", "patch"},
           ~spoiled => Cmd!FoundBound(r)'
    PROVE  Cmd!CmdIInv'
  <1>1. Cmd!CmdTypeOK BY DEF Cmd!CmdIInv
  <1>2. cmd[r].at # "idle" BY DEF OtherSteps
  <1>3. cmd[r].at \in Cmd!StepsOf(cmd[r].name) /\ cmd[r].name \in offer /\ cmd[r].name # "sync" /\ "sync" \notin offer
    <2>1. cmd[r].at \in Cmd!StepsOf(cmd[r].name) /\ cmd[r].name \in offer /\ offer \in Offers
      BY <1>1, <1>2 DEF Cmd!CmdTypeOK, Cmd!IsOffered, OtherSteps
    <2>2. cmd[r].name # "sync"
      BY <2>1 DEF OtherSteps, Cmd!StepsOf, Cmd!AtExport, Cmd!PastExport, Cmd!AtTarget, Cmd!PastTarget,
             Cmd!PastAccount, Cmd!PastRole, Cmd!PastBinding, Cmd!PastToken
    <2> QED BY <2>1, <2>2, CmdConstants DEF Cmd!Constants
  <1>4. /\ cmd' \in [Runs -> Cmd!Run]
        /\ \A q \in Runs : q # r => cmd'[q] = cmd[q]
        /\ cmd'[r].name = cmd[r].name
    BY DEF Moves
  <1>5. Cmd!CmdTypeOK'
    <2>1. \A q \in Runs : Cmd!IsOffered(q)' BY <1>1, <1>2, MovesTyped
    <2> QED BY <1>1, <1>4, <2>1 DEF Cmd!CmdTypeOK, OnlyAdded
  <1> SUFFICES ASSUME ~spoiled
               PROVE  Cmd!TargetIsTheirs' /\ Cmd!ObjectsAreThere' /\ Cmd!ExportIsListed' /\ Cmd!BindingsAreThere'
    BY <1>5 DEF Cmd!CmdIInv
  <1>6. \A q \in Runs : cmd[q].name # "sync"
    <2>1. \A q \in Runs : cmd[q].name \in offer \cup {None} BY <1>1 DEF Cmd!CmdTypeOK, Cmd!IsOffered
    <2>2. None # "sync" BY CmdConstants DEF Cmd!Constants, Cmd!CmdNames
    <2> QED BY <1>3, <2>1, <2>2
  <1>7. Cmd!TargetIsTheirs' /\ Cmd!ObjectsAreThere' /\ Cmd!ExportIsListed'
    BY <1>3, <1>4, <1>6, SyncStays
  <1>8. Cmd!BindingsAreThere'
    <2>1. ASSUME NEW q \in Runs, q # r PROVE Cmd!FoundBound(q)'
      <3>1. Cmd!FoundBound(q) /\ cmd'[q] = cmd[q] BY <1>4, <2>1 DEF Cmd!CmdIInv, Cmd!BindingsAreThere
      <3> QED BY <1>1, <3>1, FoundStays
    <2> QED BY <2>1 DEF Cmd!BindingsAreThere
  <1> QED BY <1>7, <1>8

(* The exports without an APIBinding (ListAPIBindings).                      *)
LEMMA TodoMoves ==
    ASSUME Cmd!CmdTypeOK, NEW r \in Runs, NEW t \in SUBSET Exports,
           cmd' = [cmd EXCEPT ![r].at = "apply", ![r].todo = t]
    PROVE  Moves(r, "apply") /\ cmd'[r].todo = t
  <1>1. cmd \in [Runs -> Cmd!Run] BY DEF Cmd!CmdTypeOK
  <1>2. cmd' \in [Runs -> Cmd!Run]
    <2>1. \A c \in Cmd!Run : [c EXCEPT !.at = "apply", !.todo = t] \in Cmd!Run
      BY DEF Cmd!Run, Cmd!Steps
    <2> DEFINE new == [cmd[r] EXCEPT !.at = "apply", !.todo = t]
    <2>2. cmd' = [cmd EXCEPT ![r] = new] OBVIOUS
    <2>3. new \in Cmd!Run BY <1>1, <2>1
    <2> HIDE DEF new
    <2> QED BY <1>1, <2>2, <2>3
  <1>3. \A q \in Runs : q # r => cmd'[q] = cmd[q] BY <1>1
  <1>4. /\ cmd'[r].name = cmd[r].name /\ cmd'[r].flags = cmd[r].flags /\ cmd'[r].at = "apply"
        /\ cmd'[r].todo = t
    BY <1>1 DEF Cmd!Run
  <1> QED BY <1>2, <1>3, <1>4 DEF Moves

(* An APIBinding is made or met (ApplyAPIBinding).                           *)
LEMMA MadeMoves ==
    ASSUME Cmd!CmdTypeOK, NEW r \in Runs, NEW t \in SUBSET Exports, NEW m \in SUBSET (Exports \cup {None}),
           cmd' = [cmd EXCEPT ![r].todo = t, ![r].made = m]
    PROVE  Moves(r, cmd[r].at) /\ cmd'[r].todo = t
  <1>1. cmd \in [Runs -> Cmd!Run] BY DEF Cmd!CmdTypeOK
  <1>2. cmd' \in [Runs -> Cmd!Run]
    <2>1. \A c \in Cmd!Run : [c EXCEPT !.todo = t, !.made = m] \in Cmd!Run
      BY DEF Cmd!Run
    <2> DEFINE new == [cmd[r] EXCEPT !.todo = t, !.made = m]
    <2>2. cmd' = [cmd EXCEPT ![r] = new] OBVIOUS
    <2>3. new \in Cmd!Run BY <1>1, <2>1
    <2> HIDE DEF new
    <2> QED BY <1>1, <2>2, <2>3
  <1>3. \A q \in Runs : q # r => cmd'[q] = cmd[q] BY <1>1
  <1>4. /\ cmd'[r].name = cmd[r].name /\ cmd'[r].flags = cmd[r].flags /\ cmd'[r].at = cmd[r].at
        /\ cmd'[r].todo = t
    BY <1>1 DEF Cmd!Run
  <1> QED BY <1>2, <1>3, <1>4 DEF Moves

(* An APIBinding is made (CreateAPIBinding).                                 *)
LEMMA WaitMoves ==
    ASSUME Cmd!CmdTypeOK, NEW r \in Runs, NEW e \in Exports,
           cmd' = [cmd EXCEPT ![r].at = "waitBound", ![r].made = {e}]
    PROVE  Moves(r, "waitBound")
  <1>1. cmd \in [Runs -> Cmd!Run] BY DEF Cmd!CmdTypeOK
  <1>2. cmd' \in [Runs -> Cmd!Run]
    <2>1. \A c \in Cmd!Run : [c EXCEPT !.at = "waitBound", !.made = {e}] \in Cmd!Run
      BY DEF Cmd!Run, Cmd!Steps
    <2> DEFINE new == [cmd[r] EXCEPT !.at = "waitBound", !.made = {e}]
    <2>2. cmd' = [cmd EXCEPT ![r] = new] OBVIOUS
    <2>3. new \in Cmd!Run BY <1>1, <2>1
    <2> HIDE DEF new
    <2> QED BY <1>1, <2>2, <2>3
  <1>3. \A q \in Runs : q # r => cmd'[q] = cmd[q] BY <1>1
  <1>4. /\ cmd'[r].name = cmd[r].name /\ cmd'[r].flags = cmd[r].flags /\ cmd'[r].at = "waitBound"
    BY <1>1 DEF Cmd!Run
  <1> QED BY <1>2, <1>3, <1>4 DEF Moves

(* bind compute and bind apiexport.                                          *)
LEMMA BindKeeps ==
    ASSUME Cmd!CmdIInv, NEW r \in Runs, Cmd!Bind(r)
    PROVE  Cmd!CmdIInv'
  <1>1. /\ Cmd!CmdTypeOK /\ cmd \in [Runs -> Cmd!Run] /\ cmdTarget \in Cmd!SyncTarget \cup {None}
        /\ apiBinding \in [Exports -> {None, "binding", "bound"}] /\ placement \in {None, "pending", "ready"}
        /\ Cmd!IsOffered(r)
    BY DEF Cmd!CmdIInv, Cmd!CmdTypeOK
  <1>2. {"apply", "placement", "waitPlacement", "waitBound", "done"} \subseteq Cmd!Steps
    BY DEF Cmd!Steps, Cmd!PastExport, Cmd!PastTarget, Cmd!PastAccount, Cmd!PastRole, Cmd!PastBinding, Cmd!PastToken
  <1>3. None \notin {"binding", "bound", "pending", "ready"} BY CmdConstants DEF Cmd!Constants
  <1>4. ASSUME cmd[r].at \in OtherSteps PROVE cmd[r].at \in Cmd!StepsOf(cmd[r].name) /\ cmd[r].name \in Cmd!CmdNames
    <2>1. cmd[r].at # "idle" /\ cmd[r].at # "failed" BY <1>4 DEF OtherSteps
    <2> QED BY <1>1, <2>1, CmdConstants DEF Cmd!IsOffered, Cmd!Constants, Cmd!CmdTypeOK
  <1>5. ASSUME cmd[r].at \in {"list", "apply", "placement", "waitPlacement"}
        PROVE  cmd[r].name = "bind" /\ cmd[r].at \in OtherSteps
    <2>1. cmd[r].at \in OtherSteps BY <1>5 DEF OtherSteps
    <2> QED BY <1>4, <1>5, <2>1 DEF Cmd!StepsOf, Cmd!AtExport, Cmd!PastExport, Cmd!AtTarget, Cmd!PastTarget,
             Cmd!PastAccount, Cmd!PastRole, Cmd!PastBinding, Cmd!PastToken
  <1>6. ASSUME cmd[r].at \in {"create", "waitBound"}
        PROVE  cmd[r].name = "apiexport" /\ cmd[r].at \in OtherSteps
    <2>1. cmd[r].at \in OtherSteps BY <1>6 DEF OtherSteps
    <2> QED BY <1>4, <1>6, <2>1 DEF Cmd!StepsOf, Cmd!AtExport, Cmd!PastExport, Cmd!AtTarget, Cmd!PastTarget,
             Cmd!PastAccount, Cmd!PastRole, Cmd!PastBinding, Cmd!PastToken
  <1>7. ~spoiled => Cmd!FoundBound(r) BY DEF Cmd!CmdIInv, Cmd!BindingsAreThere
  <1>8. CASE Cmd!ListAPIBindings(r)
    <2>1. /\ cmd[r].at = "list" /\ UNCHANGED <<offer, spoiled, cmdTarget, lastUID, localExport, account, role,
               binding, token, apiBinding, placement, cmdEvents>>
          /\ cmd' = [cmd EXCEPT ![r].at = "apply", ![r].todo = {e \in Exports : apiBinding[e] = None}]
      BY <1>8 DEF Cmd!ListAPIBindings, Cmd!At, Cmd!owned, Cmd!bound
    <2>2. Moves(r, "apply") /\ cmd'[r].todo = {e \in Exports : apiBinding[e] = None}
      BY <1>1, <1>2, <2>1, TodoMoves
    <2>3. cmd[r].name = "bind" /\ cmd[r].at \in OtherSteps BY <1>5, <2>1
    <2>4. Cmd!FoundBound(r)' BY <2>1, <2>2 DEF Cmd!FoundBound, Cmd!At, Cmd!Done, Moves
    <2>5. OnlyAdded BY <1>1, <2>1 DEF OnlyAdded
    <2>6. "apply" \in Cmd!StepsOf(cmd[r].name) BY <2>3 DEF Cmd!StepsOf
    <2> QED BY <1>1, <1>2, <2>1, <2>2, <2>3, <2>4, <2>5, <2>6, OtherStepKeeps
  <1>9. ASSUME NEW e \in Exports, Cmd!ApplyAPIBinding(r, e) PROVE Cmd!CmdIInv'
    <2> DEFINE todo == cmd[r].todo \ {e}
               made == cmd[r].made \cup {IF apiBinding[e] = None THEN e ELSE None}
    <2>1. /\ cmd[r].at = "apply" /\ UNCHANGED <<offer, spoiled, cmdTarget, lastUID, localExport, account, role,
               binding, token, placement, cmdEvents>>
          /\ cmd' = [cmd EXCEPT ![r].todo = todo, ![r].made = made]
          /\ apiBinding' = IF apiBinding[e] = None THEN [apiBinding EXCEPT ![e] = "binding"] ELSE apiBinding
      BY <1>9 DEF Cmd!ApplyAPIBinding, Cmd!At, Cmd!owned
    <2>2. todo \in SUBSET Exports /\ made \in SUBSET (Exports \cup {None})
      BY <1>1 DEF Cmd!Run
    <2> HIDE DEF todo, made
    <2>3. Moves(r, "apply") /\ cmd'[r].todo = todo
      <3>1. Moves(r, cmd[r].at) /\ cmd'[r].todo = todo
        <4>1. Cmd!CmdTypeOK /\ cmd' = [cmd EXCEPT ![r].todo = todo, ![r].made = made] BY <1>1, <2>1
        <4> QED BY <2>2, <4>1, MadeMoves
      <3> QED BY <2>1, <3>1
    <2>4. cmd[r].name = "bind" /\ cmd[r].at \in OtherSteps BY <1>5, <2>1
    <2>5. OnlyAdded BY <1>1, <1>3, <2>1 DEF OnlyAdded
    <2>6. ~spoiled => Cmd!FoundBound(r)'
      <3> SUFFICES ASSUME ~spoiled PROVE Cmd!FoundBound(r)' OBVIOUS
      <3>1. \A x \in Exports \ cmd[r].todo : apiBinding[x] # None BY <1>7, <2>1 DEF Cmd!FoundBound, Cmd!At
      <3>2. apiBinding'[e] # None BY <1>1, <1>3, <2>1
      <3>3. \A x \in Exports \ todo : apiBinding'[x] # None BY <2>5, <3>1, <3>2 DEF OnlyAdded, todo
      <3> QED BY <2>3, <3>3 DEF Cmd!FoundBound, Cmd!At, Cmd!Done, Moves
    <2>7. "apply" \in Cmd!StepsOf(cmd[r].name) BY <2>4 DEF Cmd!StepsOf
    <2> QED BY <1>1, <1>2, <2>1, <2>3, <2>4, <2>5, <2>6, <2>7, OtherStepKeeps
  <1>10. CASE Cmd!WaitForBindings(r)
    <2>1. /\ cmd[r].at = "apply" /\ cmd[r].todo = {} /\ Cmd!Goto(r, "placement")
          /\ UNCHANGED <<offer, spoiled, cmdTarget, lastUID, localExport, account, role,
               binding, token, apiBinding, placement, cmdEvents>>
      BY <1>10 DEF Cmd!WaitForBindings, Cmd!At, Cmd!owned, Cmd!bound
    <2>2. Moves(r, "placement") BY <1>1, <1>2, <2>1, GotoMoves
    <2>3. cmd[r].name = "bind" /\ cmd[r].at \in OtherSteps BY <1>5, <2>1
    <2>4. ~spoiled => Cmd!FoundBound(r)' BY <1>7, <2>1, <2>2 DEF Cmd!FoundBound, Cmd!At, Cmd!Done, Moves
    <2>5. OnlyAdded BY <1>1, <2>1 DEF OnlyAdded
    <2>6. "placement" \in Cmd!StepsOf(cmd[r].name) BY <2>3 DEF Cmd!StepsOf
    <2> QED BY <1>1, <1>2, <2>1, <2>2, <2>3, <2>4, <2>5, <2>6, OtherStepKeeps
  <1>11. CASE Cmd!ApplyPlacement(r)
    <2>1. /\ cmd[r].at = "placement" /\ Cmd!Goto(r, "waitPlacement")
          /\ UNCHANGED <<offer, spoiled, cmdTarget, lastUID, localExport, account, role,
               binding, token, apiBinding, cmdEvents>>
          /\ placement' = IF placement = None THEN "pending" ELSE placement
      BY <1>11 DEF Cmd!ApplyPlacement, Cmd!At, Cmd!owned
    <2>2. Moves(r, "waitPlacement") BY <1>1, <1>2, <2>1, GotoMoves
    <2>3. cmd[r].name = "bind" /\ cmd[r].at \in OtherSteps BY <1>5, <2>1
    <2>4. ~spoiled => Cmd!FoundBound(r)'
      BY <1>3, <1>7, <2>1, <2>2 DEF Cmd!FoundBound, Cmd!At, Cmd!Done, Moves
    <2>5. OnlyAdded BY <1>1, <1>3, <2>1 DEF OnlyAdded
    <2>6. "waitPlacement" \in Cmd!StepsOf(cmd[r].name) BY <2>3 DEF Cmd!StepsOf
    <2> QED BY <1>1, <1>2, <2>1, <2>2, <2>3, <2>4, <2>5, <2>6, OtherStepKeeps
  <1>12. CASE Cmd!PlacementReadyAndScheduled(r)
    <2>1. /\ cmd[r].at = "waitPlacement" /\ Cmd!Goto(r, "done") /\ placement = "ready"
          /\ UNCHANGED <<offer, spoiled, cmdTarget, lastUID, localExport, account, role,
               binding, token, apiBinding, placement, cmdEvents>>
      BY <1>12 DEF Cmd!PlacementReadyAndScheduled, Cmd!At, Cmd!owned, Cmd!bound
    <2>2. Moves(r, "done") BY <1>1, <1>2, <2>1, GotoMoves
    <2>3. cmd[r].name = "bind" /\ cmd[r].at \in OtherSteps BY <1>5, <2>1
    <2>4. ~spoiled => Cmd!FoundBound(r)'
      BY <1>7, <2>1, <2>2, <2>3 DEF Cmd!FoundBound, Cmd!At, Cmd!Done, Moves
    <2>5. OnlyAdded BY <1>1, <2>1 DEF OnlyAdded
    <2>6. "done" \in Cmd!StepsOf(cmd[r].name) BY <2>3 DEF Cmd!StepsOf
    <2> QED BY <1>1, <1>2, <2>1, <2>2, <2>3, <2>4, <2>5, <2>6, OtherStepKeeps
  <1>13. CASE Cmd!WaitUntilBound(r)
    <2>1. /\ cmd[r].at = "waitBound" /\ Cmd!Goto(r, "done") /\ Cmd!BindingsReady(r)
          /\ UNCHANGED <<offer, spoiled, cmdTarget, lastUID, localExport, account, role,
               binding, token, apiBinding, placement, cmdEvents>>
      BY <1>13 DEF Cmd!WaitUntilBound, Cmd!At, Cmd!owned, Cmd!bound
    <2>2. Moves(r, "done") /\ Keeps(r) BY <1>1, <1>2, <2>1, GotoMoves
    <2>3. cmd[r].name = "apiexport" /\ cmd[r].at \in OtherSteps BY <1>6, <2>1
    <2>4. Cmd!FoundBound(r)'
      BY <2>1, <2>2, <2>3 DEF Cmd!FoundBound, Cmd!At, Cmd!Done, Cmd!BindingsReady, Moves, Keeps
    <2>5. OnlyAdded BY <1>1, <2>1 DEF OnlyAdded
    <2>6. "done" \in Cmd!StepsOf(cmd[r].name) BY <2>3 DEF Cmd!StepsOf
    <2> QED BY <1>1, <1>2, <2>1, <2>2, <2>3, <2>4, <2>5, <2>6, OtherStepKeeps
  <1>14. ASSUME NEW e \in Exports, Cmd!CreateAPIBinding(r, e) PROVE Cmd!CmdIInv'
    <2>1. /\ cmd[r].at = "create" /\ UNCHANGED <<offer, spoiled, cmdTarget, lastUID, localExport, account, role,
               binding, token, placement, cmdEvents>>
          /\ cmd' = [cmd EXCEPT ![r].at = "waitBound", ![r].made = {e}]
          /\ apiBinding[e] = None /\ apiBinding' = [apiBinding EXCEPT ![e] = "binding"]
      BY <1>14 DEF Cmd!CreateAPIBinding, Cmd!At, Cmd!owned
    <2>2. Moves(r, "waitBound") BY <1>1, <1>2, <2>1, WaitMoves
    <2>3. cmd[r].name = "apiexport" /\ cmd[r].at \in OtherSteps BY <1>6, <2>1
    <2>4. OnlyAdded BY <1>1, <1>3, <2>1 DEF OnlyAdded
    <2>5. Cmd!FoundBound(r)' BY <2>2 DEF Cmd!FoundBound, Cmd!At, Cmd!Done, Moves
    <2>6. "waitBound" \in Cmd!StepsOf(cmd[r].name) BY <2>3 DEF Cmd!StepsOf
    <2> QED BY <1>1, <1>2, <2>1, <2>2, <2>3, <2>4, <2>5, <2>6, OtherStepKeeps
  <1> QED BY <1>8, <1>9, <1>10, <1>11, <1>12, <1>13, <1>14 DEF Cmd!Bind

(* A run reads the SyncTarget (GetForCordon).                                *)
LEMMA LookMoves ==
    ASSUME Cmd!CmdTypeOK, NEW r \in Runs, NEW t \in Cmd!SyncTarget \cup {None}, NEW step \in Cmd!Steps,
           cmd' = [cmd EXCEPT ![r].seen = t, ![r].at = step]
    PROVE  Moves(r, step)
  <1>1. cmd \in [Runs -> Cmd!Run] BY DEF Cmd!CmdTypeOK
  <1>2. cmd' \in [Runs -> Cmd!Run]
    <2>1. \A c \in Cmd!Run : [c EXCEPT !.seen = t, !.at = step] \in Cmd!Run
      BY DEF Cmd!Run
    <2> DEFINE new == [cmd[r] EXCEPT !.seen = t, !.at = step]
    <2>2. cmd' = [cmd EXCEPT ![r] = new] OBVIOUS
    <2>3. new \in Cmd!Run BY <1>1, <2>1
    <2> HIDE DEF new
    <2> QED BY <1>1, <2>2, <2>3
  <1>3. \A q \in Runs : q # r => cmd'[q] = cmd[q] BY <1>1
  <1>4. /\ cmd'[r].name = cmd[r].name /\ cmd'[r].flags = cmd[r].flags /\ cmd'[r].at = step
    BY <1>1 DEF Cmd!Run
  <1> QED BY <1>2, <1>3, <1>4 DEF Moves

(* cordon, uncordon and drain: the SyncTarget is not one of workload sync.   *)
LEMMA CordonKeeps ==
    ASSUME Cmd!CmdIInv, NEW r \in Runs, Cmd!GetForCordon(r) \/ Cmd!PatchForCordon(r)
    PROVE  Cmd!CmdIInv'
  <1>1. /\ Cmd!CmdTypeOK /\ cmd \in [Runs -> Cmd!Run] /\ cmdTarget \in Cmd!SyncTarget \cup {None}
        /\ apiBinding \in [Exports -> {None, "binding", "bound"}] /\ placement \in {None, "pending", "ready"}
        /\ Cmd!IsOffered(r)
    BY DEF Cmd!CmdIInv, Cmd!CmdTypeOK
  <1>2. {"patch", "done"} \subseteq Cmd!Steps
    BY DEF Cmd!Steps, Cmd!PastExport, Cmd!PastTarget, Cmd!PastAccount, Cmd!PastRole, Cmd!PastBinding, Cmd!PastToken
  <1>3. ASSUME cmd[r].at \in {"look", "patch"}
        PROVE  /\ cmd[r].name \in {"cordon", "uncordon", "drain"} /\ cmd[r].at \in OtherSteps
               /\ {"patch", "done"} \subseteq Cmd!StepsOf(cmd[r].name)
    <2>1. cmd[r].at \in OtherSteps BY <1>3 DEF OtherSteps
    <2>2. cmd[r].at # "idle" /\ cmd[r].at # "failed" BY <1>3
    <2>3. cmd[r].at \in Cmd!StepsOf(cmd[r].name) /\ cmd[r].name \in Cmd!CmdNames
      BY <1>1, <2>2, CmdConstants DEF Cmd!IsOffered, Cmd!Constants, Cmd!CmdTypeOK
    <2>4. cmd[r].name \in {"cordon", "uncordon", "drain"}
      BY <1>3, <2>3 DEF Cmd!CmdNames, Cmd!StepsOf, Cmd!AtExport, Cmd!PastExport, Cmd!AtTarget, Cmd!PastTarget,
             Cmd!PastAccount, Cmd!PastRole, Cmd!PastBinding, Cmd!PastToken
    <2> QED BY <2>1, <2>4 DEF Cmd!StepsOf
  <1>4. CASE Cmd!GetForCordon(r)
    <2>1. /\ cmd[r].at = "look" /\ cmdTarget # None
          /\ UNCHANGED <<offer, spoiled, cmdTarget, lastUID, localExport, account, role,
               binding, token, apiBinding, placement, cmdEvents>>
      BY <1>4 DEF Cmd!GetForCordon, Cmd!At, Cmd!owned, Cmd!bound
    <2> DEFINE step == IF Cmd!Cordoned(cmdTarget, cmd[r].name) THEN "done" ELSE "patch"
    <2>2. cmd' = [cmd EXCEPT ![r].seen = cmdTarget, ![r].at = step]
      BY <1>4 DEF Cmd!GetForCordon
    <2>3. step \in {"patch", "done"} OBVIOUS
    <2> HIDE DEF step
    <2>4. Moves(r, step) BY <1>1, <1>2, <2>2, <2>3, LookMoves
    <2>5. cmd[r].name \in {"cordon", "uncordon", "drain"} /\ cmd[r].at \in OtherSteps
          /\ step \in Cmd!StepsOf(cmd[r].name)
      BY <1>3, <2>1, <2>3
    <2>6. OnlyAdded BY <1>1, <2>1 DEF OnlyAdded
    <2>7. Cmd!FoundBound(r)' BY <2>3, <2>4, <2>5 DEF Cmd!FoundBound, Cmd!At, Cmd!Done, Moves
    <2> QED BY <1>1, <1>2, <2>1, <2>3, <2>4, <2>5, <2>6, <2>7, OtherStepKeeps
  <1>5. CASE Cmd!PatchForCordon(r)
    <2>1. /\ cmd[r].at = "patch" /\ cmdTarget # None /\ Cmd!Goto(r, "done")
          /\ UNCHANGED <<offer, spoiled, lastUID, localExport, account, role,
               binding, token, apiBinding, placement, cmdEvents>>
      BY <1>5 DEF Cmd!PatchForCordon, Cmd!At, Cmd!owned, Cmd!bound
    <2>2. cmd[r].name \in {"cordon", "uncordon", "drain"} /\ cmd[r].at \in OtherSteps
          /\ "done" \in Cmd!StepsOf(cmd[r].name)
      BY <1>3, <2>1
    <2> DEFINE un == cmd[r].name # "uncordon"
               ev == CASE cmd[r].name = "cordon" -> cmdTarget.evict
                       [] cmd[r].name = "drain" -> TRUE
                       [] cmd[r].name = "uncordon" -> cmdTarget.evict /\ ~cmd[r].seen.evict
    <2>3. cmdTarget' = [cmdTarget EXCEPT !.unschedulable = un, !.evict = ev]
      BY <1>5 DEF Cmd!PatchForCordon
    <2>4. cmdTarget \in Cmd!SyncTarget BY <1>1, <2>1
    <2>5. cmdTarget.evict \in BOOLEAN BY <2>4 DEF Cmd!SyncTarget
    <2>6. ev \in BOOLEAN
      <3>1. CASE cmd[r].name = "cordon" BY <2>5, <3>1
      <3>2. CASE cmd[r].name = "drain" BY <3>2
      <3>3. CASE cmd[r].name = "uncordon" BY <3>3
      <3> QED BY <2>2, <3>1, <3>2, <3>3
    <2>7. un \in BOOLEAN OBVIOUS
    <2>8. cmdTarget' \in Cmd!SyncTarget
      <3>1. \A t \in Cmd!SyncTarget, a, b \in BOOLEAN : [t EXCEPT !.unschedulable = a, !.evict = b] \in Cmd!SyncTarget
        BY DEF Cmd!SyncTarget
      <3> HIDE DEF un, ev
      <3> QED BY <2>3, <2>4, <2>6, <2>7, <3>1
    <2>9. Moves(r, "done") BY <1>1, <1>2, <2>1, GotoMoves
    <2>10. OnlyAdded BY <1>1, <2>1 DEF OnlyAdded
    <2>11. Cmd!FoundBound(r)' BY <2>2, <2>9 DEF Cmd!FoundBound, Cmd!At, Cmd!Done, Moves
    <2> HIDE DEF un, ev
    <2> QED BY <1>2, <2>1, <2>2, <2>8, <2>9, <2>10, <2>11, OtherStepKeeps
  <1> QED BY <1>4, <1>5

Begun(n, s, f) == [Cmd!Idle EXCEPT !.name = n, !.at = s, !.flags = f]

(* A run that begins.                                                        *)
LEMMA NewRun ==
    ASSUME NEW n \in Cmd!CmdNames, NEW s \in Cmd!Steps, NEW f \in Flags
    PROVE  /\ Begun(n, s, f) \in Cmd!Run /\ Begun(n, s, f).name = n
           /\ Begun(n, s, f).at = s /\ Begun(n, s, f).flags = f
  <1>1. Cmd!Idle \in Cmd!Run BY DEF Cmd!Idle, Cmd!Run, Cmd!Steps
  <1>2. \A i \in Cmd!Run : LET c == [i EXCEPT !.name = n, !.at = s, !.flags = f]
                            IN  c \in Cmd!Run /\ c.name = n /\ c.at = s /\ c.flags = f
    BY DEF Cmd!Run
  <1> QED BY <1>1, <1>2 DEF Begun

(* A user runs a command: alone, all begins anew; or beside others.          *)
LEMMA BeginKeeps ==
    ASSUME Cmd!CmdIInv, NEW r \in Runs, Cmd!Begin(r)
    PROVE  Cmd!CmdIInv'
  <1>1. /\ Cmd!CmdTypeOK /\ cmd \in [Runs -> Cmd!Run] /\ cmdEvents \in Nat /\ offer \in Offers
        /\ apiBinding \in [Exports -> {None, "binding", "bound"}] /\ placement \in {None, "pending", "ready"}
    BY DEF Cmd!CmdIInv, Cmd!CmdTypeOK
  <1>2. PICK name \in offer, f \in Flags :
          cmd' = [(IF Cmd!Running = {} THEN [q \in Runs |-> Cmd!Idle] ELSE cmd)
                    EXCEPT ![r] = Begun(name, Cmd!FirstStep(name), f)]
    BY DEF Cmd!Begin, Begun
  <1> DEFINE first == Cmd!FirstStep(name)
             new == Begun(name, first, f)
             others == IF Cmd!Running = {} THEN [q \in Runs |-> Cmd!Idle] ELSE cmd
  <1>3. /\ spoiled' = (spoiled /\ Cmd!Running # {}) /\ cmdEvents' = cmdEvents + 1
        /\ UNCHANGED <<offer, cmdTarget, lastUID, localExport, account, role, binding, token, apiBinding, placement>>
    BY DEF Cmd!Begin, Cmd!Event, Cmd!owned, Cmd!bound
  <1>4. name \in Cmd!CmdNames BY <1>1, CmdConstants DEF Cmd!Constants
  <1>5. /\ first \in Cmd!StepsOf(name) /\ first \in Cmd!Steps /\ first \in {"export", "list", "create", "look"}
        /\ first = "export" <=> name = "sync"
    BY <1>4 DEF Cmd!FirstStep, Cmd!StepsOf, Cmd!Steps, Cmd!AtExport, Cmd!CmdNames
  <1>6. /\ Cmd!Idle \in Cmd!Run /\ Cmd!Idle.at = "idle" /\ Cmd!Idle.name = None
    BY DEF Cmd!Idle, Cmd!Run, Cmd!Steps
  <1>7. /\ new \in Cmd!Run /\ new.name = name /\ new.at = first /\ new.flags = f
    BY <1>4, <1>5, NewRun
  <1>8. others \in [Runs -> Cmd!Run] BY <1>1, <1>6
  <1>9. cmd' = [others EXCEPT ![r] = new] BY <1>2
  <1> HIDE DEF new, first, others
  <1>10. cmd' \in [Runs -> Cmd!Run] /\ cmd'[r] = new /\ \A q \in Runs : q # r => cmd'[q] = others[q]
    BY <1>7, <1>8, <1>9
  <1>11. Cmd!CmdTypeOK'
    <2>1. ASSUME NEW q \in Runs PROVE Cmd!IsOffered(q)'
      <3>1. CASE q = r BY <1>3, <1>5, <1>7, <1>10, <3>1 DEF Cmd!IsOffered
      <3>2. CASE q # r /\ Cmd!Running = {}
        <4>1. cmd'[q] = Cmd!Idle BY <1>10, <3>2 DEF others
        <4> QED BY <1>6, <4>1 DEF Cmd!IsOffered
      <3>3. CASE q # r /\ Cmd!Running # {}
        <4>1. cmd'[q] = cmd[q] BY <1>10, <3>3 DEF others
        <4> QED BY <1>1, <1>3, <4>1 DEF Cmd!CmdTypeOK, Cmd!IsOffered
      <3> QED BY <3>1, <3>2, <3>3
    <2>2. spoiled' \in BOOLEAN BY <1>3
    <2> QED BY <1>1, <1>3, <1>10, <2>1, <2>2 DEF Cmd!CmdTypeOK
  <1> SUFFICES ASSUME ~spoiled'
               PROVE  Cmd!TargetIsTheirs' /\ Cmd!ObjectsAreThere' /\ Cmd!ExportIsListed' /\ Cmd!BindingsAreThere'
    BY <1>11 DEF Cmd!CmdIInv
  <1>12. first \notin Cmd!PastExport /\ first \notin {"createExport", "createBinding"}
         /\ first \notin Cmd!PastTarget /\ first \notin {"apply", "placement", "waitPlacement", "done"}
    BY <1>5 DEF Cmd!PastExport, Cmd!AtTarget, Cmd!PastTarget, Cmd!PastAccount, Cmd!PastRole, Cmd!PastBinding,
                Cmd!PastToken
  <1>13. /\ Cmd!PastTarget \subseteq Cmd!PastExport
         /\ Cmd!PastToken \subseteq Cmd!PastTarget /\ Cmd!PastBinding \subseteq Cmd!PastTarget
         /\ Cmd!PastRole \subseteq Cmd!PastTarget /\ Cmd!PastAccount \subseteq Cmd!PastTarget
         /\ "idle" \notin Cmd!PastExport /\ "createBinding" \in Cmd!PastTarget
    BY DEF Cmd!PastExport, Cmd!AtTarget, Cmd!PastTarget, Cmd!PastAccount, Cmd!PastRole, Cmd!PastBinding,
           Cmd!PastToken
  <1>14. Cmd!FoundBound(r)'
    BY <1>7, <1>10, <1>12 DEF Cmd!FoundBound, Cmd!At, Cmd!Done
  <1>15. CASE Cmd!Running = {}
    <2>1. \A q \in Runs : q # r => cmd'[q].at = "idle"
      BY <1>6, <1>10, <1>15 DEF others
    <2>2. \A q \in Runs : cmd'[q].at \notin Cmd!PastExport /\ cmd'[q].at # "createExport"
      BY <1>7, <1>10, <1>12, <1>13, <2>1
    <2>3. (Cmd!Syncing(Cmd!PastExport \cup {"createExport"}))' = {} /\ (Cmd!Syncing(Cmd!PastExport))' = {}
          /\ (Cmd!Syncing(Cmd!PastTarget))' = {} /\ (Cmd!Syncing(Cmd!PastAccount))' = {}
          /\ (Cmd!Syncing(Cmd!PastRole))' = {} /\ (Cmd!Syncing(Cmd!PastBinding))' = {}
          /\ (Cmd!Syncing(Cmd!PastToken))' = {}
      BY <1>13, <2>2 DEF Cmd!Syncing
    <2>4. Cmd!TargetIsTheirs' /\ Cmd!ObjectsAreThere' /\ Cmd!ExportIsListed'
      BY <2>3 DEF Cmd!TargetIsTheirs, Cmd!ObjectsAreThere, Cmd!ExportIsListed
    <2>5. \A q \in Runs : q # r => Cmd!FoundBound(q)'
      BY <2>1 DEF Cmd!FoundBound, Cmd!At, Cmd!Done
    <2> QED BY <1>14, <2>4, <2>5 DEF Cmd!BindingsAreThere
  <1>16. CASE Cmd!Running # {}
    <2>1. ~spoiled BY <1>3, <1>16
    <2>2. Cmd!TargetIsTheirs /\ Cmd!ObjectsAreThere /\ Cmd!ExportIsListed /\ Cmd!BindingsAreThere
      BY <2>1 DEF Cmd!CmdIInv
    <2>3. \A q \in Runs : q # r => cmd'[q] = cmd[q] BY <1>10, <1>16 DEF others
    <2>4. cmd[r].at \in {"idle", "done", "failed"} BY DEF Cmd!Begin, Cmd!Running
    <2>5. \A q \in Runs : cmd'[q].at \in Cmd!PastExport \cup {"createExport"} => q # r /\ cmd'[q] = cmd[q]
      BY <1>7, <1>10, <1>12, <2>3
    <2>0. Cmd!BindingsAreThere'
      <3>1. OnlyAdded BY <1>1, <1>3 DEF OnlyAdded
      <3>2. ASSUME NEW q \in Runs, q # r PROVE Cmd!FoundBound(q)'
        <4>1. Cmd!FoundBound(q) /\ cmd'[q] = cmd[q] BY <2>2, <2>3, <3>2 DEF Cmd!BindingsAreThere
        <4> QED BY <1>1, <3>1, <4>1, FoundStays
      <3> QED BY <1>14, <3>2 DEF Cmd!BindingsAreThere
    <2>6. CASE name = "sync"
      <3>1. r \in (Cmd!Syncing({"export", "updateExport"}))' /\ r \in (Cmd!Syncing(Cmd!AtExport \cup Cmd!AtTarget))'
        BY <1>5, <1>7, <1>10, <2>6 DEF Cmd!Syncing, Cmd!AtExport
      <3>2. \A q \in (Cmd!Syncing(Cmd!PastTarget))' : q \in Cmd!Syncing(Cmd!PastTarget) /\ cmd'[q] = cmd[q]
        BY <1>13, <2>5 DEF Cmd!Syncing
      <3>3. Cmd!TargetIsTheirs' BY <1>3, <2>2, <3>1, <3>2 DEF Cmd!TargetIsTheirs
      <3>4. Cmd!ObjectsAreThere'
        <4>1. \A q \in Runs : cmd[q].at = "createBinding" => cmd'[q] = cmd[q]
          BY <2>3, <2>4
        <4> QED BY <1>3, <1>13, <2>2, <2>5, <4>1 DEF Cmd!ObjectsAreThere, Cmd!Syncing
      <3>5. \A q \in (Cmd!Syncing(Cmd!PastExport))' : q \in Cmd!Syncing(Cmd!PastExport)
        BY <2>5 DEF Cmd!Syncing
      <3>6. Cmd!ExportIsListed' BY <1>3, <2>2, <3>1, <3>5 DEF Cmd!ExportIsListed
      <3> QED BY <2>0, <3>3, <3>4, <3>6
    <2>7. CASE name # "sync"
      <3>1. "sync" \notin offer BY <1>1, <2>7, CmdConstants DEF Cmd!Constants
      <3>2. \A q \in Runs : cmd'[q].name # "sync"
        <4>1. \A q \in Runs : cmd'[q].name \in offer \cup {None} BY <1>3, <1>11 DEF Cmd!CmdTypeOK, Cmd!IsOffered
        <4>2. None # "sync" BY CmdConstants DEF Cmd!Constants, Cmd!CmdNames
        <4> QED BY <3>1, <4>1, <4>2
      <3> QED BY <2>0, <3>2 DEF Cmd!TargetIsTheirs, Cmd!ObjectsAreThere, Cmd!ExportIsListed, Cmd!Syncing
    <2> QED BY <2>6, <2>7
  <1> QED BY <1>15, <1>16

(* A run that fails spoils the success of all of them.                       *)
LEMMA FailsKeeps ==
    ASSUME Cmd!CmdIInv, NEW r \in Runs, Cmd!Fails(r)
    PROVE  Cmd!CmdIInv'
  <1>1. /\ Cmd!CmdTypeOK /\ cmd[r].at # "idle" /\ Cmd!Goto(r, "failed") /\ spoiled' = TRUE
        /\ UNCHANGED <<offer, cmdTarget, lastUID, localExport, apiBinding, placement, cmdEvents>>
    BY DEF Cmd!CmdIInv, Cmd!Fails, Cmd!Running, Cmd!bound
  <1>2. Moves(r, "failed")
    <2>1. "failed" \in Cmd!Steps BY DEF Cmd!Steps
    <2> QED BY <1>1, <2>1, GotoMoves
  <1>3. \A q \in Runs : Cmd!IsOffered(q)' BY <1>1, <1>2, MovesTyped
  <1>4. cmd' \in [Runs -> Cmd!Run] BY <1>2 DEF Moves
  <1> QED BY <1>1, <1>3, <1>4 DEF Cmd!CmdIInv, Cmd!CmdTypeOK

(* What happens beside the runs, as long as the objects of this SyncTarget stay. *)
LEMMA ObjectsComeAndGo ==
    ASSUME Cmd!CmdIInv, UNCHANGED <<offer, cmd, spoiled, cmdTarget, lastUID, localExport, cmdEvents>>,
           OnlyAdded,
           \A u : u = Cmd!UIDOf(cmdTarget) => /\ u \in account => u \in account'
                                              /\ u \in role => u \in role'
                                              /\ u \in binding => u \in binding'
                                              /\ u \in token => u \in token'
    PROVE  Cmd!CmdIInv'
  <1>1. Cmd!CmdTypeOK BY DEF Cmd!CmdIInv
  <1>2. Cmd!CmdTypeOK' BY <1>1 DEF Cmd!CmdTypeOK, Cmd!IsOffered, OnlyAdded
  <1> SUFFICES ASSUME ~spoiled
               PROVE  Cmd!TargetIsTheirs' /\ Cmd!ObjectsAreThere' /\ Cmd!ExportIsListed' /\ Cmd!BindingsAreThere'
    BY <1>2 DEF Cmd!CmdIInv
  <1>3. Cmd!TargetIsTheirs /\ Cmd!ObjectsAreThere /\ Cmd!ExportIsListed /\ Cmd!BindingsAreThere
    BY DEF Cmd!CmdIInv
  <1>4. Cmd!TargetIsTheirs' /\ Cmd!ExportIsListed'
    BY <1>3 DEF Cmd!TargetIsTheirs, Cmd!ExportIsListed, Cmd!Syncing
  <1>5. \A q \in Runs : cmd[q].name = "sync" /\ cmd[q].at \in Cmd!PastTarget => cmd[q].uid = Cmd!UIDOf(cmdTarget)
    BY <1>3 DEF Cmd!TargetIsTheirs, Cmd!Syncing, Cmd!UIDOf
  <1>6. /\ Cmd!PastToken \subseteq Cmd!PastTarget /\ Cmd!PastBinding \subseteq Cmd!PastTarget
        /\ Cmd!PastRole \subseteq Cmd!PastTarget /\ Cmd!PastAccount \subseteq Cmd!PastTarget
    BY DEF Cmd!PastTarget, Cmd!PastAccount, Cmd!PastRole, Cmd!PastBinding, Cmd!PastToken
  <1>7. Cmd!ObjectsAreThere'
    <2>1. /\ \A q \in Runs : cmd[q].name = "sync" /\ cmd[q].at \in Cmd!PastAccount => cmd[q].uid \in account'
          /\ \A q \in Runs : cmd[q].name = "sync" /\ cmd[q].at \in Cmd!PastRole => cmd[q].uid \in role'
          /\ \A q \in Runs : cmd[q].name = "sync" /\ cmd[q].at \in Cmd!PastBinding =>
               cmd[q].uid \in binding' \/ Cmd!Syncing({"createBinding"}) # {}
          /\ \A q \in Runs : cmd[q].name = "sync" /\ cmd[q].at \in Cmd!PastToken => cmd[q].uid \in token'
      BY <1>3, <1>5, <1>6 DEF Cmd!ObjectsAreThere, Cmd!Syncing
    <2> QED BY <2>1 DEF Cmd!ObjectsAreThere, Cmd!Syncing
  <1>8. Cmd!BindingsAreThere'
    <2>1. \A q \in Runs : Cmd!FoundBound(q) /\ cmd'[q] = cmd[q] BY <1>3 DEF Cmd!BindingsAreThere
    <2> QED BY <1>1, <2>1, FoundStays DEF Cmd!BindingsAreThere
  <1> QED BY <1>4, <1>7, <1>8

(* Tokens, garbage, exports that are bound, deletions.                       *)
LEMMA EnvironmentKeeps ==
    ASSUME Cmd!CmdIInv,
           \/ Cmd!TokenComes \/ Cmd!CollectGarbage \/ Cmd!BindExport \/ Cmd!PlacementBecomesReady
           \/ Cmd!DeleteSyncTarget \/ Cmd!DeleteBound
    PROVE  Cmd!CmdIInv'
  <1>1. /\ Cmd!CmdTypeOK /\ cmdTarget \in Cmd!SyncTarget \cup {None} /\ cmdEvents \in Nat
        /\ apiBinding \in [Exports -> {None, "binding", "bound"}] /\ placement \in {None, "pending", "ready"}
    BY DEF Cmd!CmdIInv, Cmd!CmdTypeOK
  <1>2. None \notin {"binding", "bound", "pending", "ready"} BY CmdConstants DEF Cmd!Constants
  <1>3. CASE Cmd!TokenComes
    <2>1. UNCHANGED <<offer, cmd, spoiled, cmdTarget, lastUID, localExport, account, role, binding, apiBinding,
                      placement, cmdEvents>> /\ token \subseteq token'
      BY <1>3 DEF Cmd!TokenComes, Cmd!bound
    <2>2. OnlyAdded BY <1>1, <2>1 DEF OnlyAdded
    <2> QED BY <2>1, <2>2, ObjectsComeAndGo
  <1>4. CASE Cmd!CollectGarbage
    <2>1. PICK u : /\ u # Cmd!UIDOf(cmdTarget) /\ account' = account \ {u} /\ role' = role \ {u}
                   /\ binding' = binding \ {u} /\ token' = token \ {u}
      BY <1>4 DEF Cmd!CollectGarbage
    <2>2. UNCHANGED <<offer, cmd, spoiled, cmdTarget, lastUID, localExport, apiBinding, placement, cmdEvents>>
      BY <1>4 DEF Cmd!CollectGarbage, Cmd!bound
    <2>3. OnlyAdded BY <1>1, <2>2 DEF OnlyAdded
    <2> QED BY <2>1, <2>2, <2>3, ObjectsComeAndGo
  <1>5. CASE Cmd!BindExport
    <2>1. PICK e \in Exports : apiBinding[e] = "binding" /\ apiBinding' = [apiBinding EXCEPT ![e] = "bound"]
      BY <1>5 DEF Cmd!BindExport
    <2>2. UNCHANGED <<offer, cmd, spoiled, cmdTarget, lastUID, localExport, account, role, binding, token,
                      placement, cmdEvents>>
      BY <1>5 DEF Cmd!BindExport, Cmd!owned
    <2>3. OnlyAdded BY <1>1, <1>2, <2>1, <2>2 DEF OnlyAdded
    <2> QED BY <2>2, <2>3, ObjectsComeAndGo
  <1>6. CASE Cmd!PlacementBecomesReady
    <2>1. /\ placement = "pending" /\ placement' = "ready"
          /\ UNCHANGED <<offer, cmd, spoiled, cmdTarget, lastUID, localExport, account, role, binding, token,
                         apiBinding, cmdEvents>>
      BY <1>6 DEF Cmd!PlacementBecomesReady, Cmd!owned
    <2>2. OnlyAdded BY <1>1, <1>2, <2>1 DEF OnlyAdded
    <2> QED BY <2>1, <2>2, ObjectsComeAndGo
  <1>7. CASE Cmd!DeleteSyncTarget
    BY <1>1, <1>7 DEF Cmd!DeleteSyncTarget, Cmd!Event, Cmd!bound, Cmd!CmdIInv, Cmd!CmdTypeOK, Cmd!IsOffered
  <1>8. CASE Cmd!DeleteBound
    <2>1. /\ UNCHANGED <<offer, cmd, cmdTarget, lastUID, localExport>> /\ spoiled' = TRUE
          /\ cmdEvents' = cmdEvents + 1
          /\ apiBinding' \in [Exports -> {None, "binding", "bound"}] /\ placement' \in {None, "pending", "ready"}
      BY <1>1, <1>8 DEF Cmd!DeleteBound, Cmd!Event
    <2> QED BY <1>1, <2>1 DEF Cmd!CmdIInv, Cmd!CmdTypeOK, Cmd!IsOffered
  <1> QED BY <1>3, <1>4, <1>5, <1>6, <1>7, <1>8

(* In the beginning nobody runs anything.                                    *)
LEMMA CmdBegins == Cmd!CmdInit => Cmd!CmdIInv
  <1> SUFFICES ASSUME Cmd!CmdInit PROVE Cmd!CmdIInv OBVIOUS
  <1>1. Cmd!Idle \in Cmd!Run /\ Cmd!Idle.at = "idle" /\ Cmd!Idle.name = None
    BY DEF Cmd!Idle, Cmd!Run, Cmd!Steps
  <1>2. /\ offer \in Offers /\ cmd = [r \in Runs |-> Cmd!Idle] /\ spoiled = FALSE
        /\ lastUID = 0 /\ localExport = None /\ apiBinding = [e \in Exports |-> None] /\ placement = None
        /\ cmdEvents = 0
    BY DEF Cmd!CmdInit
  <1>3. cmdTarget \in Cmd!SyncTarget \cup {None}
    <2>1. CASE "cordon" \in offer
      <3>1. cmdTarget \in [uid : {0}, exports : Flags, unschedulable : BOOLEAN, evict : {FALSE}]
        BY <2>1 DEF Cmd!CmdInit
      <3>2. [uid : {0}, exports : Flags, unschedulable : BOOLEAN, evict : {FALSE}]
               \subseteq [uid : Nat, exports : Flags, unschedulable : BOOLEAN, evict : BOOLEAN]
        <4>1. {0} \subseteq Nat /\ {FALSE} \subseteq BOOLEAN OBVIOUS
        <4> DEFINE z == {0}
                   n == {FALSE}
        <4>2. z \subseteq Nat /\ n \subseteq BOOLEAN BY <4>1
        <4> HIDE DEF z, n
        <4>3. [uid : z, exports : Flags, unschedulable : BOOLEAN, evict : n]
                 \subseteq [uid : Nat, exports : Flags, unschedulable : BOOLEAN, evict : BOOLEAN]
          BY <4>2, Zenon
        <4> QED BY <4>3 DEF z, n
      <3> QED BY <3>1, <3>2 DEF Cmd!SyncTarget
    <2>2. CASE "cordon" \notin offer BY <2>2 DEF Cmd!CmdInit
    <2> QED BY <2>1, <2>2
  <1>4. \A r \in Runs : cmd[r] \in Cmd!Run /\ cmd[r].at = "idle" /\ cmd[r].name = None
    BY <1>1, <1>2
  <1>5. \A r \in Runs : Cmd!IsOffered(r) BY <1>4 DEF Cmd!IsOffered
  <1>6. Cmd!CmdTypeOK
    <2>1. cmd \in [Runs -> Cmd!Run] BY <1>1, <1>2
    <2> QED BY <1>2, <1>3, <1>5, <2>1 DEF Cmd!CmdTypeOK
  <1>7. \A r \in Runs : cmd[r].name # "sync"
    <2>1. None # "sync" BY CmdConstants DEF Cmd!Constants, Cmd!CmdNames
    <2> QED BY <1>4, <2>1
  <1>8. Cmd!TargetIsTheirs /\ Cmd!ObjectsAreThere /\ Cmd!ExportIsListed
    BY <1>7 DEF Cmd!TargetIsTheirs, Cmd!ObjectsAreThere, Cmd!ExportIsListed, Cmd!Syncing
  <1>9. Cmd!BindingsAreThere
    BY <1>4 DEF Cmd!BindingsAreThere, Cmd!FoundBound, Cmd!At, Cmd!Done
  <1> QED BY <1>6, <1>8, <1>9 DEF Cmd!CmdIInv

(* Every step.                                                               *)
LEMMA CmdStep ==
    ASSUME Cmd!CmdIInv, AnyNext \/ UNCHANGED all
    PROVE  Cmd!CmdIInv'
  <1>1. CASE Cmd!CmdNext
    <2>1. ASSUME NEW r \in Runs, Cmd!Sync(r) PROVE Cmd!CmdIInv'
      BY <2>1, SyncBeginsKeep, SyncObjectsKeep DEF Cmd!Sync
    <2>2. ASSUME NEW r \in Runs,
                 Cmd!Bind(r) \/ Cmd!GetForCordon(r) \/ Cmd!PatchForCordon(r) \/ Cmd!Begin(r) \/ Cmd!Fails(r)
          PROVE  Cmd!CmdIInv'
      BY <2>2, BindKeeps, CordonKeeps, BeginKeeps, FailsKeeps
    <2>3. CASE \/ Cmd!TokenComes \/ Cmd!CollectGarbage \/ Cmd!BindExport \/ Cmd!PlacementBecomesReady
               \/ Cmd!DeleteSyncTarget \/ Cmd!DeleteBound
      BY <2>3, EnvironmentKeeps
    <2> QED BY <1>1, <2>1, <2>2, <2>3 DEF Cmd!CmdNext
  <1>2. CASE UNCHANGED cmdVars
    <2>1. UNCHANGED <<offer, cmd, spoiled, cmdTarget, lastUID, localExport, account, role, binding, token, apiBinding,
                      placement, cmdEvents>>
      BY <1>2 DEF cmdVars
    <2>2. Cmd!CmdTypeOK' = Cmd!CmdTypeOK BY <2>1 DEF Cmd!CmdTypeOK, Cmd!IsOffered
    <2>3. /\ Cmd!TargetIsTheirs' = Cmd!TargetIsTheirs
          /\ Cmd!ObjectsAreThere' = Cmd!ObjectsAreThere
          /\ Cmd!ExportIsListed' = Cmd!ExportIsListed
      BY <2>1 DEF Cmd!TargetIsTheirs, Cmd!ObjectsAreThere, Cmd!ExportIsListed, Cmd!Syncing
    <2>4. Cmd!BindingsAreThere' = Cmd!BindingsAreThere
      BY <2>1 DEF Cmd!BindingsAreThere, Cmd!FoundBound, Cmd!At, Cmd!Done, Cmd!BindingsReady
    <2> QED BY <2>1, <2>2, <2>3, <2>4 DEF Cmd!CmdIInv
  <1> QED BY <1>1, <1>2 DEF AnyNext, all

(* The invariant, whatever the other parts do.                               *)
LEMMA CmdInvariant == AnySpec => []Cmd!CmdIInv
  <1>1. AnyInit => Cmd!CmdIInv BY CmdBegins DEF AnyInit
  <1>2. Cmd!CmdIInv /\ [AnyNext]_all => Cmd!CmdIInv' BY CmdStep
  <1> QED BY <1>1, <1>2, PTL DEF AnySpec

(* When nobody runs anything, all the runs of workload sync are past everything. *)
LEMMA SyncEnablesOnceDone ==
    ASSUME Cmd!CmdIInv PROVE Cmd!SyncEnables
  <1> SUFFICES ASSUME Cmd!Running = {}, ~spoiled, NEW d \in Cmd!Done("sync")
               PROVE  /\ cmdTarget # None /\ \E r \in Cmd!Done("sync") : cmdTarget.exports = cmd[r].flags
                      /\ cmdTarget.uid \in account \cap role \cap binding \cap token
                      /\ \A r \in Cmd!Done("sync") : Cmd!Manifest(r).uid = cmdTarget.uid
                      /\ \E r \in Cmd!Done("sync") : cmd[r].flags \in localExport \cap Cmd!Manifest(r).resources
    BY DEF Cmd!SyncEnables, Cmd!Succeeded
  <1>1. Cmd!TargetIsTheirs /\ Cmd!ObjectsAreThere /\ Cmd!ExportIsListed BY DEF Cmd!CmdIInv
  <1>2. \A r \in Runs : cmd[r].at \in {"idle", "done", "failed"} BY DEF Cmd!Running
  <1>3. /\ {"idle", "failed"} \cap Cmd!PastExport = {} /\ "done" \in Cmd!PastToken
        /\ {"idle", "failed"} \cap Cmd!PastTarget = {}
        /\ {"idle", "done", "failed"} \cap (Cmd!AtExport \cup Cmd!AtTarget) = {}
        /\ "done" \in Cmd!PastBinding /\ "done" \in Cmd!PastRole /\ "done" \in Cmd!PastAccount
        /\ "done" \in Cmd!PastTarget /\ "done" \in Cmd!PastExport
    BY DEF Cmd!PastExport, Cmd!AtExport, Cmd!AtTarget, Cmd!PastTarget, Cmd!PastAccount, Cmd!PastRole,
           Cmd!PastBinding, Cmd!PastToken
  <1>4. /\ Cmd!Syncing(Cmd!PastExport) = Cmd!Done("sync") /\ Cmd!Syncing(Cmd!PastTarget) = Cmd!Done("sync")
        /\ Cmd!Syncing(Cmd!AtExport \cup Cmd!AtTarget) = {}
        /\ Cmd!Syncing({"createBinding"}) = {} /\ Cmd!Syncing({"export", "updateExport"}) = {}
        /\ Cmd!Done("sync") \subseteq Cmd!Syncing(Cmd!PastToken)
        /\ Cmd!Done("sync") \subseteq Cmd!Syncing(Cmd!PastBinding)
        /\ Cmd!Done("sync") \subseteq Cmd!Syncing(Cmd!PastRole)
        /\ Cmd!Done("sync") \subseteq Cmd!Syncing(Cmd!PastAccount)
        /\ Cmd!Done("sync") \subseteq Cmd!Syncing(Cmd!PastExport \cup {"createExport"})
    BY <1>2, <1>3 DEF Cmd!Syncing, Cmd!Done, Cmd!At
  <1>5. cmdTarget # None /\ \A r \in Cmd!Done("sync") : cmd[r].uid = cmdTarget.uid
    BY <1>1, <1>4 DEF Cmd!TargetIsTheirs
  <1>6. \E r \in Cmd!Done("sync") : cmdTarget.exports = cmd[r].flags
    BY <1>1, <1>4 DEF Cmd!TargetIsTheirs
  <1>7. cmd[d].uid \in account /\ cmd[d].uid \in role /\ cmd[d].uid \in binding /\ cmd[d].uid \in token
    BY <1>1, <1>4 DEF Cmd!ObjectsAreThere
  <1>8. \E r \in Cmd!Done("sync") : cmd[r].flags \in localExport
    BY <1>1, <1>4 DEF Cmd!ExportIsListed
  <1>9. \A r : Cmd!Manifest(r).uid = cmd[r].uid /\ cmd[r].flags \in Cmd!Manifest(r).resources
    BY DEF Cmd!Manifest
  <1> QED BY <1>5, <1>6, <1>7, <1>8, <1>9

(* When all runs that overlapped report success, what they promise is there  *)
(* (SyncEnables, BindBinds, ExportIsBound): for any number of runs, UIDs,    *)
(* resources, exports and events, whatever was left behind before, and with  *)
(* tokens, garbage collection and bindings at any time.                      *)
THEOREM CommandsSucceed == AnySpec => []CommandsKeepTheirWord
  <1>1. Cmd!CmdIInv => CommandsKeepTheirWord
    <2> SUFFICES ASSUME Cmd!CmdIInv PROVE CommandsKeepTheirWord OBVIOUS
    <2>1. Cmd!SyncEnables BY SyncEnablesOnceDone
    <2>2. Cmd!BindBinds
      <3> SUFFICES ASSUME ~spoiled, NEW d \in Cmd!Done("bind")
                   PROVE  (\A e \in Exports : apiBinding[e] # None) /\ placement = "ready"
        BY DEF Cmd!BindBinds, Cmd!Succeeded
      <3>1. Cmd!FoundBound(d) BY DEF Cmd!CmdIInv, Cmd!BindingsAreThere, Cmd!Done
      <3> QED BY <3>1 DEF Cmd!FoundBound
    <2>3. Cmd!ExportIsBound
      <3> SUFFICES ASSUME ~spoiled, NEW d \in Cmd!Done("apiexport"), NEW e \in cmd[d].made
                   PROVE  apiBinding[e] = "bound"
        BY DEF Cmd!ExportIsBound, Cmd!Succeeded
      <3>1. Cmd!FoundBound(d) BY DEF Cmd!CmdIInv, Cmd!BindingsAreThere, Cmd!Done
      <3> QED BY <3>1 DEF Cmd!FoundBound, Cmd!BindingsReady
    <2> QED BY <2>1, <2>2, <2>3 DEF CommandsKeepTheirWord
  <1> QED BY <1>1, CmdInvariant, PTL
=============================================================================
