-------------------------- MODULE Downstream_proofs --------------------------
(***************************************************************************)
(* What a syncer keeps in the physical cluster is right once everybody is  *)
(* done, for any objects, namespaces, delays and numbers of events: an     *)
(* empty namespace is cleaned and no other, the DNS server resolves all    *)
(* namespaces, and Endpoints are labelled.                                 *)
(*                                                                         *)
(* The three parts share no state; each has an inductive invariant of its  *)
(* own (EpIInv, MapIInv, CleanerIInv, KeptIInv), stated in its module.     *)
(***************************************************************************)
EXTENDS MCDownstream, SequenceTheorems, TLAPS

-----------------------------------------------------------------------------
(* Endpoints *)

LEMMA EndpointsStart == Ep!EpInit => Ep!EpIInv
<1> SUFFICES ASSUME Ep!EpInit PROVE Ep!EpIInv
  OBVIOUS
<1>1. Ep!NoService \in Ep!Services /\ Ep!NoEndpoints \in Ep!EndpointSets
  BY DEF Ep!NoService, Ep!NoEndpoints, Ep!Services, Ep!EndpointSets, Ep!NoUid
<1>2. Ep!EpTypeOK BY <1>1 DEF Ep!EpInit, Ep!EpTypeOK, Ep!NoUid
<1>3. Ep!UidsAreNew /\ Ep!CachesKeepUp /\ Ep!FoundIsDealtWith
  BY DEF Ep!EpInit, Ep!UidsAreNew, Ep!CachesKeepUp, Ep!FoundIsDealtWith, Ep!IsThere, Ep!NoService,
         Ep!NoEndpoints, Ep!NoUid
<1> QED BY <1>2, <1>3 DEF Ep!EpIInv

(* A Service that was found is not forgotten: the cache loses it only with  *)
(* its uid, and a change of it brings the key back.                         *)
LEMMA EndpointsStay ==
    ASSUME Ep!EpIInv, Ep!EpNext \/ UNCHANGED epVars
    PROVE  Ep!EpIInv'
<1> USE DEF Ep!EpIInv, Ep!EpTypeOK, Ep!UidsAreNew, Ep!CachesKeepUp, Ep!FoundIsDealtWith, Ep!EpEvent, Ep!seen,
            Ep!IsThere, Ep!NoService, Ep!NoEndpoints, Ep!NoUid, Ep!Services, Ep!EndpointSets
<1>1. CASE Ep!SeeNamespace
  <2>1. Ep!EpTypeOK' BY <1>1, Zenon DEF Ep!SeeNamespace
  <2>2. seenNS' = TRUE /\ namespace' = TRUE BY <1>1, Zenon DEF Ep!SeeNamespace
  <2>3. Ep!UidsAreNew' /\ Ep!CachesKeepUp' /\ Ep!FoundIsDealtWith' BY <1>1, <2>2 DEF Ep!SeeNamespace
  <2> QED BY <2>1, <2>3
<1>2. CASE Ep!SeeEndpoints
  <2>1. seenEndpoints' \in {endpoints, Ep!NoEndpoints} BY <1>2 DEF Ep!SeeEndpoints, Ep!Told
  <2>2. /\ epQueue' = (epQueue \/ Ep!IsThere(seenEndpoints'))
        /\ UNCHANGED <<namespace, service, endpoints, seenNS, seenService, patching, found, epEvents>>
    BY <1>2 DEF Ep!SeeEndpoints
  <2>3. Ep!EpTypeOK' BY <2>1, <2>2
  <2>4. Ep!UidsAreNew' BY <2>1, <2>2
  <2>5. Ep!CachesKeepUp' BY <2>1, <2>2
  <2>6. Ep!FoundIsDealtWith' BY <2>1, <2>2
  <2> QED BY <2>3, <2>4, <2>5, <2>6
<1>3. CASE Ep!SeeService
  <2>1. /\ seenService' \in {service, Ep!NoService}
        /\ seenService' # service => Ep!IsThere(service) /\ service.uid # seenService.uid
    BY <1>3 DEF Ep!SeeService, Ep!Told
  <2>2. /\ epQueue' = (epQueue \/ Ep!EnqueueService(seenService, seenService'))
        /\ UNCHANGED <<namespace, service, endpoints, seenNS, seenEndpoints, patching, found, epEvents>>
    BY <1>3 DEF Ep!SeeService
  <2>3. Ep!EpTypeOK' BY <2>1, <2>2 DEF Ep!EnqueueService
  <2>4. Ep!UidsAreNew' BY <2>1, <2>2
  <2>5. Ep!CachesKeepUp' BY <2>1, <2>2
  <2>6. Ep!FoundIsDealtWith' BY <2>1, <2>2 DEF Ep!EnqueueService
  <2> QED BY <2>3, <2>4, <2>5, <2>6
<1>4. CASE Ep!Process BY <1>4 DEF Ep!Process
<1>5. CASE Ep!PatchEndpoint
  <2>1. endpoints' \in Ep!EndpointSets /\ endpoints'.uid = endpoints.uid
        /\ endpoints'.kind = IF Ep!IsThere(endpoints) THEN "upsync" ELSE "none"
    BY <1>5 DEF Ep!PatchEndpoint
  <2> QED BY <1>5, <2>1 DEF Ep!PatchEndpoint
<1>6. CASE Ep!PatchFails
  <2>1. /\ patching' = FALSE /\ epQueue' = TRUE /\ epEvents' = epEvents + 1
        /\ UNCHANGED <<namespace, service, endpoints, seenNS, seenService, seenEndpoints, found>>
    BY <1>6 DEF Ep!PatchFails, Ep!ProcessNextWorkItem
  <2>2. Ep!EpTypeOK'
    <3>1. namespace' \in BOOLEAN /\ seenNS' \in BOOLEAN /\ epQueue' \in BOOLEAN /\ patching' \in BOOLEAN
      BY <2>1, Zenon
    <3>2. epEvents' \in Nat /\ found' \in Nat BY <2>1
    <3>3. {service, seenService}' \subseteq Ep!Services /\ {endpoints, seenEndpoints}' \subseteq Ep!EndpointSets
      BY <2>1, Zenon
    <3> QED BY <3>1, <3>2, <3>3
  <2>3. Ep!UidsAreNew' BY <2>1
  <2>4. Ep!CachesKeepUp' BY <2>1
  <2>5. Ep!FoundIsDealtWith' BY <2>1
  <2> QED BY <2>2, <2>3, <2>4, <2>5
<1>7. CASE Ep!NamespaceIsCreated BY <1>7 DEF Ep!NamespaceIsCreated
<1>8. CASE Ep!ServiceChanges
  <2>1. PICK k \in {"plain", "owned", "derived"} :
           service' = [uid |-> IF Ep!IsThere(service) THEN service.uid ELSE epEvents', kind |-> k]
    BY <1>8 DEF Ep!ServiceChanges
  <2> QED BY <1>8, <2>1 DEF Ep!ServiceChanges
<1>9. CASE Ep!ServiceIsDeleted
  <2>1. service' = Ep!NoService /\ epEvents' = epEvents + 1 BY <1>9 DEF Ep!ServiceIsDeleted
  <2> QED BY <1>9, <2>1 DEF Ep!ServiceIsDeleted
<1>10. CASE Ep!EndpointsFollow BY <1>10 DEF Ep!EndpointsFollow
<1>11. CASE UNCHANGED epVars BY <1>11 DEF epVars
<1> QED BY <1>1, <1>2, <1>3, <1>4, <1>5, <1>6, <1>7, <1>8, <1>9, <1>10, <1>11 DEF Ep!EpNext

-----------------------------------------------------------------------------
(* The table of namespaces *)

LEMMA TablesStart == Map!MapInit => Map!MapIInv
BY DEF Map!MapInit, Map!MapIInv, Map!MapTypeOK, Map!TablesGrow, Map!Tables

(* A namespace that has been processed stays in the table, or is taken out  *)
(* by a worker whose list is older.                                         *)
LEMMA TablesStay ==
    ASSUME Map!MapIInv, Map!MapNext \/ UNCHANGED mapVars
    PROVE  Map!MapIInv'
<1> USE DEF Map!MapIInv, Map!MapTypeOK, Map!Tables, Map!MapEvent
<1>1. ASSUME NEW n \in Names, Map!DeliverNamespace(n) PROVE Map!MapIInv'
  BY <1>1 DEF Map!DeliverNamespace, Map!TablesGrow, Map!Busy, Map!Table
<1>2. ASSUME NEW n \in Names, Map!NamespaceComes(n) \/ Map!NamespaceIsDeleted(n) PROVE Map!MapIInv'
  BY <1>2 DEF Map!NamespaceComes, Map!NamespaceIsDeleted, Map!TablesGrow, Map!Busy, Map!Table
<1>3. ASSUME NEW w \in MapWorkers, NEW n \in Names, Map!ProcessKey(w, n) PROVE Map!MapIInv'
  <2>1. CASE n \in listed
    <3> DEFINE work == [key |-> n, data |-> listed, list |-> listed]
    <3>1. mapWork' = [mapWork EXCEPT ![w] = work]
      BY <1>3, <2>1 DEF Map!ProcessKey, Map!Data
    <3>2. work \in Map!MapWork BY DEF Map!MapWork
    <3>3. Map!MapTypeOK' BY <1>3, <3>1, <3>2 DEF Map!ProcessKey
    <3>4. work # None BY NoneIsNoTable
    <3>5. /\ mapWork'[w] = work /\ \A v \in MapWorkers \ {w} : mapWork'[v] = mapWork[v]
          /\ work.key = n /\ work.data = listed /\ work.list = listed
      BY <3>1
    <3> HIDE DEF work
    <3>6. Map!TablesGrow'
      BY <1>3, <2>1, <3>4, <3>5 DEF Map!ProcessKey, Map!TablesGrow, Map!Busy, Map!Table
    <3> QED BY <3>3, <3>6
  <2>2. CASE n \notin listed
    <3>1. mapWork' = mapWork BY <1>3, <2>2 DEF Map!ProcessKey
    <3> QED BY <1>3, <2>2, <3>1 DEF Map!ProcessKey, Map!TablesGrow, Map!Busy, Map!Table
  <2> QED BY <2>1, <2>2
<1>4. ASSUME NEW w \in MapWorkers, Map!UpdateDNSConfigMap(w) PROVE Map!MapIInv'
  <2>1. mapWork[w] \in Map!MapWork BY <1>4 DEF Map!UpdateDNSConfigMap
  <2>2. mapWork[w].data \in SUBSET Names BY <2>1 DEF Map!MapWork
  <2>3. configMap' = mapWork[w].data /\ mapWork[w].data # None
    BY <1>4, <2>2, NoneIsNoTable DEF Map!UpdateDNSConfigMap
  <2>4. Map!MapTypeOK' BY <1>4, <2>2 DEF Map!UpdateDNSConfigMap
  <2>5. /\ mapWork'[w] = None /\ \A v \in MapWorkers \ {w} : mapWork'[v] = mapWork[v]
        /\ UNCHANGED <<listed, mapQueue>>
        /\ overtaken' = ((overtaken \cup Map!Table) \cap listed) \ mapWork[w].list
        /\ Map!Table' = mapWork[w].data
    BY <1>4, <2>3 DEF Map!UpdateDNSConfigMap, Map!Table
  <2>6. ASSUME NEW n \in listed \ mapQueue PROVE n \in Map!Table' \cup overtaken' \/ Map!Busy(n)'
    <3>1. CASE n \in mapWork[w].list BY <1>4, <2>5, <3>1 DEF Map!UpdateDNSConfigMap, Map!TablesGrow
    <3>2. CASE n \notin mapWork[w].list
      BY <1>4, <2>5, <2>6, <3>2 DEF Map!UpdateDNSConfigMap, Map!TablesGrow, Map!Busy
    <3> QED BY <3>1, <3>2
  <2>7. Map!TablesGrow' BY <2>5, <2>6 DEF Map!TablesGrow
  <2> QED BY <2>4, <2>7
<1>5. ASSUME NEW w \in MapWorkers, Map!UpdateDNSConfigMapFails(w) PROVE Map!MapIInv'
  <2>1. mapWork[w] \in Map!MapWork BY <1>5 DEF Map!UpdateDNSConfigMapFails
  <2>2. mapWork[w].key \in Names BY <2>1 DEF Map!MapWork
  <2>3. Map!MapTypeOK' BY <1>5, <2>2 DEF Map!UpdateDNSConfigMapFails
  <2>4. Map!TablesGrow'
    BY <1>5, <2>2 DEF Map!UpdateDNSConfigMapFails, Map!TablesGrow, Map!Busy, Map!Table
  <2> QED BY <2>3, <2>4
<1>6. CASE Map!UpdateFromConfigmap \/ Map!DNSServerRestarts
  BY <1>6 DEF Map!UpdateFromConfigmap, Map!DNSServerRestarts, Map!TablesGrow, Map!Busy, Map!Table
<1>7. CASE Map!SyncerRestarts
  BY <1>7 DEF Map!SyncerRestarts, Map!TablesGrow, Map!Busy, Map!Table
<1>8. CASE UNCHANGED mapVars BY <1>8 DEF mapVars, Map!TablesGrow, Map!Busy, Map!Table
<1> QED BY <1>1, <1>2, <1>3, <1>4, <1>5, <1>6, <1>7, <1>8 DEF Map!MapNext

-----------------------------------------------------------------------------
(* The cleaner: what its steps share *)

(* A plan that is made, or kept, has its time to come if it had before.     *)
LEMMA PlanIsNew ==
    ASSUME TypeOK, PlanCleaning
    PROVE  /\ planned' = TRUE /\ left' \in 0 .. Delay /\ timer' \in 0 .. Delay
           /\ ~planned \/ timer > 0 => timer' > 0
           /\ timer > 0 => timer' > 0
           /\ timer' = 0 => timer = 0 /\ planned
BY Constants DEF TypeOK, PlanCleaning, plan

LEMMA CancelledIsTyped ==
    ASSUME TypeOK, CancelCleaning \/ UNCHANGED plan
    PROVE  planned' \in BOOLEAN /\ left' \in 0 .. Delay /\ timer' \in 0 .. Delay
<1>1. planned' \in BOOLEAN BY Zenon DEF TypeOK, CancelCleaning, plan
<1>2. left' \in 0 .. Delay /\ timer' \in 0 .. Delay
  <2>1. CASE CancelCleaning
    <3>1. left' = 0 /\ timer' = timer BY <2>1 DEF CancelCleaning
    <3> QED BY <3>1, Constants DEF TypeOK
  <2>2. CASE UNCHANGED plan BY <2>2 DEF TypeOK, plan
  <2> QED BY <2>1, <2>2
<1> QED BY <1>1, <1>2

(* The tail of a sequence ends as the sequence does.                        *)
LEMMA TailEnds ==
    ASSUME NEW S, NEW q \in Seq(S), q # <<>>
    PROVE  /\ Head(q) \in S /\ Tail(q) \in Seq(S)
           /\ Tail(q) = <<>> => Head(q) = q[Len(q)]
           /\ Tail(q) # <<>> => Tail(q)[Len(Tail(q))] = q[Len(q)]
           /\ Len(Tail(q)) = Len(q) - 1
           /\ \A i \in 1 .. Len(Tail(q)) : Tail(q)[i] = q[i + 1]
<1>1. /\ Head(q) \in S /\ Tail(q) \in Seq(S) /\ Len(Tail(q)) = Len(q) - 1
      /\ \A i \in 1 .. Len(Tail(q)) : Tail(q)[i] = q[i + 1]
  BY HeadTailProperties
<1>2. Len(q) \in Nat \ {0} /\ Head(q) = q[1] OBVIOUS
<1>3. ASSUME Tail(q) = <<>> PROVE Head(q) = q[Len(q)]
  <2>1. Len(<<>>) = 0 OBVIOUS
  <2>2. Len(Tail(q)) = 0 BY <1>3, <2>1, Zenon
  <2>3. Len(q) - 1 = 0 BY <1>1, <2>2, Zenon
  <2>4. Len(q) = 1 BY <1>2, <2>3
  <2> QED BY <1>2, <2>4, Zenon
<1>4. ASSUME Tail(q) # <<>> PROVE Tail(q)[Len(Tail(q))] = q[Len(q)]
  <2>1. Len(Tail(q)) \in 1 .. Len(Tail(q)) BY <1>1, <1>4
  <2> QED BY <1>1, <2>1
<1> QED BY <1>1, <1>2, <1>3, <1>4

LEMMA ObjectIsSet ==
    ASSUME TypeOK, ObjectsCatchUp, NEW o \in Objects, NEW s \in Lives, SetDown(o, s),
           downSeen' = downSeen
    PROVE  /\ down' \in [Objects -> Lives] /\ downWatch' \in [Objects -> Seq(Lives)]
           /\ down'[o] = s /\ downWatch'[o] # <<>>
           /\ \A p \in Objects \ {o} : down'[p] = down[p] /\ downWatch'[p] = downWatch[p]
           /\ ObjectsCatchUp'
<1>1. downWatch[o] \in Seq(Lives) BY DEF TypeOK
<1>2. /\ Append(downWatch[o], s) \in Seq(Lives) /\ Append(downWatch[o], s) # <<>>
      /\ Append(downWatch[o], s)[Len(Append(downWatch[o], s))] = s
  BY <1>1
<1>3. down' = [down EXCEPT ![o] = s] /\ downWatch' = [downWatch EXCEPT ![o] = Append(downWatch[o], s)]
  BY DEF SetDown
<1>4. /\ down' \in [Objects -> Lives] /\ downWatch' \in [Objects -> Seq(Lives)]
      /\ down'[o] = s /\ downWatch'[o] = Append(downWatch[o], s)
      /\ \A p \in Objects \ {o} : down'[p] = down[p] /\ downWatch'[p] = downWatch[p]
  BY <1>2, <1>3 DEF TypeOK
<1>5. ObjectsCatchUp' BY <1>2, <1>4 DEF ObjectsCatchUp
<1> QED BY <1>2, <1>4, <1>5

LEMMA NamespaceIsSet ==
    ASSUME TypeOK, NamespaceCatchesUp, NEW s \in Lives, SetDns(s), dnsSeen' = dnsSeen,
           s = "present" => dns = "none"
    PROVE  /\ dns' = s /\ dnsWatch' \in Seq(Lives) /\ dnsWatch' # <<>>
           /\ NamespaceCatchesUp'
<1>1. dnsWatch \in Seq(Lives) BY DEF TypeOK
<1>2. dns' = s /\ dnsWatch' = Append(dnsWatch, s) BY DEF SetDns
<1>3. /\ dnsWatch' \in Seq(Lives) /\ dnsWatch' # <<>> /\ Len(dnsWatch') = Len(dnsWatch) + 1
      /\ dnsWatch'[Len(dnsWatch')] = s
      /\ \A i \in 1 .. Len(dnsWatch) : dnsWatch'[i] = dnsWatch[i]
  BY <1>1, <1>2
<1>4. ASSUME NEW i \in 1 .. Len(dnsWatch'), dnsWatch'[i] = "present"
      PROVE  IF i = 1 THEN dnsSeen = "none" ELSE dnsWatch'[i - 1] = "none"
  <2> Len(dnsWatch) \in Nat BY <1>1
  <2>1. CASE i \in 1 .. Len(dnsWatch)
    <3>1. i # 1 => i - 1 \in 1 .. Len(dnsWatch) BY <2>1
    <3> QED BY <1>3, <1>4, <2>1, <3>1 DEF NamespaceCatchesUp
  <2>2. CASE i = Len(dnsWatch) + 1
    <3>1. dns = "none" BY <1>3, <1>4, <2>2
    <3>2. CASE i = 1
      <4>1. dnsWatch = <<>> BY <1>1, <2>2, <3>2
      <4> QED BY <3>1, <3>2, <4>1 DEF NamespaceCatchesUp
    <3>3. CASE i # 1
      <4>1. Len(dnsWatch) \in 1 .. Len(dnsWatch) /\ dnsWatch # <<>> /\ i - 1 = Len(dnsWatch)
        BY <1>1, <2>2, <3>3
      <4> QED BY <1>3, <3>1, <3>3, <4>1 DEF NamespaceCatchesUp
    <3> QED BY <3>2, <3>3
  <2> QED BY <1>3, <2>1, <2>2
<1> QED BY <1>2, <1>3, <1>4 DEF NamespaceCatchesUp

(* The cleaning is coming if it was, as far as a step does not say more     *)
(* than that an object owes a plan.                                         *)
LEMMA OwingIsEnough ==
    ASSUME NEW o \in Objects, Owes(o)'
    PROVE  CleaningIsComing'
BY DEF CleaningIsComing
-----------------------------------------------------------------------------
(* The cleaner: the spec syncer *)

LEMMA ProcessStays ==
    ASSUME CleanerIInv, NEW o \in Objects, Process(o)
    PROVE  CleanerIInv'
<1> USE DEF CleanerIInv, viewVars, downVars, dnsVars, plan
<1> DEFINE next == IF viewSeen[o] = "none" THEN "orphan" ELSE "ensure"
<1>1. /\ step' = [step EXCEPT ![o] = next] /\ copy' = [copy EXCEPT ![o] = viewSeen[o]]
      /\ next = "ensure" => CancelCleaning
      /\ next = "orphan" => UNCHANGED plan
      /\ queue' = queue \ {o} /\ o \in queue /\ step[o] = "idle"
      /\ UNCHANGED <<viewVars, downVars, dnsVars, delayed, deleting, nsQueue, events>>
  BY DEF Process
<1>2. TypeOK'
  <2>1. planned' \in BOOLEAN /\ left' \in 0 .. Delay /\ timer' \in 0 .. Delay
    BY <1>1, CancelledIsTyped
  <2>2. step' \in [Objects -> Steps] /\ copy' \in [Objects -> Views] /\ queue' \subseteq Objects
    BY <1>1 DEF TypeOK, Steps
  <2> QED BY <1>1, <2>1, <2>2 DEF TypeOK
<1>3. ObjectsCatchUp' BY <1>1 DEF ObjectsCatchUp
<1>4. NamespaceCatchesUp' BY <1>1 DEF NamespaceCatchesUp
<1>5. ReleasedIsGone' BY <1>1 DEF ReleasedIsGone, TypeOK
<1>6. \A p \in Objects : p # o => (Owes(p)' <=> Owes(p)) BY <1>1 DEF Owes, TypeOK
<1>7. CASE next = "ensure"
  <2>1. ~planned' BY <1>1, <1>7 DEF CancelCleaning
  <2>2. Owes(o)' BY <1>1, <1>7 DEF Owes, TypeOK
  <2> QED BY <1>2, <1>3, <1>4, <1>5, <2>1, <2>2, OwingIsEnough DEF PlansAreNew
<1>8. CASE next = "orphan"
  <2>1. Owes(o)' <=> Owes(o) BY <1>1, <1>8 DEF Owes, TypeOK
  <2>2. PlansAreNew' BY <1>1, <1>6, <1>8, <2>1 DEF PlansAreNew, NamespaceIsChanging
  <2>3. CleaningIsComing' BY <1>1, <1>6, <1>8, <2>1 DEF CleaningIsComing, NamespaceIsChanging
  <2> QED BY <1>2, <1>3, <1>4, <1>5, <2>2, <2>3
<1> QED BY <1>7, <1>8

LEMMA OrphanStays ==
    ASSUME CleanerIInv, NEW o \in Objects, DeleteOrphan(o)
    PROVE  CleanerIInv'
<1> USE DEF CleanerIInv, viewVars, dnsVars
<1>1. /\ step[o] = "orphan" /\ step' = [step EXCEPT ![o] = "idle"] /\ PlanCleaning
      /\ UNCHANGED <<queue, copy, viewVars, downSeen, dnsVars, delayed, deleting, nsQueue, events>>
  BY DEF DeleteOrphan, Done, Idle
<1>2. /\ down' \in [Objects -> Lives] /\ downWatch' \in [Objects -> Seq(Lives)]
      /\ \A p \in Objects \ {o} : down'[p] = down[p] /\ downWatch'[p] = downWatch[p]
      /\ view[o] = "none" => UNCHANGED <<down, downWatch>>
      /\ ObjectsCatchUp'
  <2>1. CASE down[o] = "present"
    <3>1. SetDown(o, "terminating") BY <2>1 DEF DeleteOrphan
    <3>2. view[o] # "none" BY <2>1 DEF ReleasedIsGone
    <3> QED BY <1>1, <3>1, <3>2, ObjectIsSet DEF Lives
  <2>2. CASE down[o] # "present"
    BY <1>1, <2>2 DEF DeleteOrphan, TypeOK, ObjectsCatchUp
  <2> QED BY <2>1, <2>2
<1>3. TypeOK' BY <1>1, <1>2, PlanIsNew DEF TypeOK, Steps
<1>4. NamespaceCatchesUp' BY <1>1 DEF NamespaceCatchesUp
<1>5. ReleasedIsGone' BY <1>1, <1>2 DEF ReleasedIsGone, TypeOK
<1>6. \A p \in Objects : Owes(p)' => Owes(p)
  BY <1>1, <1>2 DEF Owes, TypeOK
<1>7. PlansAreNew' BY <1>1, <1>6, PlanIsNew DEF PlansAreNew, NamespaceIsChanging
<1>8. CleaningIsComing'
  <2>1. CASE view[o] # "none" BY <1>1, <2>1 DEF CleaningIsComing
  <2>2. CASE view[o] = "none"
    <3>1. Owes(o) BY <1>1, <2>2 DEF Owes
    <3>2. planned => timer > 0 BY <3>1 DEF PlansAreNew
    <3>3. planned' /\ timer' > 0 BY <1>1, <3>2, PlanIsNew
    <3> QED BY <3>3 DEF CleaningIsComing
  <2> QED BY <2>1, <2>2
<1> QED BY <1>2, <1>3, <1>4, <1>5, <1>7, <1>8

LEMMA EnsureStays ==
    ASSUME CleanerIInv, NEW o \in Objects, EnsureDownstreamNamespaceExists(o)
    PROVE  CleanerIInv'
<1> USE DEF CleanerIInv, viewVars, downVars, cleaner
<1> DEFINE next == IF copy[o] = "assigned" THEN "apply" ELSE "delete"
<1>1. /\ step[o] = "ensure" /\ step' = [step EXCEPT ![o] = next]
      /\ UNCHANGED <<viewVars, downVars, dnsSeen, queue, copy, cleaner, events>>
  BY DEF EnsureDownstreamNamespaceExists
<1>2. /\ dns' \in Lives /\ dnsWatch' \in Seq(Lives) /\ NamespaceCatchesUp'
  <2>1. CASE dnsSeen = "none" /\ dns = "none"
    <3>1. SetDns("present") BY <2>1 DEF EnsureDownstreamNamespaceExists
    <3> QED BY <1>1, <2>1, <3>1, NamespaceIsSet DEF Lives
  <2>2. CASE ~(dnsSeen = "none" /\ dns = "none")
    BY <1>1, <2>2 DEF EnsureDownstreamNamespaceExists, NamespaceCatchesUp, TypeOK
  <2> QED BY <2>1, <2>2
<1>3. TypeOK' BY <1>1, <1>2 DEF TypeOK, Steps
<1>4. ObjectsCatchUp' BY <1>1 DEF ObjectsCatchUp
<1>5. ReleasedIsGone' BY <1>1 DEF ReleasedIsGone, TypeOK
<1>6. Owes(o) /\ Owes(o)' BY <1>1 DEF Owes, TypeOK
<1>7. PlansAreNew' BY <1>1, <1>6 DEF PlansAreNew
<1> QED BY <1>2, <1>3, <1>4, <1>5, <1>6, <1>7, OwingIsEnough

(* What is applied is in the workspace.                                     *)
LEMMA ApplyStays ==
    ASSUME CleanerIInv, NEW o \in Objects, ApplyToDownstream(o)
    PROVE  CleanerIInv'
<1> USE DEF CleanerIInv, viewVars, dnsVars, cleaner
<1>1. /\ step[o] = "apply" /\ step' = [step EXCEPT ![o] = "idle"]
      /\ queue' \in {queue, queue \cup {o}}
      /\ UNCHANGED <<copy, viewVars, downSeen, dnsVars, cleaner, events>>
  BY DEF ApplyToDownstream, Retry, Done, Idle
<1>2. view[o] # "none" BY <1>1 DEF ReleasedIsGone
<1>3. /\ down' \in [Objects -> Lives] /\ downWatch' \in [Objects -> Seq(Lives)]
      /\ \A p \in Objects \ {o} : down'[p] = down[p] /\ downWatch'[p] = downWatch[p]
      /\ ObjectsCatchUp'
  <2>1. CASE down[o] = "none" /\ dns = "present"
    <3>1. SetDown(o, "present") BY <2>1 DEF ApplyToDownstream
    <3> QED BY <1>1, <3>1, ObjectIsSet DEF Lives
  <2>2. CASE ~(down[o] = "none" /\ dns = "present")
    BY <1>1, <2>2 DEF ApplyToDownstream, TypeOK, ObjectsCatchUp
  <2> QED BY <2>1, <2>2
<1>4. TypeOK' BY <1>1, <1>3 DEF TypeOK, Steps
<1>5. NamespaceCatchesUp' BY <1>1 DEF NamespaceCatchesUp
<1>6. ReleasedIsGone' BY <1>1, <1>2, <1>3 DEF ReleasedIsGone, TypeOK
<1>7. \A p \in Objects : Owes(p)' => Owes(p) BY <1>1, <1>2, <1>3 DEF Owes, TypeOK
<1>8. PlansAreNew' BY <1>1, <1>7 DEF PlansAreNew, NamespaceIsChanging
<1>9. CleaningIsComing' BY <1>1, <1>2 DEF CleaningIsComing
<1> QED BY <1>3, <1>4, <1>5, <1>6, <1>8, <1>9

(* What is released is gone, and is still to be seen.                       *)
LEMMA DeleteStays ==
    ASSUME CleanerIInv, NEW o \in Objects, DeleteFromDownstream(o)
    PROVE  CleanerIInv'
<1> USE DEF CleanerIInv, dnsVars
<1>1. /\ step[o] = "delete" /\ step' = [step EXCEPT ![o] = "idle"]
      /\ UNCHANGED <<copy, viewSeen, upstreamNs, downSeen, dnsVars, delayed, deleting, nsQueue, events>>
  BY DEF DeleteFromDownstream, EnsureUpstreamFinalizerRemoved, Retry, Done, Idle
<1>2. NamespaceCatchesUp' BY <1>1 DEF NamespaceCatchesUp
<1>3. Owes(o) BY <1>1 DEF Owes
<1>4. CASE down[o] = "none"
  <2>1. UNCHANGED <<down, downWatch, plan>> /\ queue' \in {queue, queue \cup {o}}
    BY <1>4 DEF DeleteFromDownstream, EnsureUpstreamFinalizerRemoved, Retry, Done
  <2>2. \/ view' = view
        \/ view' = [view EXCEPT ![o] = "none"] /\ viewSeen[o] = "leaving" /\ queue' = queue
    BY <1>4 DEF DeleteFromDownstream, EnsureUpstreamFinalizerRemoved, Done
  <2>3. TypeOK' BY <1>1, <2>1, <2>2 DEF TypeOK, Steps, Views, plan
  <2>4. ObjectsCatchUp' BY <1>1, <2>1 DEF ObjectsCatchUp
  <2>5. ReleasedIsGone' BY <1>1, <1>4, <2>1, <2>2 DEF ReleasedIsGone, TypeOK
  <2>6. \A p \in Objects \ {o} : Owes(p)' <=> Owes(p) BY <1>1, <2>1, <2>2 DEF Owes, TypeOK
  <2>7. PlansAreNew' BY <1>3, <2>1 DEF PlansAreNew, plan
  <2>8. CleaningIsComing'
    <3>1. CASE view'[o] = "none"
      <4>1. CASE view' = [view EXCEPT ![o] = "none"] /\ viewSeen[o] = "leaving"
        <5>1. Owes(o)' BY <1>1, <3>1, <4>1 DEF Owes
        <5> QED BY <5>1, OwingIsEnough
      <4>2. CASE view' = view
        <5>1. view[o] = "none" BY <3>1, <4>2
        <5>2. Owes(o)'
          <6>1. viewSeen[o] = "leaving" => o \in queue'
            BY <1>4, <5>1 DEF DeleteFromDownstream, EnsureUpstreamFinalizerRemoved, Retry
          <6>2. viewSeen[o] = "none" => o \in queue
            BY <1>1 DEF ReleasedIsGone
          <6> QED BY <1>1, <2>1, <3>1, <6>1, <6>2 DEF Owes, TypeOK, Views, ReleasedIsGone
        <5> QED BY <5>2, OwingIsEnough
      <4> QED BY <2>2, <4>1, <4>2
    <3>2. CASE view'[o] # "none" BY <3>2 DEF CleaningIsComing
    <3> QED BY <3>1, <3>2
  <2> QED BY <1>2, <2>3, <2>4, <2>5, <2>7, <2>8
<1>5. CASE down[o] # "none"
  <2>1. view' = view /\ queue' = queue /\ PlanCleaning BY <1>5 DEF DeleteFromDownstream, Done
  <2>2. view[o] # "none" BY <1>5 DEF ReleasedIsGone
  <2>3. /\ down' \in [Objects -> Lives] /\ downWatch' \in [Objects -> Seq(Lives)]
        /\ \A p \in Objects \ {o} : down'[p] = down[p] /\ downWatch'[p] = downWatch[p]
        /\ ObjectsCatchUp'
    <3>1. CASE down[o] = "present"
      <4>1. SetDown(o, "terminating") BY <1>5, <3>1 DEF DeleteFromDownstream
      <4> QED BY <1>1, <4>1, ObjectIsSet DEF Lives
    <3>2. CASE down[o] # "present"
      BY <1>1, <1>5, <3>2 DEF DeleteFromDownstream, TypeOK, ObjectsCatchUp
    <3> QED BY <3>1, <3>2
  <2>4. TypeOK' BY <1>1, <2>1, <2>3, PlanIsNew DEF TypeOK, Steps
  <2>5. ReleasedIsGone' BY <1>1, <2>1, <2>2, <2>3 DEF ReleasedIsGone, TypeOK
  <2>6. PlansAreNew'
    <3>1. planned => timer > 0 BY <1>3 DEF PlansAreNew
    <3> QED BY <2>1, <3>1, PlanIsNew DEF PlansAreNew
  <2>7. CleaningIsComing' BY <2>1, <2>2 DEF CleaningIsComing
  <2> QED BY <1>2, <2>3, <2>4, <2>5, <2>6, <2>7
<1> QED BY <1>4, <1>5
-----------------------------------------------------------------------------
(* The cleaner: its controller, the informers, the cluster and the clock *)

LEMMA ProcessNamespaceStays ==
    ASSUME CleanerIInv, ~upstreamNs, ProcessNamespace
    PROVE  CleanerIInv'
<1> USE DEF CleanerIInv, viewVars, downVars, dnsVars, workers
<1>1. /\ nsQueue /\ nsQueue' = FALSE
      /\ UNCHANGED <<viewVars, downVars, dnsVars, workers, delayed, deleting, events>>
      /\ dnsSeen # "present" => UNCHANGED plan
      /\ dnsSeen = "present" => PlanCleaning
  BY DEF ProcessNamespace
<1>2. planned => timer > 0 BY <1>1 DEF PlansAreNew, NamespaceIsChanging
<1>3. /\ planned' \in BOOLEAN /\ left' \in 0 .. Delay /\ timer' \in 0 .. Delay
      /\ planned' => timer' > 0
      /\ dnsSeen = "present" => planned'
  <2>1. CASE dnsSeen = "present"
    <3>1. PlanCleaning BY <1>1, <2>1
    <3>2. planned' = TRUE /\ left' \in 0 .. Delay /\ timer' \in 0 .. Delay BY <3>1, PlanIsNew
    <3>3. timer' > 0 BY <1>2, <3>1, PlanIsNew
    <3>4. planned' \in BOOLEAN BY <3>2, Zenon
    <3> QED BY <3>2, <3>3, <3>4
  <2>2. CASE dnsSeen # "present"
    <3>1. UNCHANGED plan BY <1>1, <2>2
    <3> QED BY <1>2, <2>2, <3>1, CancelledIsTyped DEF plan
  <2> QED BY <2>1, <2>2
<1>4. TypeOK' BY <1>1, <1>3 DEF TypeOK
<1>5. ObjectsCatchUp' /\ NamespaceCatchesUp' /\ ReleasedIsGone'
  BY <1>1 DEF ObjectsCatchUp, NamespaceCatchesUp, ReleasedIsGone
<1>6. PlansAreNew' BY <1>3 DEF PlansAreNew
<1>7. CleaningIsComing'
  <2>1. CASE dnsSeen = "present" BY <1>3, <2>1 DEF CleaningIsComing
  <2>2. CASE dnsSeen # "present"
    <3>1. dns' = "present" => NamespaceIsChanging'
      BY <1>1, <2>2 DEF NamespaceCatchesUp, NamespaceIsChanging
    <3> QED BY <3>1 DEF CleaningIsComing
  <2> QED BY <2>1, <2>2
<1> QED BY <1>4, <1>5, <1>6, <1>7

LEMMA ProcessDelayedStays ==
    ASSUME CleanerIInv, ProcessDelayed
    PROVE  CleanerIInv'
<1> USE DEF CleanerIInv, viewVars, downVars, dnsVars, workers, plan
<1>1. /\ delayed' = FALSE /\ deleting' = (planned /\ downSeen = {})
      /\ UNCHANGED <<viewVars, downVars, dnsVars, workers, plan, nsQueue, events>>
  BY DEF ProcessDelayed
<1>2. TypeOK' BY <1>1 DEF TypeOK
<1>3. ObjectsCatchUp' /\ NamespaceCatchesUp' /\ ReleasedIsGone'
  BY <1>1 DEF ObjectsCatchUp, NamespaceCatchesUp, ReleasedIsGone
<1>4. \A p \in Objects : Owes(p)' <=> Owes(p) BY <1>1 DEF Owes
<1>5. PlansAreNew' BY <1>1, <1>4 DEF PlansAreNew, NamespaceIsChanging
<1>6. ASSUME \A p \in Objects : view[p] = "none" /\ ~Owes(p)
      PROVE  downSeen = {}
  BY <1>6 DEF Owes, ReleasedIsGone, ObjectsCatchUp, TypeOK
<1>7. CleaningIsComing' BY <1>1, <1>4, <1>6 DEF CleaningIsComing, NamespaceIsChanging
<1> QED BY <1>2, <1>3, <1>5, <1>7

LEMMA DeleteNamespaceStays ==
    ASSUME CleanerIInv, DeleteDownstreamNamespace
    PROVE  CleanerIInv'
<1> USE DEF CleanerIInv, viewVars, downVars, workers
<1>1. /\ deleting' = FALSE /\ CancelCleaning
      /\ UNCHANGED <<viewVars, downVars, dnsSeen, workers, delayed, nsQueue, events>>
  BY DEF DeleteDownstreamNamespace
<1>2. dns' \in Lives /\ dns' # "present" /\ dnsWatch' \in Seq(Lives) /\ NamespaceCatchesUp'
  <2>1. CASE dns = "present"
    <3>1. SetDns("terminating") BY <2>1 DEF DeleteDownstreamNamespace
    <3> QED BY <1>1, <3>1, NamespaceIsSet DEF Lives
  <2>2. CASE dns # "present"
    BY <1>1, <2>2 DEF DeleteDownstreamNamespace, NamespaceCatchesUp, TypeOK
  <2> QED BY <2>1, <2>2
<1>3. TypeOK'
  <2>1. deleting' \in BOOLEAN BY <1>1, Zenon
  <2>2. planned' \in BOOLEAN /\ left' \in 0 .. Delay /\ timer' \in 0 .. Delay BY <1>1, CancelledIsTyped
  <2> QED BY <1>1, <1>2, <2>1, <2>2 DEF TypeOK
<1>4. ObjectsCatchUp' /\ ReleasedIsGone' BY <1>1 DEF ObjectsCatchUp, ReleasedIsGone
<1>5. PlansAreNew' /\ CleaningIsComing'
  BY <1>1, <1>2 DEF PlansAreNew, CleaningIsComing, CancelCleaning
<1> QED BY <1>2, <1>3, <1>4, <1>5

LEMMA DeliverViewStays ==
    ASSUME CleanerIInv, NEW o \in Objects, DeliverView(o)
    PROVE  CleanerIInv'
<1> USE DEF CleanerIInv, downVars, dnsVars, cleaner
<1>1. /\ viewSeen[o] # view[o] /\ viewSeen' = [viewSeen EXCEPT ![o] = view[o]]
      /\ queue' = queue \cup {o}
      /\ UNCHANGED <<view, upstreamNs, downVars, dnsVars, step, copy, cleaner, events>>
  BY DEF DeliverView
<1>2. TypeOK' BY <1>1 DEF TypeOK
<1>3. ObjectsCatchUp' /\ NamespaceCatchesUp' BY <1>1 DEF ObjectsCatchUp, NamespaceCatchesUp
<1>4. ReleasedIsGone' BY <1>1 DEF ReleasedIsGone, TypeOK
<1>5. \A p \in Objects : Owes(p)' <=> Owes(p) BY <1>1 DEF Owes, TypeOK
<1>6. PlansAreNew' BY <1>1, <1>5 DEF PlansAreNew, NamespaceIsChanging
<1>7. CleaningIsComing' BY <1>1, <1>5 DEF CleaningIsComing, NamespaceIsChanging
<1> QED BY <1>2, <1>3, <1>4, <1>6, <1>7

LEMMA DeliverObjectStays ==
    ASSUME CleanerIInv, NEW o \in Objects, DeliverObject(o)
    PROVE  CleanerIInv'
<1> USE DEF CleanerIInv, viewVars, dnsVars
<1> DEFINE head == Head(downWatch[o])
           tail == Tail(downWatch[o])
<1>1. /\ downWatch[o] # <<>> /\ downWatch' = [downWatch EXCEPT ![o] = tail]
      /\ downSeen' = IF head = "none" THEN downSeen \ {o} ELSE downSeen \cup {o}
      /\ head = "none" /\ dnsSeen # "none" => queue' = queue \cup {o} /\ PlanCleaning
      /\ ~(head = "none" /\ dnsSeen # "none") => UNCHANGED <<queue, plan>>
      /\ UNCHANGED <<viewVars, down, dnsVars, step, copy, delayed, deleting, nsQueue, events>>
  BY DEF DeliverObject, ObjectDeleted
<1>2. downWatch[o] \in Seq(Lives) BY DEF TypeOK
<1>3. /\ tail \in Seq(Lives)
      /\ tail = <<>> => head = downWatch[o][Len(downWatch[o])]
      /\ tail # <<>> => tail[Len(tail)] = downWatch[o][Len(downWatch[o])]
  BY <1>1, <1>2, TailEnds
<1>4. planned' \in BOOLEAN /\ left' \in 0 .. Delay /\ timer' \in 0 .. Delay
  BY <1>1, PlanIsNew DEF TypeOK, plan
<1>5. queue' \subseteq Objects BY <1>1 DEF TypeOK
<1>6. TypeOK' BY <1>1, <1>3, <1>4, <1>5 DEF TypeOK
<1>7. ObjectsCatchUp'
  <2>1. downWatch'[o] = tail /\ \A p \in Objects \ {o} : downWatch'[p] = downWatch[p]
    BY <1>1 DEF TypeOK
  <2>2. downWatch[o][Len(downWatch[o])] = down[o] BY <1>1 DEF ObjectsCatchUp
  <2> QED BY <1>1, <1>3, <2>1, <2>2 DEF ObjectsCatchUp
<1>8. NamespaceCatchesUp' BY <1>1 DEF NamespaceCatchesUp
<1>9. ReleasedIsGone' BY <1>1 DEF ReleasedIsGone, TypeOK
<1>10. \A p \in Objects : Owes(p)' => Owes(p) BY <1>1 DEF Owes, TypeOK
<1>11. \A p \in Objects \ {o} : Owes(p)' <=> Owes(p) BY <1>1 DEF Owes, TypeOK
<1>12. PlansAreNew'
  <2>1. CASE head = "none" /\ dnsSeen # "none"
    BY <1>1, <1>10, <2>1, PlanIsNew DEF PlansAreNew, NamespaceIsChanging
  <2>2. CASE ~(head = "none" /\ dnsSeen # "none")
    BY <1>1, <1>10, <2>2 DEF PlansAreNew, NamespaceIsChanging, plan
  <2> QED BY <2>1, <2>2
<1>13. CleaningIsComing'
  <2>1. CASE view[o] # "none" BY <1>1, <2>1 DEF CleaningIsComing
  <2>2. CASE view[o] = "none" /\ dnsSeen = "none"
    <3>1. dns' = "present" => NamespaceIsChanging'
      BY <1>1, <2>2 DEF NamespaceCatchesUp, NamespaceIsChanging
    <3> QED BY <3>1 DEF CleaningIsComing
  <2>3. CASE view[o] = "none" /\ dnsSeen # "none"
    <3>1. down[o] = "none" BY <2>3 DEF ReleasedIsGone
    <3>2. CASE tail = <<>>
      <4>1. head = "none" BY <1>1, <1>3, <3>1, <3>2 DEF ObjectsCatchUp
      <4>2. Owes(o)' BY <1>1, <2>3, <4>1 DEF Owes
      <4> QED BY <4>2, OwingIsEnough
    <3>3. CASE tail # <<>>
      <4>1. Owes(o)' BY <1>1, <2>3, <3>3 DEF Owes, TypeOK
      <4> QED BY <4>1, OwingIsEnough
    <3> QED BY <3>2, <3>3
  <2> QED BY <2>1, <2>2, <2>3
<1> QED BY <1>6, <1>7, <1>8, <1>9, <1>12, <1>13
(* An addition is not missed: the controller is told of it.                 *)
LEMMA DeliverNamespaceStays ==
    ASSUME CleanerIInv, DeliverNamespace
    PROVE  CleanerIInv'
<1> USE DEF CleanerIInv, viewVars, downVars, workers
<1>1. /\ dnsWatch # <<>> /\ dnsWatch' = Tail(dnsWatch) /\ dnsSeen' = Head(dnsWatch)
      /\ nsQueue' = (nsQueue \/ dnsSeen = "none" \/ dnsSeen' = "none")
      /\ UNCHANGED <<viewVars, downVars, dns, workers, planned, left, timer, delayed, deleting, events>>
  BY DEF DeliverNamespace
<1>2. dnsWatch \in Seq(Lives) BY DEF TypeOK
<1>3. /\ dnsSeen' \in Lives /\ dnsWatch' \in Seq(Lives)
      /\ dnsWatch' = <<>> => dnsSeen' = dnsWatch[Len(dnsWatch)]
      /\ dnsWatch' # <<>> => dnsWatch'[Len(dnsWatch')] = dnsWatch[Len(dnsWatch)]
      /\ Len(dnsWatch') = Len(dnsWatch) - 1
      /\ \A i \in 1 .. Len(dnsWatch') : dnsWatch'[i] = dnsWatch[i + 1]
  BY <1>1, <1>2, TailEnds
<1>4. /\ dnsSeen' = dnsWatch[1] /\ 1 \in 1 .. Len(dnsWatch) /\ Len(dnsWatch) \in Nat BY <1>1, <1>2
<1>5. TypeOK'
  <2>1. nsQueue' \in BOOLEAN BY <1>1, Zenon DEF TypeOK
  <2> QED BY <1>1, <1>3, <2>1 DEF TypeOK
<1>6. ObjectsCatchUp' /\ ReleasedIsGone' BY <1>1 DEF ObjectsCatchUp, ReleasedIsGone
<1>7. NamespaceCatchesUp'
  <2>1. dns' = IF dnsWatch' = <<>> THEN dnsSeen' ELSE dnsWatch'[Len(dnsWatch')]
    BY <1>1, <1>3 DEF NamespaceCatchesUp
  <2>2. ASSUME NEW i \in 1 .. Len(dnsWatch'), dnsWatch'[i] = "present"
        PROVE  IF i = 1 THEN dnsSeen' = "none" ELSE dnsWatch'[i - 1] = "none"
    <3>1. i + 1 \in 1 .. Len(dnsWatch) /\ i + 1 # 1 /\ (i + 1) - 1 = i BY <1>3, <1>4
    <3>2. dnsWatch[i + 1] = "present" BY <1>3, <2>2
    <3>3. dnsWatch[i] = "none" BY <3>1, <3>2 DEF NamespaceCatchesUp
    <3>4. CASE i = 1 BY <1>4, <3>3, <3>4
    <3>5. CASE i # 1
      <4>1. i - 1 \in 1 .. Len(dnsWatch') /\ (i - 1) + 1 = i BY <1>3, <1>4, <3>5
      <4> QED BY <1>3, <3>3, <3>5, <4>1
    <3> QED BY <3>4, <3>5
  <2> QED BY <2>1, <2>2 DEF NamespaceCatchesUp
<1>8. planned => timer > 0 BY <1>1 DEF PlansAreNew, NamespaceIsChanging
<1>9. PlansAreNew' BY <1>1, <1>8 DEF PlansAreNew
<1>10. dns' = "present" => NamespaceIsChanging'
  <2>1. CASE dnsWatch' # <<>> BY <2>1 DEF NamespaceIsChanging
  <2>2. CASE dnsWatch' = <<>> /\ dns = "present"
    <3>1. dnsWatch[1] = "present" BY <1>1, <1>3, <1>4, <2>2 DEF NamespaceCatchesUp
    <3>2. dnsSeen = "none" BY <1>4, <3>1 DEF NamespaceCatchesUp
    <3>3. nsQueue' BY <1>1, <3>2, Zenon
    <3> QED BY <3>3 DEF NamespaceIsChanging
  <2> QED BY <1>1, <2>1, <2>2
<1>11. CleaningIsComing' BY <1>10 DEF CleaningIsComing
<1> QED BY <1>5, <1>6, <1>7, <1>9, <1>11

LEMMA ClusterStays ==
    ASSUME CleanerIInv, Cluster
    PROVE  CleanerIInv'
<1> USE DEF CleanerIInv, viewVars, workers, cleaner
<1>1. ASSUME NEW o \in Objects, ObjectGoes(o) \/ NamespaceEmpties(o)
      PROVE  CleanerIInv'
  <2> USE DEF dnsVars
  <2>1. /\ down[o] # "none" /\ (SetDown(o, "none") \/ SetDown(o, "terminating"))
        /\ UNCHANGED <<viewVars, downSeen, dnsVars, workers, cleaner, events>>
    BY <1>1 DEF ObjectGoes, NamespaceEmpties
  <2>2. /\ down' \in [Objects -> Lives] /\ downWatch' \in [Objects -> Seq(Lives)]
        /\ \A p \in Objects \ {o} : down'[p] = down[p] /\ downWatch'[p] = downWatch[p]
        /\ ObjectsCatchUp'
    BY <2>1, ObjectIsSet DEF Lives
  <2>3. view[o] # "none" BY <2>1 DEF ReleasedIsGone
  <2>4. TypeOK' BY <2>1, <2>2 DEF TypeOK
  <2>5. NamespaceCatchesUp' BY <2>1 DEF NamespaceCatchesUp
  <2>6. ReleasedIsGone' BY <2>1, <2>2, <2>3 DEF ReleasedIsGone
  <2>7. \A p \in Objects : Owes(p)' <=> Owes(p) BY <2>1, <2>2, <2>3 DEF Owes
  <2>8. PlansAreNew' BY <2>1, <2>7 DEF PlansAreNew, NamespaceIsChanging
  <2>9. CleaningIsComing' BY <2>1, <2>3 DEF CleaningIsComing
  <2> QED BY <2>2, <2>4, <2>5, <2>6, <2>8, <2>9
<1>2. CASE NamespaceGoes
  <2> USE DEF downVars
  <2>1. /\ dns = "terminating" /\ SetDns("none")
        /\ UNCHANGED <<viewVars, downVars, dnsSeen, workers, cleaner, events>>
    BY <1>2 DEF NamespaceGoes
  <2>2. dns' = "none" /\ dnsWatch' \in Seq(Lives) /\ NamespaceCatchesUp'
    BY <2>1, NamespaceIsSet DEF Lives
  <2>3. TypeOK' BY <2>1, <2>2 DEF TypeOK, Lives
  <2>4. ObjectsCatchUp' /\ ReleasedIsGone' BY <2>1 DEF ObjectsCatchUp, ReleasedIsGone
  <2>5. PlansAreNew' BY <2>1 DEF PlansAreNew, NamespaceIsChanging
  <2>6. CleaningIsComing' BY <2>2 DEF CleaningIsComing
  <2> QED BY <2>2, <2>3, <2>4, <2>5, <2>6
<1> QED BY <1>1, <1>2 DEF Cluster

(* The clock moves only when no plan is owed.                               *)
LEMMA TickStays ==
    ASSUME Prompt, CleanerIInv, Tick
    PROVE  CleanerIInv'
<1> USE DEF CleanerIInv, viewVars, downVars, dnsVars, workers
<1>1. /\ left' = IF left > 0 THEN left - 1 ELSE 0
      /\ timer' = IF timer > 0 THEN timer - 1 ELSE 0
      /\ delayed' = (delayed \/ timer = 1) /\ Settled
      /\ UNCHANGED <<viewVars, downVars, dnsVars, workers, planned, deleting, nsQueue, events>>
  BY DEF Tick, Prompt
<1>2. TypeOK'
  <2>1. left' \in 0 .. Delay /\ timer' \in 0 .. Delay BY <1>1, Constants DEF TypeOK
  <2>2. delayed' \in BOOLEAN BY <1>1, Zenon DEF TypeOK
  <2> QED BY <1>1, <2>1, <2>2 DEF TypeOK
<1>3. ObjectsCatchUp' /\ NamespaceCatchesUp' /\ ReleasedIsGone'
  BY <1>1 DEF ObjectsCatchUp, NamespaceCatchesUp, ReleasedIsGone
<1>4. \A p \in Objects : ~Owes(p) /\ ~Owes(p)'
  <2> SUFFICES ASSUME NEW p \in Objects PROVE ~Owes(p) /\ ~Owes(p)'
    OBVIOUS
  <2>1. viewSeen[p] = view[p] /\ downWatch[p] = <<>> /\ step[p] = "idle" /\ p \notin queue
    BY <1>1 DEF Settled
  <2> QED BY <1>1, <2>1 DEF Owes
<1>5. ~NamespaceIsChanging /\ ~NamespaceIsChanging' BY <1>1 DEF Settled, NamespaceIsChanging
<1>6. PlansAreNew' BY <1>4, <1>5 DEF PlansAreNew
<1>7. CleaningIsComing'
  <2> SUFFICES ASSUME dns' = "present", \A p \in Objects : view'[p] = "none"
               PROVE  planned' /\ (timer' > 0 \/ delayed' \/ deleting')
    BY DEF CleaningIsComing
  <2>1. planned /\ (timer > 0 \/ delayed \/ deleting)
    BY <1>1, <1>4, <1>5 DEF CleaningIsComing
  <2>2. timer > 0 => timer' > 0 \/ timer = 1 BY <1>1 DEF TypeOK
  <2>3. timer = 1 => delayed' BY <1>1, Zenon
  <2> QED BY <1>1, <2>1, <2>2, <2>3
<1> QED BY <1>2, <1>3, <1>6, <1>7
-----------------------------------------------------------------------------
(* The cleaner: the environment *)

LEMMA UsersStay ==
    ASSUME CleanerIInv, NEW o \in Objects, Assign(o) \/ Unassign(o) \/ Edit(o)
    PROVE  CleanerIInv'
<1> USE DEF CleanerIInv, viewVars, downVars, dnsVars, workers, cleaner
<1>1. ASSUME Assign(o) \/ Unassign(o) PROVE CleanerIInv'
  <2>1. /\ view'[o] # "none" /\ view' \in [Objects -> Views]
        /\ \A p \in Objects \ {o} : view'[p] = view[p]
        /\ events' \in Nat
        /\ UNCHANGED <<viewSeen, upstreamNs, downVars, dnsVars, workers, cleaner>>
    <3>1. /\ view' = [view EXCEPT ![o] = "assigned"] \/ view' = [view EXCEPT ![o] = "leaving"]
          /\ events' = events + 1
          /\ UNCHANGED <<viewSeen, upstreamNs, downVars, dnsVars, workers, cleaner>>
      BY <1>1 DEF Assign, Unassign, Event
    <3>2. events' \in Nat BY <3>1 DEF TypeOK
    <3> QED BY <3>1, <3>2 DEF TypeOK, Views
  <2>2. TypeOK' BY <2>1 DEF TypeOK
  <2>3. ObjectsCatchUp' /\ NamespaceCatchesUp' BY <2>1 DEF ObjectsCatchUp, NamespaceCatchesUp
  <2>4. ReleasedIsGone' BY <2>1 DEF ReleasedIsGone
  <2>5. \A p \in Objects : Owes(p)' => Owes(p) BY <2>1 DEF Owes
  <2>6. PlansAreNew' BY <2>1, <2>5 DEF PlansAreNew, NamespaceIsChanging
  <2>7. CleaningIsComing' BY <2>1 DEF CleaningIsComing
  <2> QED BY <2>2, <2>3, <2>4, <2>6, <2>7
<1>2. CASE Edit(o)
  <2>1. /\ viewSeen[o] # "none" /\ queue' = queue \cup {o} /\ events' \in Nat
        /\ UNCHANGED <<viewVars, downVars, dnsVars, step, copy, cleaner>>
    BY <1>2 DEF Edit, Event, TypeOK
  <2>2. TypeOK' BY <2>1 DEF TypeOK
  <2>3. ObjectsCatchUp' /\ NamespaceCatchesUp' BY <2>1 DEF ObjectsCatchUp, NamespaceCatchesUp
  <2>4. ReleasedIsGone' BY <2>1 DEF ReleasedIsGone
  <2>5. \A p \in Objects : Owes(p)' <=> Owes(p) BY <2>1 DEF Owes
  <2>6. PlansAreNew' BY <2>1, <2>5 DEF PlansAreNew, NamespaceIsChanging
  <2>7. CleaningIsComing' BY <2>1, <2>5 DEF CleaningIsComing, NamespaceIsChanging
  <2> QED BY <2>2, <2>3, <2>4, <2>6, <2>7
<1> QED BY <1>1, <1>2

LEMMA FailureStays ==
    ASSUME CleanerIInv, DeletionFails
    PROVE  CleanerIInv'
<1> USE DEF CleanerIInv, viewVars, downVars, dnsVars, workers, plan
<1>1. /\ deleting' = FALSE /\ delayed' = TRUE /\ events' \in Nat
      /\ UNCHANGED <<viewVars, downVars, dnsVars, workers, plan, nsQueue>>
  BY DEF DeletionFails, Event, TypeOK
<1>2. TypeOK'
  <2>1. deleting' \in BOOLEAN /\ delayed' \in BOOLEAN BY <1>1, Zenon
  <2> QED BY <1>1, <2>1 DEF TypeOK
<1>3. ObjectsCatchUp' /\ NamespaceCatchesUp' /\ ReleasedIsGone'
  BY <1>1 DEF ObjectsCatchUp, NamespaceCatchesUp, ReleasedIsGone
<1>4. \A p \in Objects : Owes(p)' <=> Owes(p) BY <1>1 DEF Owes
<1>5. PlansAreNew' BY <1>1, <1>4 DEF PlansAreNew, NamespaceIsChanging
<1>6. CleaningIsComing' BY <1>1, <1>4 DEF CleaningIsComing, NamespaceIsChanging
<1> QED BY <1>2, <1>3, <1>5, <1>6

(* A syncer that starts finds the namespace and looks at it.                *)
LEMMA RestartStays ==
    ASSUME CleanerIInv, Restart
    PROVE  CleanerIInv'
<1> USE DEF CleanerIInv
<1>1. /\ viewSeen' = view /\ downSeen' = {o \in Objects : down[o] # "none"}
      /\ downWatch' = [o \in Objects |-> <<>>] /\ dnsSeen' = dns /\ dnsWatch' = <<>>
      /\ queue' = {o \in Objects : view[o] # "none"} /\ step' = [o \in Objects |-> "idle"]
      /\ planned' = FALSE /\ left' = 0 /\ timer' = 0
      /\ delayed' = FALSE /\ deleting' = FALSE /\ nsQueue' = (dns # "none")
      /\ UNCHANGED <<view, upstreamNs, down, dns, copy>> /\ events' \in Nat
  BY DEF Restart, Event, TypeOK
<1>2. TypeOK'
  <2>1. /\ planned' \in BOOLEAN /\ delayed' \in BOOLEAN /\ deleting' \in BOOLEAN
        /\ nsQueue' \in BOOLEAN
    BY <1>1, Zenon
  <2>2. left' \in 0 .. Delay /\ timer' \in 0 .. Delay BY <1>1, Constants
  <2>3. /\ downWatch' \in [Objects -> Seq(Lives)] /\ step' \in [Objects -> Steps]
        /\ dnsWatch' \in Seq(Lives) /\ queue' \subseteq Objects /\ downSeen' \subseteq Objects
    BY <1>1 DEF Steps
  <2> QED BY <1>1, <2>1, <2>2, <2>3 DEF TypeOK
<1>3. ObjectsCatchUp' BY <1>1 DEF ObjectsCatchUp
<1>4. NamespaceCatchesUp'
  <2>1. Len(dnsWatch') = 0 BY <1>1
  <2> QED BY <1>1, <2>1 DEF NamespaceCatchesUp
<1>5. ReleasedIsGone' BY <1>1 DEF ReleasedIsGone
<1>6. PlansAreNew' BY <1>1, Zenon DEF PlansAreNew
<1>7. CleaningIsComing'
  <2>1. dns' = "present" => nsQueue' BY <1>1, Zenon
  <2> QED BY <2>1 DEF CleaningIsComing, NamespaceIsChanging
<1> QED BY <1>2, <1>3, <1>4, <1>5, <1>6, <1>7

-----------------------------------------------------------------------------
(* The cleaner: its invariant *)

LEMMA CleanerStarts == Running => CleanerIInv
<1> SUFFICES ASSUME Running PROVE CleanerIInv
  OBVIOUS
<1>1. TypeOK
  <2>1. /\ planned \in BOOLEAN /\ delayed \in BOOLEAN /\ deleting \in BOOLEAN
        /\ nsQueue \in BOOLEAN /\ upstreamNs \in BOOLEAN
    BY Zenon DEF Running
  <2>2. left \in 0 .. Delay /\ timer \in 0 .. Delay /\ events \in Nat BY Constants DEF Running
  <2> QED BY <2>1, <2>2 DEF Running, TypeOK, Views, Lives, Steps
<1>2. ObjectsCatchUp BY DEF Running, ObjectsCatchUp
<1>3. NamespaceCatchesUp
  <2>1. Len(dnsWatch) = 0 BY DEF Running
  <2> QED BY <2>1 DEF Running, NamespaceCatchesUp
<1>4. ReleasedIsGone BY DEF Running, ReleasedIsGone
<1>5. PlansAreNew BY Zenon DEF Running, PlansAreNew
<1>6. CleaningIsComing BY Constants DEF Running, CleaningIsComing
<1> QED BY <1>1, <1>2, <1>3, <1>4, <1>5, <1>6 DEF CleanerIInv

LEMMA UpstreamStays ==
    ASSUME Prompt, Next \/ UNCHANGED vars
    PROVE  upstreamNs' = upstreamNs
<1> USE DEF viewVars, vars
<1>1. ASSUME NEW o \in Objects, SpecSyncer(o) \/ DeliverView(o) \/ DeliverObject(o)
      PROVE  upstreamNs' = upstreamNs
  BY <1>1 DEF SpecSyncer, Process, DeleteOrphan, EnsureDownstreamNamespaceExists, ApplyToDownstream,
              DeleteFromDownstream, DeliverView, DeliverObject
<1>2. CASE ProcessNamespace \/ DelayedWorker \/ DeliverNamespace \/ Cluster \/ Tick
  BY <1>2 DEF ProcessNamespace, DelayedWorker, ProcessDelayed, DeleteDownstreamNamespace,
              DeliverNamespace, Cluster, NamespaceGoes, ObjectGoes, NamespaceEmpties, Tick
<1>3. CASE Environment
  BY <1>3 DEF Environment, Assign, Unassign, Edit, UpstreamNamespaceGoes, Event, Prompt,
              DeletionFails, Restart
<1> QED BY <1>1, <1>2, <1>3 DEF Next

LEMMA CleanerStays ==
    ASSUME Prompt, CleanerIInv, ~upstreamNs, Next \/ UNCHANGED vars
    PROVE  CleanerIInv'
<1>1. ASSUME NEW o \in Objects, SpecSyncer(o) \/ DeliverView(o) \/ DeliverObject(o)
      PROVE  CleanerIInv'
  BY <1>1, ProcessStays, OrphanStays, EnsureStays, ApplyStays, DeleteStays, DeliverViewStays,
     DeliverObjectStays DEF SpecSyncer
<1>2. CASE ProcessNamespace \/ DelayedWorker \/ DeliverNamespace
  BY <1>2, ProcessNamespaceStays, ProcessDelayedStays, DeleteNamespaceStays, DeliverNamespaceStays
     DEF DelayedWorker
<1>3. CASE Cluster \/ Tick BY <1>3, ClusterStays, TickStays
<1>4. CASE Environment
  BY <1>4, UsersStay, FailureStays, RestartStays DEF Environment, UpstreamNamespaceGoes, Event, Prompt
<1>5. CASE UNCHANGED vars
  <2> USE DEF vars
  <2>1. TypeOK' BY <1>5 DEF CleanerIInv, TypeOK
  <2>2. ObjectsCatchUp' /\ NamespaceCatchesUp' /\ ReleasedIsGone'
    BY <1>5 DEF CleanerIInv, ObjectsCatchUp, NamespaceCatchesUp, ReleasedIsGone
  <2>3. PlansAreNew' /\ CleaningIsComing'
    BY <1>5 DEF CleanerIInv, PlansAreNew, CleaningIsComing, NamespaceIsChanging, Owes
  <2> QED BY <2>1, <2>2, <2>3 DEF CleanerIInv
<1> QED BY <1>1, <1>2, <1>3, <1>4, <1>5 DEF Next

-----------------------------------------------------------------------------
(* The cleaner, as long as no object comes back                             *)

LEMMA KeptStarts ==
    ASSUME (Steady!Init /\ "slow" \notin SteadyEvents) \/ Running
    PROVE  Steady!KeptIInv
<1>1. /\ viewSeen = view /\ copy = view /\ view \in [Objects -> Views]
      /\ down \in [Objects -> {"none", "present"}] /\ downWatch = [o \in Objects |-> <<>>]
      /\ step = [o \in Objects |-> "idle"] /\ delayed = FALSE /\ deleting = FALSE
      /\ \A o \in Objects : o \in downSeen <=> down[o] # "none"
      /\ \A o \in Objects : view[o] = "assigned" =>
            \/ down[o] = "none" /\ o \in queue /\ "slow" \notin SteadyEvents
            \/ down[o] = "present" /\ dns = "present"
  <2>1. CASE Running BY <2>1 DEF Running, Views
  <2>2. CASE Steady!Init /\ "slow" \notin SteadyEvents BY <2>2 DEF Steady!Init, Views
  <2> QED BY <2>1, <2>2
<1>2. Steady!KeptTypeOK
  BY <1>1 DEF Steady!KeptTypeOK, Steady!Views, Views, Steady!Lives, Steady!Steps
<1>3. Steady!ObjectsCatchUp BY <1>1 DEF Steady!ObjectsCatchUp
<1>4. ASSUME NEW o \in Objects, view[o] = "assigned" PROVE Steady!IsKept(o)
  BY <1>1, <1>4 DEF Steady!IsKept
<1> QED BY <1>2, <1>3, <1>4 DEF Steady!KeptIInv

(* What happens to an object on the cluster goes to its watch.              *)
LEMMA KeptObjectIsSet ==
    ASSUME Steady!KeptTypeOK, Steady!ObjectsCatchUp, NEW o \in Objects, NEW s \in Steady!Lives,
           Steady!SetDown(o, s), downSeen' = downSeen
    PROVE  /\ down' = [down EXCEPT ![o] = s]
           /\ down' \in [Objects -> Steady!Lives] /\ downWatch' \in [Objects -> Seq(Steady!Lives)]
           /\ \A p \in Objects \ {o} : down'[p] = down[p] /\ downWatch'[p] = downWatch[p]
           /\ Steady!ObjectsCatchUp'
<1>1. downWatch[o] \in Seq(Steady!Lives) BY DEF Steady!KeptTypeOK
<1>2. /\ Append(downWatch[o], s) \in Seq(Steady!Lives) /\ Append(downWatch[o], s) # <<>>
      /\ Append(downWatch[o], s)[Len(Append(downWatch[o], s))] = s
  BY <1>1
<1>3. down' = [down EXCEPT ![o] = s] /\ downWatch' = [downWatch EXCEPT ![o] = Append(downWatch[o], s)]
  BY DEF Steady!SetDown
<1>4. /\ down' \in [Objects -> Steady!Lives] /\ downWatch' \in [Objects -> Seq(Steady!Lives)]
      /\ down'[o] = s /\ downWatch'[o] = Append(downWatch[o], s)
      /\ \A p \in Objects \ {o} : down'[p] = down[p] /\ downWatch'[p] = downWatch[p]
  BY <1>2, <1>3 DEF Steady!KeptTypeOK
<1>5. Steady!ObjectsCatchUp' BY <1>2, <1>4 DEF Steady!ObjectsCatchUp
<1> QED BY <1>3, <1>4, <1>5

(* The spec syncer applies what is assigned, and deletes only what is not.  *)
LEMMA KeptSyncer ==
    ASSUME Steady!KeptIInv, NEW o \in Objects, Steady!SpecSyncer(o)
    PROVE  Steady!KeptIInv'
<1> USE DEF Steady!viewVars, Steady!downVars, Steady!dnsVars, Steady!cleaner
<1>1. CASE Steady!Process(o)
  <2>1. /\ step' = [step EXCEPT ![o] = IF viewSeen[o] = "none" THEN "orphan" ELSE "ensure"]
        /\ copy' = [copy EXCEPT ![o] = viewSeen[o]] /\ queue' = queue \ {o}
        /\ UNCHANGED <<view, viewSeen, down, downWatch, downSeen, dns, delayed, deleting>>
    BY <1>1 DEF Steady!Process
  <2>2. Steady!KeptTypeOK' BY <2>1 DEF Steady!KeptIInv, Steady!KeptTypeOK, Steady!Steps
  <2>3. Steady!ObjectsCatchUp' BY <2>1 DEF Steady!KeptIInv, Steady!ObjectsCatchUp
  <2>4. ASSUME NEW p \in Objects, view'[p] = "assigned" PROVE Steady!IsKept(p)'
    BY <2>1, <2>4 DEF Steady!KeptIInv, Steady!KeptTypeOK, Steady!IsKept
  <2> QED BY <2>2, <2>3, <2>4 DEF Steady!KeptIInv
<1>2. CASE Steady!DeleteOrphan(o) \/ Steady!DeleteFromDownstream(o)
  <2>1. /\ view[o] # "assigned" /\ step' = [step EXCEPT ![o] = "idle"] /\ copy' = copy
        /\ queue \subseteq queue' /\ view' \in {view, [view EXCEPT ![o] = "none"]}
        /\ UNCHANGED <<viewSeen, downSeen, dns, delayed, deleting>>
        /\ UNCHANGED <<down, downWatch>> \/ Steady!SetDown(o, "terminating")
    BY <1>2 DEF Steady!KeptIInv, Steady!IsKept, Steady!DeleteOrphan, Steady!DeleteFromDownstream,
                Steady!EnsureUpstreamFinalizerRemoved, Steady!Retry, Steady!Done, Steady!Idle
  <2>2. /\ down' \in [Objects -> Steady!Lives] /\ downWatch' \in [Objects -> Seq(Steady!Lives)]
        /\ \A p \in Objects \ {o} : down'[p] = down[p] /\ downWatch'[p] = downWatch[p]
        /\ Steady!ObjectsCatchUp'
    <3>1. CASE UNCHANGED <<down, downWatch>>
      BY <2>1, <3>1 DEF Steady!KeptIInv, Steady!KeptTypeOK, Steady!ObjectsCatchUp
    <3>2. CASE Steady!SetDown(o, "terminating")
      BY <2>1, <3>2, KeptObjectIsSet DEF Steady!KeptIInv, Steady!Lives
    <3> QED BY <2>1, <3>1, <3>2
  <2>3. Steady!KeptTypeOK' BY <2>1, <2>2 DEF Steady!KeptIInv, Steady!KeptTypeOK, Steady!Steps, Steady!Views
  <2>4. ASSUME NEW p \in Objects, view'[p] = "assigned" PROVE Steady!IsKept(p)'
    BY <2>1, <2>2, <2>4 DEF Steady!KeptIInv, Steady!KeptTypeOK, Steady!IsKept
  <2> QED BY <2>2, <2>3, <2>4 DEF Steady!KeptIInv
<1>3. CASE Steady!EnsureDownstreamNamespaceExists(o)
  <2>1. /\ step[o] = "ensure"
        /\ step' = [step EXCEPT ![o] = IF copy[o] = "assigned" THEN "apply" ELSE "delete"]
        /\ UNCHANGED <<view, viewSeen, down, downWatch, downSeen, queue, copy, delayed, deleting>>
        /\ dns' = dns \/ dns' = "present"
    BY <1>3 DEF Steady!EnsureDownstreamNamespaceExists, Steady!SetDns
  <2>2. Steady!KeptTypeOK' BY <2>1 DEF Steady!KeptIInv, Steady!KeptTypeOK, Steady!Steps
  <2>3. Steady!ObjectsCatchUp' BY <2>1 DEF Steady!KeptIInv, Steady!ObjectsCatchUp
  <2>4. ASSUME NEW p \in Objects, view'[p] = "assigned" PROVE Steady!IsKept(p)'
    BY <2>1, <2>4 DEF Steady!KeptIInv, Steady!KeptTypeOK, Steady!IsKept
  <2> QED BY <2>2, <2>3, <2>4 DEF Steady!KeptIInv
<1>4. CASE Steady!ApplyToDownstream(o)
  <2>1. /\ step[o] = "apply" /\ step' = [step EXCEPT ![o] = "idle"] /\ copy' = copy
        /\ queue \subseteq queue' /\ UNCHANGED <<view, viewSeen, downSeen, dns, delayed, deleting>>
        /\ \/ down[o] = "none" /\ dns = "present" /\ Steady!SetDown(o, "present")
           \/ down[o] # "none" /\ UNCHANGED <<down, downWatch>>
           \/ down[o] = "none" /\ o \in queue' /\ UNCHANGED <<down, downWatch>>
    BY <1>4 DEF Steady!ApplyToDownstream, Steady!Retry, Steady!Done, Steady!Idle
  <2>2. /\ down' \in [Objects -> Steady!Lives] /\ downWatch' \in [Objects -> Seq(Steady!Lives)]
        /\ \A p \in Objects \ {o} : down'[p] = down[p] /\ downWatch'[p] = downWatch[p]
        /\ Steady!ObjectsCatchUp'
        /\ \/ UNCHANGED <<down, downWatch>> /\ (down[o] = "none" => o \in queue')
           \/ down[o] = "none" /\ dns = "present" /\ down'[o] = "present"
    <3>1. CASE UNCHANGED <<down, downWatch>>
      BY <2>1, <3>1 DEF Steady!KeptIInv, Steady!KeptTypeOK, Steady!ObjectsCatchUp, Steady!SetDown
    <3>2. CASE down[o] = "none" /\ dns = "present" /\ Steady!SetDown(o, "present")
      <4>1. down' = [down EXCEPT ![o] = "present"] BY <3>2 DEF Steady!SetDown
      <4> QED BY <2>1, <3>2, <4>1, KeptObjectIsSet DEF Steady!KeptIInv, Steady!KeptTypeOK, Steady!Lives
    <3> QED BY <2>1, <3>1, <3>2
  <2>3. Steady!KeptTypeOK' BY <2>1, <2>2 DEF Steady!KeptIInv, Steady!KeptTypeOK, Steady!Steps
  <2>4. ASSUME NEW p \in Objects, view'[p] = "assigned" PROVE Steady!IsKept(p)'
    BY <2>1, <2>2, <2>4 DEF Steady!KeptIInv, Steady!KeptTypeOK, Steady!IsKept
  <2> QED BY <2>2, <2>3, <2>4 DEF Steady!KeptIInv
<1> QED BY <1>1, <1>2, <1>3, <1>4 DEF Steady!SpecSyncer

(* What the informers deliver queues an object at most.                     *)
LEMMA KeptInformers ==
    ASSUME Steady!KeptIInv,
           \/ \E o \in Objects : Steady!DeliverView(o) \/ Steady!DeliverObject(o)
           \/ Steady!DeliverNamespace \/ Steady!ProcessNamespace
    PROVE  Steady!KeptIInv'
<1> USE DEF Steady!viewVars, Steady!downVars, Steady!dnsVars, Steady!workers
<1>1. ASSUME NEW o \in Objects, Steady!DeliverView(o) PROVE Steady!KeptIInv'
  <2>1. /\ viewSeen' = [viewSeen EXCEPT ![o] = view[o]] /\ queue' = queue \cup {o}
        /\ UNCHANGED <<view, down, downWatch, downSeen, dns, step, copy, delayed, deleting>>
    BY <1>1 DEF Steady!DeliverView, Steady!cleaner
  <2>2. Steady!KeptTypeOK' BY <2>1 DEF Steady!KeptIInv, Steady!KeptTypeOK
  <2>3. Steady!ObjectsCatchUp' BY <2>1 DEF Steady!KeptIInv, Steady!ObjectsCatchUp
  <2>4. ASSUME NEW p \in Objects, view'[p] = "assigned" PROVE Steady!IsKept(p)'
    BY <2>1, <2>4 DEF Steady!KeptIInv, Steady!KeptTypeOK, Steady!IsKept
  <2> QED BY <2>2, <2>3, <2>4 DEF Steady!KeptIInv
<1>2. ASSUME NEW o \in Objects, Steady!DeliverObject(o) PROVE Steady!KeptIInv'
  <2>1. /\ downWatch[o] # <<>> /\ downWatch' = [downWatch EXCEPT ![o] = Tail(downWatch[o])]
        /\ downSeen' = IF Head(downWatch[o]) = "none" THEN downSeen \ {o} ELSE downSeen \cup {o}
        /\ queue \subseteq queue'
        /\ UNCHANGED <<view, viewSeen, down, dns, step, copy, delayed, deleting>>
    BY <1>2 DEF Steady!DeliverObject, Steady!ObjectDeleted
  <2>2. downWatch[o] \in Seq(Steady!Lives) BY DEF Steady!KeptIInv, Steady!KeptTypeOK
  <2>3. /\ Tail(downWatch[o]) \in Seq(Steady!Lives)
        /\ Tail(downWatch[o]) = <<>> => Head(downWatch[o]) = downWatch[o][Len(downWatch[o])]
        /\ Tail(downWatch[o]) # <<>> =>
             Tail(downWatch[o])[Len(Tail(downWatch[o]))] = downWatch[o][Len(downWatch[o])]
    BY <2>1, <2>2, TailEnds
  <2>4. Steady!KeptTypeOK' BY <2>1, <2>3 DEF Steady!KeptIInv, Steady!KeptTypeOK
  <2>5. downWatch'[o] = Tail(downWatch[o]) /\ \A p \in Objects \ {o} : downWatch'[p] = downWatch[p]
    BY <2>1 DEF Steady!KeptIInv, Steady!KeptTypeOK
  <2>6. Steady!ObjectsCatchUp' BY <2>1, <2>3, <2>5 DEF Steady!KeptIInv, Steady!ObjectsCatchUp
  <2>7. ASSUME NEW p \in Objects, view'[p] = "assigned" PROVE Steady!IsKept(p)'
    BY <2>1, <2>5, <2>7 DEF Steady!KeptIInv, Steady!IsKept
  <2> QED BY <2>4, <2>6, <2>7 DEF Steady!KeptIInv
<1>3. CASE Steady!DeliverNamespace \/ Steady!ProcessNamespace
  <2>1. UNCHANGED <<view, viewSeen, down, downWatch, downSeen, dns, queue, step, copy, delayed, deleting>>
    BY <1>3 DEF Steady!DeliverNamespace, Steady!ProcessNamespace
  <2> QED BY <2>1 DEF Steady!KeptIInv, Steady!KeptTypeOK, Steady!ObjectsCatchUp, Steady!IsKept
<1> QED BY <1>1, <1>2, <1>3

(* An assigned object has been seen on the cluster when a worker looks.     *)
LEMMA KeptDelayed ==
    ASSUME Steady!KeptIInv, Steady!DelayedWorker \/ Steady!Tick
    PROVE  Steady!KeptIInv'
<1> USE DEF Steady!viewVars, Steady!downVars, Steady!workers
<1>1. /\ UNCHANGED <<view, viewSeen, down, downWatch, downSeen, queue, step, copy>>
  BY DEF Steady!DelayedWorker, Steady!ProcessDelayed, Steady!DeleteDownstreamNamespace, Steady!Tick
<1>2. Steady!KeptTypeOK' /\ Steady!ObjectsCatchUp'
  BY <1>1 DEF Steady!KeptIInv, Steady!KeptTypeOK, Steady!ObjectsCatchUp
<1>3. ASSUME NEW o \in Objects, view'[o] = "assigned" PROVE Steady!IsKept(o)'
  <2>1. Steady!IsKept(o) BY <1>1, <1>3 DEF Steady!KeptIInv
  <2>2. CASE Steady!ProcessDelayed
    <3>1. down[o] = "present" /\ downWatch[o] = <<>> BY <2>1, <2>2 DEF Steady!ProcessDelayed, Steady!IsKept
    <3>2. o \in downSeen BY <3>1 DEF Steady!KeptIInv, Steady!ObjectsCatchUp
    <3>3. deleting' = FALSE BY <2>2, <3>2 DEF Steady!ProcessDelayed
    <3> QED BY <1>1, <2>1, <2>2, <3>1, <3>3 DEF Steady!ProcessDelayed, Steady!dnsVars, Steady!IsKept
  <2>3. CASE Steady!DeleteDownstreamNamespace
    BY <2>1, <2>3 DEF Steady!DeleteDownstreamNamespace, Steady!IsKept
  <2>4. CASE Steady!Tick
    <3>1. dns' = dns /\ deleting' = deleting /\ ("slow" \in SteadyEvents \/ Steady!Settled)
      BY <2>4 DEF Steady!Tick, Steady!dnsVars
    <3>2. CASE "slow" \in SteadyEvents BY <1>1, <2>1, <3>1, <3>2 DEF Steady!IsKept
    <3>3. CASE Steady!Settled
      <4>1. downWatch[o] = <<>> /\ step[o] = "idle" /\ queue = {} BY <3>3 DEF Steady!Settled
      <4>2. down[o] = "present" BY <2>1, <4>1 DEF Steady!IsKept
      <4> QED BY <1>1, <2>1, <3>1, <4>1, <4>2 DEF Steady!IsKept
    <3> QED BY <3>1, <3>2, <3>3
  <2> QED BY <2>2, <2>3, <2>4 DEF Steady!DelayedWorker
<1> QED BY <1>2, <1>3 DEF Steady!KeptIInv

(* The cluster deletes only what is being deleted.                          *)
LEMMA KeptCluster ==
    ASSUME Steady!KeptIInv, Steady!Cluster
    PROVE  Steady!KeptIInv'
<1> USE DEF Steady!viewVars, Steady!dnsVars, Steady!downVars, Steady!workers, Steady!cleaner
<1>1. CASE Steady!NamespaceGoes
  <2>1. /\ dns = "terminating"
        /\ UNCHANGED <<view, viewSeen, down, downWatch, downSeen, queue, step, copy, delayed, deleting>>
        /\ \A o \in Objects : down[o] = "none"
    BY <1>1 DEF Steady!NamespaceGoes
  <2>2. Steady!KeptTypeOK' /\ Steady!ObjectsCatchUp'
    BY <2>1 DEF Steady!KeptIInv, Steady!KeptTypeOK, Steady!ObjectsCatchUp
  <2>3. ASSUME NEW p \in Objects, view'[p] = "assigned" PROVE Steady!IsKept(p)'
    BY <2>1, <2>3 DEF Steady!KeptIInv, Steady!IsKept
  <2> QED BY <2>2, <2>3 DEF Steady!KeptIInv
<1>2. ASSUME NEW o \in Objects, Steady!ObjectGoes(o) \/ Steady!NamespaceEmpties(o)
      PROVE  Steady!KeptIInv'
  <2>1. /\ view[o] # "assigned"
        /\ UNCHANGED <<view, viewSeen, downSeen, dns, queue, step, copy, delayed, deleting>>
        /\ Steady!SetDown(o, "none") \/ Steady!SetDown(o, "terminating")
    BY <1>2 DEF Steady!KeptIInv, Steady!IsKept, Steady!ObjectGoes, Steady!NamespaceEmpties
  <2>2. /\ down' \in [Objects -> Steady!Lives] /\ downWatch' \in [Objects -> Seq(Steady!Lives)]
        /\ \A p \in Objects \ {o} : down'[p] = down[p] /\ downWatch'[p] = downWatch[p]
        /\ Steady!ObjectsCatchUp'
    BY <2>1, KeptObjectIsSet DEF Steady!KeptIInv, Steady!Lives
  <2>3. Steady!KeptTypeOK' BY <2>1, <2>2 DEF Steady!KeptIInv, Steady!KeptTypeOK
  <2>4. ASSUME NEW p \in Objects, view'[p] = "assigned" PROVE Steady!IsKept(p)'
    BY <2>1, <2>2, <2>4 DEF Steady!KeptIInv, Steady!IsKept
  <2> QED BY <2>2, <2>3, <2>4 DEF Steady!KeptIInv
<1> QED BY <1>1, <1>2 DEF Steady!Cluster

(* Objects leave, and none is assigned again.                               *)
LEMMA KeptEnvironment ==
    ASSUME "assign" \notin SteadyEvents, Steady!KeptIInv, Steady!Environment
    PROVE  Steady!KeptIInv'
<1> USE DEF Steady!viewVars, Steady!dnsVars, Steady!downVars, Steady!workers, Steady!cleaner
<1>1. ASSUME NEW o \in Objects, Steady!Assign(o) PROVE FALSE
  BY <1>1 DEF Steady!Assign, Steady!Event
<1>2. ASSUME NEW o \in Objects, Steady!Unassign(o) PROVE Steady!KeptIInv'
  <2>1. /\ view' = [view EXCEPT ![o] = "leaving"]
        /\ UNCHANGED <<viewSeen, down, downWatch, downSeen, dns, queue, step, copy, delayed, deleting>>
    BY <1>2 DEF Steady!Unassign
  <2>2. Steady!KeptTypeOK' /\ Steady!ObjectsCatchUp'
    BY <2>1 DEF Steady!KeptIInv, Steady!KeptTypeOK, Steady!ObjectsCatchUp, Steady!Views
  <2>3. ASSUME NEW p \in Objects, view'[p] = "assigned" PROVE Steady!IsKept(p)'
    BY <2>1, <2>3 DEF Steady!KeptIInv, Steady!KeptTypeOK, Steady!IsKept
  <2> QED BY <2>2, <2>3 DEF Steady!KeptIInv
<1>3. CASE Steady!UpstreamNamespaceGoes \/ \E o \in Objects : Steady!Edit(o)
  <2>1. /\ queue \subseteq queue'
        /\ UNCHANGED <<view, viewSeen, down, downWatch, downSeen, dns, step, copy, delayed, deleting>>
    BY <1>3 DEF Steady!Edit, Steady!UpstreamNamespaceGoes
  <2>2. Steady!KeptTypeOK' /\ Steady!ObjectsCatchUp'
    BY <2>1 DEF Steady!KeptIInv, Steady!KeptTypeOK, Steady!ObjectsCatchUp
  <2>3. ASSUME NEW p \in Objects, view'[p] = "assigned" PROVE Steady!IsKept(p)'
    BY <2>1, <2>3 DEF Steady!KeptIInv, Steady!IsKept
  <2> QED BY <2>2, <2>3 DEF Steady!KeptIInv
<1>4. CASE Steady!DeletionFails
  <2>1. /\ deleting
        /\ UNCHANGED <<view, viewSeen, down, downWatch, downSeen, dns, queue, step, copy>>
    BY <1>4 DEF Steady!DeletionFails
  <2>2. Steady!KeptTypeOK' /\ Steady!ObjectsCatchUp'
    BY <2>1 DEF Steady!KeptIInv, Steady!KeptTypeOK, Steady!ObjectsCatchUp
  <2>3. ASSUME NEW p \in Objects, view'[p] = "assigned" PROVE Steady!IsKept(p)'
    BY <2>1, <2>3 DEF Steady!KeptIInv, Steady!IsKept
  <2> QED BY <2>2, <2>3 DEF Steady!KeptIInv
<1>5. CASE Steady!Restart
  <2>1. /\ viewSeen' = view /\ downSeen' = {o \in Objects : down[o] # "none"}
        /\ downWatch' = [o \in Objects |-> <<>>] /\ step' = [o \in Objects |-> "idle"]
        /\ queue' = {o \in Objects : view[o] # "none"} /\ delayed' = FALSE /\ deleting' = FALSE
        /\ UNCHANGED <<view, down, dns, copy>>
    BY <1>5 DEF Steady!Restart
  <2>2. Steady!KeptTypeOK' BY <2>1 DEF Steady!KeptIInv, Steady!KeptTypeOK, Steady!Steps
  <2>3. Steady!ObjectsCatchUp' BY <2>1 DEF Steady!KeptIInv, Steady!ObjectsCatchUp
  <2>4. ASSUME NEW p \in Objects, view'[p] = "assigned" PROVE Steady!IsKept(p)'
    BY <2>1, <2>4 DEF Steady!KeptIInv, Steady!IsKept
  <2> QED BY <2>2, <2>3, <2>4 DEF Steady!KeptIInv
<1> QED BY <1>1, <1>2, <1>3, <1>4, <1>5 DEF Steady!Environment

LEMMA KeptStays ==
    ASSUME "assign" \notin SteadyEvents, Steady!KeptIInv, Steady!Next \/ UNCHANGED vars
    PROVE  Steady!KeptIInv'
<1>1. CASE UNCHANGED vars
  BY <1>1 DEF vars, Steady!KeptIInv, Steady!KeptTypeOK, Steady!ObjectsCatchUp, Steady!IsKept
<1> QED BY <1>1, KeptSyncer, KeptInformers, KeptDelayed, KeptCluster, KeptEnvironment DEF Steady!Next

(* Only the delayed worker deletes the namespace.                           *)
LEMMA NothingIsDeleted ==
    ASSUME Steady!KeptIInv, Steady!Next \/ UNCHANGED vars
    PROVE  AssignedAreKept
<1> SUFFICES ASSUME dns = "present", dns' = "terminating", NEW o \in Objects, view[o] = "assigned"
             PROVE  FALSE
  BY DEF AssignedAreKept
<1> USE DEF Steady!dnsVars
<1>1. ASSUME NEW p \in Objects, Steady!SpecSyncer(p) \/ Steady!DeliverView(p) \/ Steady!DeliverObject(p)
      PROVE  FALSE
  BY <1>1 DEF Steady!SpecSyncer, Steady!Process, Steady!DeleteOrphan, Steady!ApplyToDownstream,
              Steady!EnsureDownstreamNamespaceExists, Steady!SetDns, Steady!DeleteFromDownstream,
              Steady!DeliverView, Steady!DeliverObject
<1>2. CASE Steady!ProcessNamespace \/ Steady!DeliverNamespace \/ Steady!Tick \/ Steady!Cluster
           \/ Steady!ProcessDelayed
  BY <1>2 DEF Steady!ProcessNamespace, Steady!DeliverNamespace, Steady!Tick, Steady!Cluster,
              Steady!ProcessDelayed, Steady!NamespaceGoes, Steady!ObjectGoes, Steady!NamespaceEmpties
<1>3. CASE Steady!Environment
  BY <1>3 DEF Steady!Environment, Steady!Assign, Steady!Unassign, Steady!Edit,
              Steady!UpstreamNamespaceGoes, Steady!DeletionFails, Steady!Restart
<1>4. CASE Steady!DeleteDownstreamNamespace
  BY <1>4 DEF Steady!DeleteDownstreamNamespace, Steady!KeptIInv, Steady!IsKept
<1>5. CASE UNCHANGED vars BY <1>5 DEF vars
<1> QED BY <1>1, <1>2, <1>3, <1>4, <1>5 DEF Steady!Next, Steady!DelayedWorker

-----------------------------------------------------------------------------
(* The syncer *)

(* On a prompt cluster, a downstream namespace that is gone upstream and    *)
(* that no object is assigned to is gone once everybody is done: however    *)
(* plans and cancellations of the spec syncer's workers interleave with the *)
(* delayed queue, with failed requests and restarts, for any set of objects *)
(* and any delay.                                                           *)
THEOREM EmptyNamespacesAreCleaned ==
    ASSUME Prompt
    PROVE  AnySpec => []EmptyNamespaceIsCleaned
<1> DEFINE Inv == part = "cleaner" /\ ~upstreamNs => CleanerIInv
<1>1. AnyInit => Inv BY CleanerStarts DEF AnyInit
<1>2. Inv /\ [AnyNext]_all => Inv'
  <2> SUFFICES ASSUME Inv, [AnyNext]_all, part' = "cleaner", ~upstreamNs' PROVE CleanerIInv'
    OBVIOUS
  <2>1. part = "cleaner" /\ (Next \/ UNCHANGED vars)
    BY DEF AnyNext, all
  <2>2. ~upstreamNs BY <2>1, UpstreamStays
  <2> QED BY <2>1, <2>2, CleanerStays
<1>3. Inv => EmptyNamespaceIsCleaned
  <2> SUFFICES ASSUME CleanerIInv, Settled, timer = 0, \A o \in Objects : view[o] = "none",
                      dns # "none"
               PROVE  FALSE
    BY DEF EmptyNamespaceIsCleaned, EmptyIsCleaned
  <2>1. dns = "present" BY DEF CleanerIInv, TypeOK, Lives, Settled
  <2>2. \A o \in Objects : ~Owes(o)
    <3> SUFFICES ASSUME NEW o \in Objects PROVE ~Owes(o)
      OBVIOUS
    <3>1. viewSeen[o] = view[o] /\ downWatch[o] = <<>> /\ step[o] = "idle" /\ o \notin queue
      BY DEF Settled
    <3> QED BY <3>1 DEF Owes
  <2>3. ~NamespaceIsChanging BY <2>1 DEF NamespaceIsChanging, Settled
  <2>4. ~(timer > 0) /\ ~delayed /\ ~deleting BY DEF Settled
  <2> QED BY <2>1, <2>2, <2>3, <2>4 DEF CleanerIInv, CleaningIsComing
<1> QED BY <1>1, <1>2, <1>3, PTL DEF AnySpec

(* The delayed worker looks into the cache and deletes afterwards; still it *)
(* deletes no namespace with an object that is to stay, as long as none     *)
(* comes back.                                                              *)
THEOREM NamespacesAreKept ==
    ASSUME "assign" \notin SteadyEvents
    PROVE  AnySpec => NothingIsLost
<1> DEFINE Inv == part = "steady" => Steady!KeptIInv
<1>1. AnyInit => Inv BY KeptStarts DEF AnyInit
<1>2. Inv /\ [AnyNext]_all => Inv' /\ [part = "steady" => AssignedAreKept]_vars
  <2> SUFFICES ASSUME Inv, [AnyNext]_all
               PROVE  Inv' /\ (part = "steady" => AssignedAreKept)
    OBVIOUS
  <2>1. part' = part /\ (part = "steady" => Steady!Next \/ UNCHANGED vars) BY DEF AnyNext, all
  <2>2. CASE part = "steady" BY <2>1, <2>2, KeptStays, NothingIsDeleted
  <2> QED BY <2>1, <2>2
<1> QED BY <1>1, <1>2, PTL DEF AnySpec, NothingIsLost

(* It is the same from the beginning, while objects are synced for the      *)
(* first time, if nothing is under way when the time has come.              *)
THEOREM FirstSyncIsKept ==
    ASSUME {"assign", "slow"} \cap SteadyEvents = {}
    PROVE  Steady!Spec => [][AssignedAreKept]_vars
<1>1. Steady!Init => Steady!KeptIInv BY KeptStarts
<1>2. Steady!KeptIInv /\ [Steady!Next]_vars => Steady!KeptIInv' /\ [AssignedAreKept]_vars
  BY KeptStays, NothingIsDeleted
<1>3. [Steady!Next]_(Steady!vars) => [Steady!Next]_vars BY DEF Steady!vars, vars
<1> QED BY <1>1, <1>2, <1>3, PTL DEF Steady!Spec

(* However many workers write the table of a workspace, its DNS server      *)
(* resolves the names of all its namespaces once everybody is done, over    *)
(* failed writes and restarts of the syncer and the server, but for those   *)
(* that a worker with an older list took out.                               *)
THEOREM NamespacesAreResolved == AnySpec => []OvertakenOrResolved
<1>1. AnyInit => Map!MapIInv BY TablesStart DEF AnyInit
<1>2. Map!MapIInv /\ [AnyNext]_all => Map!MapIInv'
  <2> SUFFICES ASSUME Map!MapIInv, [AnyNext]_all PROVE Map!MapIInv'
    OBVIOUS
  <2>1. Map!MapNext \/ UNCHANGED mapVars BY DEF AnyNext, all
  <2> QED BY <2>1, TablesStay
<1>3. Map!MapIInv => OvertakenOrResolved
  BY DEF Map!MapIInv, Map!MapTypeOK, Map!TablesGrow, OvertakenOrResolved, Map!OvertakenOrResolved,
         Map!MapQuiet, Map!Rewritten, Map!Busy, Map!Table
<1> QED BY <1>1, <1>2, <1>3, PTL DEF AnySpec

(* In whatever order the three informers tell the controller of what comes, *)
(* goes and is made anew, Endpoints whose Service asks for it and was found *)
(* are labelled once the controller is done.                                *)
THEOREM EndpointsAreLabelled == AnySpec => []QuietMeansLabelled
<1>1. AnyInit => Ep!EpIInv BY EndpointsStart DEF AnyInit
<1>2. Ep!EpIInv /\ [AnyNext]_all => Ep!EpIInv'
  <2> SUFFICES ASSUME Ep!EpIInv, [AnyNext]_all PROVE Ep!EpIInv'
    OBVIOUS
  <2>1. Ep!EpNext \/ UNCHANGED epVars BY DEF AnyNext, all
  <2> QED BY <2>1, EndpointsStay
<1>3. Ep!EpIInv => QuietMeansLabelled
  BY DEF Ep!EpIInv, Ep!EpTypeOK, Ep!UidsAreNew, Ep!FoundIsDealtWith, Ep!Services, Ep!EndpointSets,
         QuietMeansLabelled, Ep!QuietMeansLabelled, Ep!EpQuiet, Ep!IsThere
<1> QED BY <1>1, <1>2, <1>3, PTL DEF AnySpec
=============================================================================
