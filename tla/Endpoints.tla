------------------------------ MODULE Endpoints ------------------------------
(***************************************************************************)
(* The endpoints controller of the syncer labels the Endpoints of a synced *)
(* Service for upsyncing when the Service asks for it.  It works from      *)
(* three informers, of namespaces, services and endpoints, that are not    *)
(* in step with each other.  One Service, with its Endpoints and its       *)
(* namespace.                                                              *)
(***************************************************************************)
EXTENDS Naturals

CONSTANT
    EpBound   \* bound: events of the environment in one behaviour

VARIABLES
    namespace,   \* the namespace exists and belongs to this SyncTarget
    service,     \* with its uid and kind: "owned" (has an owner), "derived" (asks for its Endpoints)
    endpoints,   \* with the uid of the Service they were made for
    seenNS,      \* the three as the informers know them
    seenService,
    seenEndpoints,
    epQueue,     \* the key is in the queue
    patching,    \* a worker is about to patch
    found,       \* history: the Service that the last pass found, or NoUid
    epEvents

seen == <<seenNS, seenService, seenEndpoints>>
epVars == <<namespace, service, endpoints, seen, epQueue, patching, found, epEvents>>

NoUid == 0
NoService == [uid |-> NoUid, kind |-> "none"]
NoEndpoints == [uid |-> NoUid, kind |-> "none"]

IsThere(o) == o.kind # "none"

-----------------------------------------------------------------------------
(* The controller *)

(* What an informer tells next: an object that was made anew is seen to go     *)
(* before, unless the informer lists again.                                    *)
Told(old, new, gone) == IF IsThere(old) /\ IsThere(new) /\ old.uid # new.uid THEN {gone, new} ELSE {new}

SeeNamespace ==
    /\ seenNS # namespace /\ seenNS' = namespace
    /\ UNCHANGED <<namespace, service, endpoints, seenService, seenEndpoints, epQueue, patching, found, epEvents>>

(* Endpoints are queued when they come and when they change.                   *)
SeeEndpoints ==
    /\ seenEndpoints # endpoints /\ seenEndpoints' \in Told(seenEndpoints, endpoints, NoEndpoints)
    /\ epQueue' = (epQueue \/ IsThere(seenEndpoints'))
    /\ UNCHANGED <<namespace, service, endpoints, seenNS, seenService, patching, found, epEvents>>

(* Mutant: a Service that changes is not looked at.                            *)
NeverEnqueued(old, new) == FALSE

(* A Service queues its Endpoints when it changes, not when it comes.          *)
EnqueueService(old, new) == IsThere(old) /\ IsThere(new) /\ IsThere(seenEndpoints)

SeeService ==
    /\ seenService # service /\ seenService' \in Told(seenService, service, NoService)
    /\ epQueue' = (epQueue \/ EnqueueService(seenService, seenService'))
    /\ UNCHANGED <<namespace, service, endpoints, seenNS, seenEndpoints, patching, found, epEvents>>

(* Whatever is not there ends the pass, and nobody comes back to it.           *)
Process ==
    /\ epQueue /\ ~patching
    /\ epQueue' = FALSE
    /\ patching' = (seenNS /\ seenEndpoints.kind = "plain" /\ seenService.kind = "derived")
    /\ found' = IF seenNS /\ IsThere(seenEndpoints) THEN seenService.uid ELSE NoUid
    /\ UNCHANGED <<namespace, service, endpoints, seen, epEvents>>

(* The patch needs no version; that of Endpoints that are gone is no error.    *)
PatchEndpoint ==
    /\ patching /\ patching' = FALSE
    /\ endpoints' = IF IsThere(endpoints) THEN [endpoints EXCEPT !.kind = "upsync"] ELSE endpoints
    /\ UNCHANGED <<namespace, service, seen, epQueue, found, epEvents>>

EpEvent == epEvents < EpBound /\ epEvents' = epEvents + 1

(* A patch that fails brings the key back.                                     *)
ProcessNextWorkItem == epQueue' = TRUE

PatchFails ==
    /\ EpEvent
    /\ patching /\ patching' = FALSE /\ ProcessNextWorkItem
    /\ UNCHANGED <<namespace, service, endpoints, seen, found>>

-----------------------------------------------------------------------------
(* Environment: the spec syncer, the physical cluster and users of both *)

NamespaceIsCreated ==
    /\ EpEvent /\ ~namespace /\ namespace' = TRUE
    /\ UNCHANGED <<service, endpoints, seen, epQueue, patching, found>>

ServiceChanges ==
    /\ EpEvent /\ namespace
    /\ \E k \in {"plain", "owned", "derived"} \ {service.kind} :
         service' = [uid |-> IF IsThere(service) THEN service.uid ELSE epEvents', kind |-> k]
    /\ UNCHANGED <<namespace, endpoints, seen, epQueue, patching, found>>

ServiceIsDeleted ==
    /\ EpEvent /\ IsThere(service) /\ service' = NoService
    /\ UNCHANGED <<namespace, endpoints, seen, epQueue, patching, found>>

(* The cluster makes the Endpoints of a Service and deletes them with it.      *)
EndpointsFollow ==
    /\ IsThere(service) # IsThere(endpoints)
    /\ endpoints' = IF IsThere(service) THEN [uid |-> service.uid, kind |-> "plain"] ELSE NoEndpoints
    /\ UNCHANGED <<namespace, service, seen, epQueue, patching, found, epEvents>>

-----------------------------------------------------------------------------
(* Specification *)

EpInit ==
    /\ namespace = FALSE /\ service = NoService /\ endpoints = NoEndpoints
    /\ seenNS = FALSE /\ seenService = NoService /\ seenEndpoints = NoEndpoints
    /\ epQueue = FALSE /\ patching = FALSE /\ found = NoUid /\ epEvents = 0

EpNext ==
    \/ SeeNamespace \/ SeeEndpoints \/ SeeService \/ Process \/ PatchEndpoint \/ PatchFails
    \/ NamespaceIsCreated \/ ServiceChanges \/ ServiceIsDeleted \/ EndpointsFollow

EpSpec == EpInit /\ [][EpNext]_epVars

-----------------------------------------------------------------------------
(* Properties *)

EpQuiet ==
    /\ seenNS = namespace /\ seenService = service /\ seenEndpoints = endpoints
    /\ ~epQueue /\ ~patching

(* When the controller has nothing left to do, Endpoints whose Service asks    *)
(* for it are labelled if the last pass found that Service, in whatever state: *)
(* no change of it, no failed patch and no Endpoints made anew get lost        *)
(* between the three informers.                                                *)
QuietMeansLabelled ==
    EpQuiet /\ service.kind = "derived" /\ IsThere(endpoints) /\ found = service.uid
    => endpoints.kind = "upsync"

(* ... and if it did not.  The code does not keep this: a pass that comes      *)
(* before the Service is in the cache ends, and a Service that comes queues    *)
(* nothing.                                                                    *)
EarlyIsLabelled ==
    EpQuiet /\ service.kind = "derived" /\ IsThere(endpoints) => endpoints.kind = "upsync"

-----------------------------------------------------------------------------
(* Why it holds: a pass that found the Service of the cache has dealt with     *)
(* the Endpoints of the cache, or is about to.                                 *)

Services == [uid : Nat, kind : {"none", "plain", "owned", "derived"}]
EndpointSets == [uid : Nat, kind : {"none", "plain", "upsync"}]

EpTypeOK ==
    /\ namespace \in BOOLEAN /\ seenNS \in BOOLEAN
    /\ epQueue \in BOOLEAN /\ patching \in BOOLEAN
    /\ epEvents \in Nat /\ found \in Nat
    /\ {service, seenService} \subseteq Services
    /\ {endpoints, seenEndpoints} \subseteq EndpointSets

(* A uid belongs to one Service and is never used again.                       *)
UidsAreNew ==
    /\ \A o \in {service, seenService, endpoints, seenEndpoints} :
          (IsThere(o) <=> o.uid # NoUid) /\ o.uid <= epEvents
    /\ found <= epEvents

(* What is found is in the cache for as long as it is there, and Endpoints     *)
(* that were seen come and go with their Service.                              *)
CachesKeepUp ==
    /\ seenNS => namespace
    /\ found # NoUid => seenNS
    /\ IsThere(service) /\ found = service.uid => seenService.uid = service.uid
    /\ IsThere(service) /\ ~IsThere(endpoints) => seenEndpoints.uid # service.uid

FoundIsDealtWith ==
    /\ ~epQueue /\ ~patching
    /\ seenService.kind = "derived" /\ found = seenService.uid /\ seenEndpoints.kind = "plain"
    => endpoints # seenEndpoints

EpIInv == EpTypeOK /\ UidsAreNew /\ CachesKeepUp /\ FoundIsDealtWith
=============================================================================
