---------------------------- MODULE MCDownstream ----------------------------
(***************************************************************************)
(* Small instances, for TLC, of what the syncer keeps in the physical      *)
(* cluster besides the objects themselves: the namespaces (twice, with and *)
(* without new assignments), the table of their names, the DNS server of   *)
(* the workspace, and the labels of Endpoints.  A behaviour is one of      *)
(* these, chosen at its beginning; the others do not move.                 *)
(***************************************************************************)
EXTENDS MCNamespaceCleaner

CONSTANTS
    SteadyEvents,                                    \* Events when no object comes back
    None,
    Names, MapWorkers, MapBound,                     \* of NamespaceMap
    Synced, Deployments, Images, Fallible, DNSBound, \* of WorkspaceDNS
    EpBound                                          \* of Endpoints

ASSUME NoneIsNoTable ==
    /\ \A table \in SUBSET Names : table # None
    /\ \A work \in [key : Names, data : SUBSET Names, list : SUBSET Names] : work # None

VARIABLES
    part,
    phys, listed, mapQueue, mapWork, configMap, namespaces, overtaken, mapEvents,
    exists, known, image, dnsEndpoints, epSeen, dnsImage, initialized, token, at, dnsEvents,
    namespace, service, endpoints, seenNS, seenService, seenEndpoints, epQueue, patching, found, epEvents

Steady == INSTANCE NamespaceCleaner WITH Events <- SteadyEvents
Map == INSTANCE NamespaceMap
DNS == INSTANCE WorkspaceDNS
Ep == INSTANCE Endpoints

mapVars == <<phys, listed, mapQueue, mapWork, configMap, namespaces, overtaken, mapEvents>>
serverVars == <<exists, known, image, dnsEndpoints, epSeen, dnsImage, initialized, token, at, dnsEvents>>
epVars == <<namespace, service, endpoints, seenNS, seenService, seenEndpoints, epQueue, patching, found, epEvents>>

all == <<part, vars, mapVars, serverVars, epVars>>

-----------------------------------------------------------------------------
AnyInit ==
    /\ part \in {"cleaner", "steady", "map", "dns", "endpoints"}
    /\ Running /\ (part # "cleaner" => upstreamNs)
    /\ Map!MapInit /\ DNS!DNSInit /\ (part # "dns" => dnsImage = CHOOSE i \in Images : TRUE)
    /\ Ep!EpInit

AnyNext ==
    /\ UNCHANGED part
    /\ \/ part = "cleaner" /\ Next /\ UNCHANGED <<mapVars, serverVars, epVars>>
       \/ part = "steady" /\ Steady!Next /\ UNCHANGED <<mapVars, serverVars, epVars>>
       \/ part = "map" /\ Map!MapNext /\ UNCHANGED <<vars, serverVars, epVars>>
       \/ part = "dns" /\ DNS!DNSNext /\ UNCHANGED <<vars, mapVars, epVars>>
       \/ part = "endpoints" /\ Ep!EpNext /\ UNCHANGED <<vars, mapVars, serverVars>>

AnySpec == AnyInit /\ [][AnyNext]_all

(* The fairness of the two parts with a property that needs it.             *)
SteadyFairness ==
    /\ \A o \in Objects : /\ WF_vars(part = "steady" /\ Steady!SpecSyncer(o))
                          /\ WF_vars(part = "steady" /\ Steady!DeliverView(o))
                          /\ WF_vars(part = "steady" /\ Steady!DeliverObject(o))
    /\ WF_vars(part = "steady" /\ Steady!ProcessNamespace)
    /\ WF_vars(part = "steady" /\ Steady!DelayedWorker)
    /\ WF_vars(part = "steady" /\ Steady!DeliverNamespace)
    /\ WF_vars(part = "steady" /\ Steady!Cluster)
    /\ WF_vars(part = "steady" /\ Steady!Tick)

ServerFairness ==
    /\ \A o \in Synced : WF_serverVars(part = "dns" /\ DNS!Worker(o))
    /\ WF_serverVars(part = "dns" /\ DNS!UpdateEndpoints)
    /\ WF_serverVars(part = "dns" /\ DNS!DeliverResource)
    /\ WF_serverVars(part = "dns" /\ DNS!DeliverEndpoints)
    /\ WF_serverVars(part = "dns" /\ DNS!DeliverToken)

-----------------------------------------------------------------------------
(* Properties.  Each that needs fairness assumes that of its own part.      *)

(* A namespace that is gone upstream and that no object is assigned to is  *)
(* gone downstream when everybody is done.                                 *)
EmptyNamespaceIsCleaned == part = "cleaner" => EmptyIsCleaned

(* The downstream namespace is not deleted with an object in it that is to  *)
(* stay: the delayed worker looks into the cache and deletes afterwards.    *)
NothingIsLost == [][part = "steady" => AssignedAreKept]_vars

(* Nothing is lost, and an object that stays assigned is on the cluster in  *)
(* the end.                                                                 *)
SteadyIsKept == NothingIsLost /\ (part = "steady" /\ SteadyFairness => WantedArrives)

(* The DNS server of a workspace comes up, with the image of the syncer     *)
(* that runs, and every object is synced.                                   *)
DNSComesUp == part = "dns" /\ ServerFairness => DNS!DNSComesUp

(* All namespaces that exist are resolved when everybody is done, but for   *)
(* those that an older list took out of the table.                          *)
OvertakenOrResolved == part = "map" => Map!OvertakenOrResolved

(* Endpoints whose Service asks for it, and was found by the last pass, are *)
(* labelled when everybody is done.                                         *)
QuietMeansLabelled == part = "endpoints" => Ep!QuietMeansLabelled
=============================================================================
