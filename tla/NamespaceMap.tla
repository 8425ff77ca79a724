---------------------------- MODULE NamespaceMap ----------------------------
(***************************************************************************)
(* How pods of a workspace find services by the names of its namespaces:   *)
(* the downstream namespace controller keeps a table from the namespaces   *)
(* of the workspace to those of the physical cluster in a ConfigMap, and   *)
(* the DNS server of the workspace rewrites names with it.  A namespace    *)
(* has one physical name, so a table is the set of the names in it.        *)
(***************************************************************************)
EXTENDS Naturals

CONSTANTS
    Names,       \* namespaces of the workspace
    MapWorkers,  \* workers of the downstream namespace controller
    None,
    MapBound     \* bound: events of the environment in one behaviour

VARIABLES
    phys,       \* the namespaces that have one in the cluster
    listed,     \* those that the lister knows
    mapQueue,   \* the queue of the controller
    mapWork,    \* [w]: the key and the table of a worker, with the list it is from, or None
    configMap,  \* the table in the ConfigMap, or None
    namespaces, \* the table of the DNS server
    overtaken,  \* history: namespaces that an older list took out of the table
    mapEvents

mapVars == <<phys, listed, mapQueue, mapWork, configMap, namespaces, overtaken, mapEvents>>

Busy(n) == \E w \in MapWorkers : mapWork[w] # None /\ mapWork[w].key = n

-----------------------------------------------------------------------------
(* The downstream namespace controller *)

(* Namespaces that come or go are queued; updates are not.                     *)
DeliverNamespace(n) ==
    /\ n \in (phys \ listed) \cup (listed \ phys)
    /\ listed' = IF n \in phys THEN listed \cup {n} ELSE listed \ {n}
    /\ mapQueue' = mapQueue \cup {n}
    /\ UNCHANGED <<phys, mapWork, configMap, namespaces, overtaken, mapEvents>>

(* Mutant: the table has the namespace that is processed.                      *)
DataOfKey(n) == {n}

(* All namespaces of the workspace that the lister knows.                      *)
Data(n) == listed

(* A key whose namespace is gone is dropped.                                   *)
ProcessKey(w, n) ==
    /\ mapWork[w] = None /\ n \in mapQueue /\ ~Busy(n)
    /\ mapQueue' = mapQueue \ {n}
    /\ mapWork' = [mapWork EXCEPT ![w] = IF n \in listed
                                            THEN [key |-> n, data |-> Data(n), list |-> listed]
                                            ELSE None]
    /\ UNCHANGED <<phys, listed, configMap, namespaces, overtaken, mapEvents>>

Table == IF configMap = None THEN {} ELSE configMap

(* The ConfigMap is written whatever it holds by now.                          *)
UpdateDNSConfigMap(w) ==
    /\ mapWork[w] # None
    /\ configMap' = mapWork[w].data
    /\ overtaken' = ((overtaken \cup Table) \cap listed) \ mapWork[w].list
    /\ mapWork' = [mapWork EXCEPT ![w] = None]
    /\ UNCHANGED <<phys, listed, mapQueue, namespaces, mapEvents>>

UpdateDNSConfigMapFails(w) ==
    /\ mapWork[w] # None /\ mapEvents < MapBound /\ mapEvents' = mapEvents + 1
    /\ mapQueue' = mapQueue \cup {mapWork[w].key}
    /\ mapWork' = [mapWork EXCEPT ![w] = None]
    /\ UNCHANGED <<phys, listed, configMap, namespaces, overtaken>>

-----------------------------------------------------------------------------
(* The DNS server *)

UpdateFromConfigmap ==
    /\ configMap # None /\ namespaces # configMap
    /\ namespaces' = configMap
    /\ UNCHANGED <<phys, listed, mapQueue, mapWork, configMap, overtaken, mapEvents>>

(* What becomes of the name of a namespace.                                    *)
Rewritten(n) == n \in namespaces

-----------------------------------------------------------------------------
(* Environment: the spec syncer creates namespaces, the cleaner deletes them *)

MapEvent == mapEvents < MapBound /\ mapEvents' = mapEvents + 1

NamespaceComes(n) ==
    /\ MapEvent /\ n \notin phys /\ phys' = phys \cup {n}
    /\ UNCHANGED <<listed, mapQueue, mapWork, configMap, namespaces, overtaken>>

NamespaceIsDeleted(n) ==
    /\ MapEvent /\ n \in phys /\ phys' = phys \ {n}
    /\ UNCHANGED <<listed, mapQueue, mapWork, configMap, namespaces, overtaken>>

(* The DNS server or the syncer restarts.                                      *)
DNSServerRestarts ==
    /\ MapEvent /\ namespaces' = {}
    /\ UNCHANGED <<phys, listed, mapQueue, mapWork, configMap, overtaken>>

SyncerRestarts ==
    /\ MapEvent /\ listed' = phys /\ mapQueue' = phys /\ mapWork' = [w \in MapWorkers |-> None]
    /\ UNCHANGED <<phys, configMap, namespaces, overtaken>>

-----------------------------------------------------------------------------
(* Specification *)

MapInit ==
    /\ phys = {} /\ listed = {} /\ mapQueue = {} /\ mapWork = [w \in MapWorkers |-> None]
    /\ configMap = None /\ namespaces = {} /\ overtaken = {} /\ mapEvents = 0

MapNext ==
    \/ \E n \in Names : DeliverNamespace(n) \/ NamespaceComes(n) \/ NamespaceIsDeleted(n)
    \/ \E w \in MapWorkers : \/ \E n \in Names : ProcessKey(w, n)
                             \/ UpdateDNSConfigMap(w) \/ UpdateDNSConfigMapFails(w)
    \/ UpdateFromConfigmap \/ DNSServerRestarts \/ SyncerRestarts

MapSpec == MapInit /\ [][MapNext]_mapVars

-----------------------------------------------------------------------------
(* Properties *)

MapQuiet ==
    /\ listed = phys /\ mapQueue = {} /\ \A w \in MapWorkers : mapWork[w] = None
    /\ configMap = None \/ namespaces = configMap

(* When nobody has anything left to do, the DNS server resolves the names of   *)
(* all namespaces that exist, as it should if making the table from scratch is *)
(* sound.  The code does not keep this with more than one worker: a table made *)
(* from an older list is written over a newer one.                             *)
QuietMeansResolved == MapQuiet => \A n \in phys : Rewritten(n)

(* What is left: only a namespace that an older list took out of the table is  *)
(* not resolved; no other one is lost to a filter of events, to a failure or   *)
(* to a restart, with any number of workers.                                   *)
OvertakenOrResolved == MapQuiet => \A n \in phys \ overtaken : Rewritten(n)

(* ... and no others are resolved.  The code does not keep this either: the    *)
(* README tells how.                                                           *)
QuietMeansRefreshed == MapQuiet => \A n \in Names : Rewritten(n) <=> n \in phys

-----------------------------------------------------------------------------
(* Why it holds: a namespace that is listed and not queued is in the table, or *)
(* in the one that is about to be written for it, or was taken out.            *)

Tables == SUBSET Names
MapWork == [key : Names, data : Tables, list : Tables]

MapTypeOK ==
    /\ {phys, listed, mapQueue, namespaces, overtaken} \subseteq Tables
    /\ mapWork \in [MapWorkers -> MapWork \cup {None}]
    /\ configMap \in Tables \cup {None}
    /\ mapEvents \in Nat

TablesGrow ==
    /\ \A w \in MapWorkers : mapWork[w] # None =>
           mapWork[w].data = mapWork[w].list /\ mapWork[w].key \in mapWork[w].list
    /\ \A n \in listed \ mapQueue : n \in Table \cup overtaken \/ Busy(n)

MapIInv == MapTypeOK /\ TablesGrow
=============================================================================
