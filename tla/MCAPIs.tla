-------------------------------- MODULE MCAPIs --------------------------------
(***************************************************************************)
(* Small instances, for TLC, of how the APIs of physical clusters come to  *)
(* be served: their negotiation into CRDs, and their way through an        *)
(* APIExport to the syncers.  A behaviour is one of the two, chosen at its *)
(* beginning; the other does not move.                                     *)
(***************************************************************************)
EXTENDS APIExports, TLC

CONSTANTS
    Imports, NegBound, NegEvents, StatusIs, Workers, Patient  \* of Negotiation

VARIABLES
    part,
    imp, impSeen, negotiated, negotiatedSeen, crd, crdSeen, negQueue, negWork, uid, negEvents

negVars == <<imp, impSeen, negotiated, negotiatedSeen, crd, crdSeen, negQueue, negWork, uid,
             negEvents>>

N == INSTANCE Negotiation WITH
         neg <- negotiated, negSeen <- negotiatedSeen, queue <- negQueue, work <- negWork,
         events <- negEvents, MaxEvents <- NegBound, Events <- NegEvents

Symmetry == Permutations(Workers)

-----------------------------------------------------------------------------
(* An API that is served: everybody has done his part and seen the others'.     *)
Schema == [name |-> Name(CHOOSE r \in Resources : TRUE, 1), fields |-> {}]

Settled ==
    /\ neg = [r \in Resources |->
                IF r = Schema.name[1] THEN [uid |-> 1, rv |-> 1, fields |-> Schema.fields] ELSE None]
    /\ export = [list |-> <<Schema.name>>, identity |-> 0]
    /\ schemas = {Schema}
    /\ imports = [r \in Resources |->
                    IF r = Schema.name[1] THEN [uid |-> 0, generation |-> 1, fields |-> {}] ELSE None]
    /\ target = [uid |-> 0, refers |-> TRUE,
                 synced |-> [NoDefinitions EXCEPT ![Schema.name[1]] = [state |-> "Accepted", identity |-> 0]]]
    /\ served = [NoDefinitions EXCEPT ![Schema.name[1]] = [name |-> Schema.name, identity |-> 0, made |-> 0]]
    /\ negSeen = neg /\ exportSeen = export /\ schemasSeen = schemas
    /\ targetSeen = target /\ importsSeen = imports
    /\ queue = {} /\ work = NoWork /\ defining = None /\ torn = {}
    /\ untold = [target |-> FALSE, refers |-> FALSE, imports |-> {}]
    /\ rv = 1 /\ events = 1

AnyInit ==
    /\ N!Init
    /\ \/ part \in {"negotiation", "exports"} /\ Init
       \/ part = "exports" /\ Settled

AnyNext ==
    /\ UNCHANGED part
    /\ \/ part = "exports" /\ Next /\ UNCHANGED negVars
       \/ part = "negotiation" /\ N!Next /\ UNCHANGED vars

AnySpec == AnyInit /\ [][AnyNext]_<<part, vars, negVars>>

-----------------------------------------------------------------------------
(* Properties *)

(* Every import has been compared with a negotiated resource, and none        *)
(* outlives its imports, when everybody is done.                              *)
QuietMeansNegotiated == part = "negotiation" => N!QuietMeansNegotiated

(* What is served is what was negotiated, when everybody is done.             *)
QuietMeansServed == part = "negotiation" => N!QuietMeansServed
=============================================================================
