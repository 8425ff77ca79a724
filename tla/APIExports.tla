----------------------------- MODULE APIExports -----------------------------
(***************************************************************************)
(* From a negotiated API to the API that a syncer is served.               *)
(*                                                                         *)
(* Three controllers in a row, each of which reads what the one before it  *)
(* has written, through caches that lag behind one another:                *)
(*   - the API export controller makes an immutable schema of each         *)
(*     negotiated resource that the export lists, lists it in place of the *)
(*     old one, and deletes the old one;                                   *)
(*   - the export controller of SyncTargets says which resources a target  *)
(*     syncs, and which of them its cluster accepts;                       *)
(*   - the API reconciler of the syncer virtual workspace holds a          *)
(*     definition of every accepted API, which serves the syncer until it  *)
(*     is torn down.                                                       *)
(*                                                                         *)
(* One workspace, with one export and one SyncTarget.  The content of a    *)
(* schema is the set of its fields.                                        *)
(***************************************************************************)
EXTENDS Integers, Sequences, FiniteSets, Functions

CONSTANTS
    Resources,
    Fields,
    None,
    RefersBy,   \* how a target names the export: by "cluster" or by "path"
    MaxEvents,  \* bound: events of the environment in one behaviour
    Events      \* the kinds of environment events that may happen

(* What is negotiated: the fields of a version.  Of an object that is made     *)
(* anew the uid differs.                                                       *)
Negotiated == [uid : Nat, rv : Nat \ {0}, fields : SUBSET Fields]

ASSUME NoneIsNothing == None \notin Negotiated

VARIABLES
    neg, negSeen,          \* [r]: the negotiated resource, and in the cache
    export, exportSeen,    \* the names it lists and its identity
    schemas, schemasSeen,  \* APIResourceSchemas
    target, targetSeen,    \* the SyncTarget, with its uid
    imports, importsSeen,  \* [r]: the fields the target's cluster has, with uid and generation
    queue,                 \* the controllers that have their key queued
    work,                  \* the requests left to the API export controller
    served,                \* the API definitions of the target
    defining,              \* the definitions that will replace them
    torn,                  \* definitions torn down
    untold,                \* history: what the caches hold and no handler told a controller of
    rv, events

objects == <<neg, export, schemas, target, imports>>
caches == <<negSeen, exportSeen, schemasSeen, targetSeen, importsSeen>>
definitions == <<served, defining, torn>>
vars == <<neg, negSeen, export, exportSeen, schemas, schemasSeen, target, targetSeen, imports,
          importsSeen, queue, work, served, defining, torn, untold, rv, events>>

Controllers == {"export", "target", "definitions"}

(* A schema name holds the resource and the version of what it was made of.    *)
Name(r, v) == <<r, v>>
ResourceOf(n) == n[1]

Listed(e) == Range(e.list)
NamesOf(e, r) == {n \in Listed(e) : ResourceOf(n) = r}

Idle(c) == queue' = queue \ {c}

-----------------------------------------------------------------------------
(* API export controller *)

(* Gets a schema from the cache, else from the server.                         *)
GetAPIResourceSchema(n) ==
    {s \in schemasSeen : s.name = n} \cup {s \in schemas : s.name = n}

UpToDate(n) ==
    /\ negSeen[ResourceOf(n)] # None
    /\ \E s \in GetAPIResourceSchema(n) : s.fields = negSeen[ResourceOf(n)].fields

(* What is listed, and missing or no longer what was negotiated.               *)
OutdatedOrMissing ==
    {n \in Listed(exportSeen) : ~UpToDate(n) /\ negSeen[ResourceOf(n)] # None}

ToAPIResourceSchema(r) == [name |-> Name(r, negSeen[r].rv), fields |-> negSeen[r].fields]

NewName(n) ==
    IF n \in OutdatedOrMissing THEN ToAPIResourceSchema(ResourceOf(n)).name ELSE n

(* What one pass sends: new schemas, the list if it differs, and then what is  *)
(* deleted.                                                                    *)
NoWork == [create |-> {}, update |-> {}, delete |-> {}]

RequestsFor(list) ==
    [create |-> {ToAPIResourceSchema(ResourceOf(n)) : n \in OutdatedOrMissing},
     update |-> IF list = exportSeen.list THEN {} ELSE {[old |-> exportSeen, list |-> list]},
     delete |-> OutdatedOrMissing]

(* The list is made from a map, in an order that nobody chooses.               *)
Orders(S) == {list \in [1 .. Cardinality(S) -> S] : Range(list) = S}

ExportProcess ==
    /\ "export" \in queue /\ work = NoWork
    /\ Idle("export")
    /\ \/ (\A r \in Resources : negSeen[r] = None) /\ UNCHANGED work
       \/ /\ \E r \in Resources : negSeen[r] # None
          /\ \E list \in Orders({NewName(n) : n \in Listed(exportSeen)}) : work' = RequestsFor(list)
    /\ UNCHANGED <<objects, caches, definitions, untold, rv, events>>

(* A schema that exists already will do.                                       *)
CreateAPIResourceSchema(s) ==
    /\ s \in work.create
    /\ schemas' = IF \E t \in schemas : t.name = s.name THEN schemas ELSE schemas \cup {s}
    /\ work' = [work EXCEPT !.create = @ \ {s}]
    /\ UNCHANGED <<neg, export, target, imports, caches, queue, definitions, untold, rv, events>>

(* The update of the export needs the version that was read.                   *)
UpdateAPIExport(u) ==
    /\ work.create = {} /\ u \in work.update
    /\ \/ /\ export = u.old
          /\ export' = [export EXCEPT !.list = u.list]
          /\ work' = [work EXCEPT !.update = {}] /\ UNCHANGED queue
       \/ /\ export # u.old
          /\ work' = NoWork /\ queue' = queue \cup {"export"} /\ UNCHANGED export
    /\ UNCHANGED <<neg, schemas, target, imports, caches, definitions, untold, rv, events>>

(* Mutant: the old schemas go before the export stops listing them.            *)
MayDeleteEarly == work.create = {}

MayDelete == work.create = {} /\ work.update = {}

DeleteAPIResourceSchema(n) ==
    /\ MayDelete /\ n \in work.delete
    /\ schemas' = {s \in schemas : s.name # n}
    /\ work' = [work EXCEPT !.delete = @ \ {n}]
    /\ UNCHANGED <<neg, export, target, imports, caches, queue, definitions, untold, rv, events>>

ExportRequestFails ==
    /\ "fail" \in Events /\ events < MaxEvents /\ events' = events + 1
    /\ work # NoWork
    /\ work' = NoWork /\ queue' = queue \cup {"export"}
    /\ UNCHANGED <<objects, caches, definitions, untold, rv>>

-----------------------------------------------------------------------------
(* SyncTarget export controller *)

CachedSchema(n) == {s \in schemasSeen : s.name = n}

(* The schemas that the export lists for a resource, and one of them.          *)
Found(r) == UNION {CachedSchema(n) : n \in NamesOf(exportSeen, r)}
AnyOf(found) == CHOOSE s \in found : TRUE

(* The compatibility of the schema with what the cluster has.                  *)
StateOf(s) ==
    IF importsSeen[ResourceOf(s.name)] # None /\ s.fields \subseteq importsSeen[ResourceOf(s.name)].fields
    THEN "Accepted" ELSE "Incompatible"

(* The resources of the export whose schemas are found.                        *)
SyncedResources(refers) ==
    [r \in Resources |->
        IF ~refers \/ Found(r) = {} THEN None
        ELSE [state |-> StateOf(AnyOf(Found(r))), identity |-> exportSeen.identity]]

(* The commit needs the version that was read.                                 *)
TargetProcess ==
    /\ "target" \in queue
    /\ IF targetSeen = None \/ targetSeen.synced = SyncedResources(targetSeen.refers)
       THEN Idle("target") /\ UNCHANGED target
       ELSE IF target = targetSeen
       THEN Idle("target") /\ target' = [target EXCEPT !.synced = SyncedResources(target.refers)]
       ELSE UNCHANGED <<queue, target>>
    /\ untold' = [untold EXCEPT !.target = FALSE, !.imports = {}]
    /\ UNCHANGED <<neg, export, schemas, imports, caches, work, definitions, rv, events>>

-----------------------------------------------------------------------------
(* API reconciler of the virtual workspace *)

AcceptedIdentity(r) ==
    IF targetSeen.synced[r] # None /\ targetSeen.synced[r].state = "Accepted"
    THEN targetSeen.synced[r].identity ELSE None

(* The schemas of a resource that the target asks for and its cluster accepts. *)
IncludedSchemas(r) ==
    IF ~targetSeen.refers \/ AcceptedIdentity(r) = None THEN {}
    ELSE Found(r)

(* A definition that is still right is kept.                                   *)
NewSet(old) ==
    [r \in Resources |->
        LET found == IncludedSchemas(r)
            new == [name |-> AnyOf(found).name, identity |-> AcceptedIdentity(r),
                    made |-> Cardinality(torn)]
        IN  IF found = {} THEN None
            ELSE IF old[r] # None /\ [old[r] EXCEPT !.made = new.made] = new THEN old[r]
            ELSE new]

NoDefinitions == [r \in Resources |-> None]

(* Mutant: every old definition is torn down.                                  *)
TearDownAll(old, new) == {old[r] : r \in Resources} \ {None}

(* The old definitions that are not kept.                                      *)
TearDown(old, new) == {old[r] : r \in {q \in Resources : old[q] # new[q]}} \ {None}

(* The definitions of a target that is gone are dropped, not torn down.        *)
DefinitionsProcess ==
    /\ "definitions" \in queue /\ defining = None
    /\ Idle("definitions")
    /\ IF targetSeen = None
       THEN served' = NoDefinitions /\ UNCHANGED <<defining, torn>>
       ELSE /\ defining' = NewSet(served)
            /\ torn' = torn \cup TearDown(served, NewSet(served))
            /\ UNCHANGED served
    /\ untold' = [untold EXCEPT !.refers = FALSE]
    /\ UNCHANGED <<objects, caches, work, rv, events>>

(* The map is replaced under the lock; until then requests find the old one.   *)
DefinitionsSwap ==
    /\ defining # None
    /\ served' = defining /\ defining' = None
    /\ UNCHANGED <<objects, caches, queue, work, torn, untold, rv, events>>

-----------------------------------------------------------------------------
(* Informers and handlers *)

Refers(t) == t # None /\ t.refers

(* The API export controller hears of everything in the workspace of its       *)
(* export, of the export itself and of SyncTargets.                            *)
EnqueueAPIExport == {"export"}

EnqueueOfSyncTarget == {"export"}

(* The SyncTargets of an export, by the index of the export controller of      *)
(* SyncTargets, and by that of the virtual workspace, which knows an export by *)
(* its cluster only.                                                           *)
EnqueueTargets == IF Refers(targetSeen) THEN {"target"} ELSE {}

KnownByExport == Refers(targetSeen) /\ RefersBy = "cluster"

EnqueueDefinitions == IF KnownByExport THEN {"definitions"} ELSE {}

OfExport == EnqueueTargets \cup EnqueueDefinitions

MadeAnew(old, new) == old # None /\ new # None /\ old.uid # new.uid

(* A deletion and a new addition are seen one by one, or as one update.        *)
Told(old, new) == IF MadeAnew(old, new) THEN {new, None} ELSE {new}

SeeNegotiated(r) ==
    /\ negSeen[r] # neg[r]
    /\ \E new \in Told(negSeen[r], neg[r]) : negSeen' = [negSeen EXCEPT ![r] = new]
    /\ queue' = queue \cup {"export"}
    /\ UNCHANGED <<objects, exportSeen, schemasSeen, targetSeen, importsSeen, work, definitions, untold, rv, events>>

SeeExport ==
    /\ exportSeen # export
    /\ exportSeen' = export
    /\ queue' = queue \cup EnqueueAPIExport \cup OfExport
    /\ UNCHANGED <<objects, negSeen, schemasSeen, targetSeen, importsSeen, work, definitions, untold, rv, events>>

SeeSchema(s) ==
    /\ s \in (schemas \ schemasSeen) \cup (schemasSeen \ schemas)
    /\ schemasSeen' = IF s \in schemas THEN schemasSeen \cup {s} ELSE schemasSeen \ {s}
    /\ queue' = queue \cup (IF s.name \in Listed(exportSeen) THEN OfExport ELSE {})
    /\ UNCHANGED <<objects, negSeen, exportSeen, targetSeen, importsSeen, work, definitions, untold, rv, events>>

(* Who is told of a change of the SyncTarget: each controller compares what it *)
(* takes to matter.                                                            *)
EnqueueSyncTarget(old, new) ==
    CASE old = None -> Controllers
      [] new = None -> {"definitions"}
      [] old # None /\ new # None ->
           EnqueueOfSyncTarget \cup
           (IF new.refers # old.refers \/ new.synced # old.synced THEN {"target"} ELSE {}) \cup
           (IF new.synced # old.synced THEN {"definitions"} ELSE {})

(* Nobody is told that a SyncTarget is another one of the same name, and the   *)
(* definitions are not looked at again for another list of exports.            *)
SeeTarget ==
    /\ targetSeen # target
    /\ \E new \in Told(targetSeen, target) :
          /\ targetSeen' = new
          /\ queue' = queue \cup EnqueueSyncTarget(targetSeen, new)
          /\ untold' = [untold EXCEPT
                !.target = @ \/ MadeAnew(targetSeen, new),
                !.refers = @ \/ (targetSeen # None /\ new # None /\ new.refers # targetSeen.refers)]
    /\ UNCHANGED <<objects, negSeen, exportSeen, schemasSeen, importsSeen, work, definitions, rv, events>>

(* An import that goes tells nobody, nor does one of the same generation.      *)
EnqueueAPIResourceImport(old, new) ==
    IF new # None /\ (old = None \/ old.generation # new.generation) THEN {"target"} ELSE {}

SeeImport(r) ==
    /\ importsSeen[r] # imports[r]
    /\ \E new \in Told(importsSeen[r], imports[r]) :
          /\ importsSeen' = [importsSeen EXCEPT ![r] = new]
          /\ queue' = queue \cup EnqueueAPIResourceImport(importsSeen[r], new)
          /\ untold' = [untold EXCEPT
                !.imports = IF new = None \/ MadeAnew(importsSeen[r], new) THEN @ \cup {r} ELSE @]
    /\ UNCHANGED <<objects, negSeen, exportSeen, schemasSeen, targetSeen, work, definitions, rv, events>>

-----------------------------------------------------------------------------
(* Environment *)

Event(e) == e \in Events /\ events < MaxEvents /\ events' = events + 1

(* By the negotiation: a new schema, or a status, which makes a version too,   *)
(* and a clean-up.                                                             *)
Negotiate(r) ==
    /\ Event("negotiate") /\ rv' = rv + 1
    /\ \E f \in SUBSET Fields :
          neg' = [neg EXCEPT ![r] = [uid |-> IF @ = None THEN rv' ELSE @.uid, rv |-> rv', fields |-> f]]
    /\ UNCHANGED <<export, schemas, target, imports, caches, queue, work, definitions, untold>>

CleanUpNegotiated(r) ==
    /\ Event("negotiate") /\ neg[r] # None
    /\ neg' = [neg EXCEPT ![r] = None]
    /\ UNCHANGED <<export, schemas, target, imports, caches, queue, work, definitions, untold, rv>>

(* A user lists a resource, with a schema that will be made.                   *)
ListResource(r) ==
    /\ Event("list") /\ NamesOf(export, r) = {}
    /\ export' = [export EXCEPT !.list = Append(@, Name(r, 0))]
    /\ UNCHANGED <<neg, schemas, target, imports, caches, queue, work, definitions, untold, rv>>

SetIdentity ==
    /\ Event("identity") /\ export.identity = 0
    /\ export' = [export EXCEPT !.identity = 1]
    /\ UNCHANGED <<neg, schemas, target, imports, caches, queue, work, definitions, untold, rv>>

(* The syncer imports what its cluster has, and deletes the import with it.    *)
ImportAPI(r) ==
    /\ Event("import")
    /\ \E f \in SUBSET Fields :
          /\ imports[r] # None => f # imports[r].fields
          /\ imports' = [imports EXCEPT ![r] =
                IF @ = None THEN [uid |-> events', generation |-> 1, fields |-> f]
                ELSE [uid |-> @.uid, generation |-> @.generation + 1, fields |-> f]]
    /\ UNCHANGED <<neg, export, schemas, target, caches, queue, work, definitions, untold, rv>>

DeleteImport(r) ==
    /\ Event("import") /\ imports[r] # None
    /\ imports' = [imports EXCEPT ![r] = None]
    /\ UNCHANGED <<neg, export, schemas, target, caches, queue, work, definitions, untold, rv>>

CreateTarget ==
    /\ Event("target") /\ target = None
    /\ target' = [uid |-> events', refers |-> TRUE, synced |-> NoDefinitions]
    /\ UNCHANGED <<neg, export, schemas, imports, caches, queue, work, definitions, untold, rv>>

SetExports ==
    /\ Event("refers") /\ target # None
    /\ target' = [target EXCEPT !.refers = ~@]
    /\ UNCHANGED <<neg, export, schemas, imports, caches, queue, work, definitions, untold, rv>>

DeleteTarget ==
    /\ Event("delete") /\ target # None
    /\ target' = None
    /\ UNCHANGED <<neg, export, schemas, imports, caches, queue, work, definitions, untold, rv>>

-----------------------------------------------------------------------------
(* Specification *)

Init ==
    /\ neg = [r \in Resources |-> None] /\ negSeen = neg
    /\ export = [list |-> <<>>, identity |-> 0] /\ exportSeen = export
    /\ schemas = {} /\ schemasSeen = {}
    /\ target = [uid |-> 0, refers |-> TRUE, synced |-> NoDefinitions] /\ targetSeen = target
    /\ imports = [r \in Resources |-> None] /\ importsSeen = imports
    /\ queue = Controllers /\ work = NoWork
    /\ served = NoDefinitions /\ defining = None /\ torn = {}
    /\ untold = [target |-> FALSE, refers |-> FALSE, imports |-> {}]
    /\ rv = 0 /\ events = 0

Next ==
    \/ ExportProcess \/ ExportRequestFails
    \/ \E s \in work.create : CreateAPIResourceSchema(s)
    \/ \E u \in work.update : UpdateAPIExport(u)
    \/ \E n \in work.delete : DeleteAPIResourceSchema(n)
    \/ TargetProcess \/ DefinitionsProcess \/ DefinitionsSwap
    \/ SeeExport \/ SeeTarget \/ \E s \in schemas \cup schemasSeen : SeeSchema(s)
    \/ \E r \in Resources : SeeNegotiated(r) \/ SeeImport(r)
    \/ \E r \in Resources : Negotiate(r) \/ CleanUpNegotiated(r) \/ ListResource(r)
    \/ \E r \in Resources : ImportAPI(r) \/ DeleteImport(r)
    \/ SetIdentity \/ CreateTarget \/ SetExports \/ DeleteTarget

Spec == Init /\ [][Next]_vars

-----------------------------------------------------------------------------
(* Properties *)

(* The export never lists a schema that is gone: schemaReconciler makes the    *)
(* new schemas, then lists them, then deletes the old ones, and comes back to  *)
(* the middle of this after a conflict, a failed request or a new negotiation. *)
ListedExists ==
    \A n \in Listed(export) : n[2] # 0 => \E s \in schemas : s.name = n

Quiet ==
    /\ negSeen = neg /\ exportSeen = export /\ schemasSeen = schemas
    /\ targetSeen = target /\ importsSeen = imports
    /\ queue = {} /\ work = NoWork /\ defining = None

Latest(r) == {s \in schemas : s.name \in NamesOf(export, r)}

(* An API is served if the target asks for it and its cluster has it.          *)
Wanted(r) ==
    /\ target # None /\ target.refers /\ imports[r] # None
    /\ \E s \in Latest(r) : s.fields \subseteq imports[r].fields

ServedRightly(r) ==
    /\ Wanted(r) <=> served[r] # None
    /\ Wanted(r) => /\ \E s \in Latest(r) : s.name = served[r].name
                    /\ served[r].identity = export.identity
                    /\ served[r] \notin torn

(* Nothing has happened since the last passes that the handlers do not tell:   *)
(* the SyncTarget made anew, its list of exports changed, an import of r that  *)
(* is gone or was made anew.                                                   *)
AllTold(r) == ~untold.target /\ ~untold.refers /\ r \notin untold.imports

(* When there is nothing left to do, the export lists the latest schema of     *)
(* what is negotiated, and the syncer is served exactly the APIs that its      *)
(* SyncTarget asks for and its cluster has, with the latest schema and         *)
(* identity, and by a definition that has not been torn down; apart from what  *)
(* no handler tells.  Three controllers in a row have to hear of every other   *)
(* change although each filters its events.                                    *)
QuietMeansDefined ==
    Quiet =>
      \A r \in Resources :
        /\ \A s \in Latest(r) : neg[r] # None => s.fields = neg[r].fields
        /\ (NamesOf(export, r) # {} /\ neg[r] # None) => Latest(r) # {}
        /\ target = None \/ AllTold(r) => ServedRightly(r)

(* ... and without exception.  The code does not keep this: the README tells   *)
(* of the events that are lost.                                                *)
QuietMeansServedRightly == Quiet => \A r \in Resources : ServedRightly(r)

(* Schemas go with what they were made from.  The code does not keep this      *)
(* either, although the comment on the controller says so.                     *)
QuietMeansCleanedUp == Quiet => \A r \in Resources : neg[r] = None => Latest(r) = {}

-----------------------------------------------------------------------------
(* The inductive invariant behind the theorems of APIExports_proofs *)

Names == Resources \X Nat
Exports == [list : Seq(Names), identity : {0, 1}]
Schemas == [name : Names, fields : SUBSET Fields]

(* Every variable of the API export controller has its type.                   *)
ExportTypeOK ==
    /\ neg \in [Resources -> Negotiated \cup {None}] /\ negSeen \in [Resources -> Negotiated \cup {None}]
    /\ export \in Exports /\ exportSeen \in Exports
    /\ schemas \subseteq Schemas /\ rv \in Nat
    /\ work \in [create : SUBSET Schemas, update : SUBSET [old : Exports, list : Seq(Names)],
                 delete : SUBSET Names]

(* The cache shows an old version of what was negotiated, or the present one.  *)
NegotiationGrows ==
    \A r \in Resources :
        /\ \A n \in {neg[r], negSeen[r]} : n \in Negotiated => n.rv <= rv
        /\ neg[r] \in Negotiated /\ negSeen[r] \in Negotiated =>
              /\ negSeen[r].rv <= neg[r].rv
              /\ negSeen[r].rv = neg[r].rv => negSeen[r] = neg[r]

(* A name was made of a version that the controller has seen: not later than   *)
(* what there is now.                                                          *)
Known(n) ==
    /\ n[2] <= rv
    /\ \A m \in {neg[ResourceOf(n)], negSeen[ResourceOf(n)]} : m \in Negotiated => n[2] <= m.rv

(* A schema of the present version has its content.                            *)
HasContent(s) ==
    \A m \in {neg[ResourceOf(s.name)], negSeen[ResourceOf(s.name)]} :
        m \in Negotiated /\ s.name[2] = m.rv => s.fields = m.fields

SchemasAreMade == \A s \in schemas \cup work.create : Known(s.name) /\ HasContent(s)

OnePerResource(names) == \A m, n \in names : ResourceOf(m) = ResourceOf(n) => m = n

(* A resource that is listed stays listed, and never by an older schema.       *)
Follows(old, new) == \A n \in old : \E m \in new : ResourceOf(m) = ResourceOf(n) /\ m[2] >= n[2]

Replaced(n, names) == \E m \in names : ResourceOf(m) = ResourceOf(n) /\ m[2] > n[2]

ListIsRight ==
    /\ OnePerResource(Listed(export)) /\ OnePerResource(Listed(exportSeen))
    /\ Follows(Listed(exportSeen), Listed(export))
    /\ \A n \in Listed(export) : n[2] # 0 => Known(n)

(* What is about to be listed is there or will be created before it is listed, *)
(* if the export is still the one that was read.                               *)
UpdatesAreRight ==
    \A u \in work.update :
        /\ OnePerResource(Range(u.list)) /\ Follows(Listed(u.old), Range(u.list))
        /\ \A m \in Range(u.list) : m[2] # 0 =>
              /\ Known(m)
              /\ m \in Listed(u.old) \/ \E s \in schemas \cup work.create : s.name = m
        /\ \A n \in work.delete : Replaced(n, Range(u.list))

DeletedIsReplaced ==
    work.update = {} => \A n \in work.delete : Replaced(n, Listed(export))

ExportIInv ==
    /\ ExportTypeOK /\ NegotiationGrows /\ SchemasAreMade /\ ListIsRight
    /\ UpdatesAreRight /\ DeletedIsReplaced /\ ListedExists

-----------------------------------------------------------------------------
(* What makes QuietMeansDefined inductive: a controller whose key is not       *)
(* queued has nothing left to do, or what it wrote is not in the cache yet.    *)

SyncTargets ==
    [uid : Nat, refers : BOOLEAN,
     synced : [Resources -> [state : {"Accepted", "Incompatible"}, identity : {0, 1}] \cup {None}]]

APIResourceImports == [uid : Nat, generation : Nat, fields : SUBSET Fields]

(* made tells definitions of the same schema and identity from one another.    *)
Definitions == [name : Names, identity : {0, 1}, made : Nat]
DefinitionSets == [Resources -> Definitions \cup {None}]

(* Needed to prove what is there from what is not None; torn is counted.       *)
ASSUME NoneIsNoObject ==
    /\ None \notin SyncTargets /\ None \notin APIResourceImports /\ None \notin Definitions /\ None \notin DefinitionSets
    /\ None \notin [state : {"Accepted", "Incompatible"}, identity : {0, 1}]
    /\ None \notin {0, 1} /\ IsFiniteSet(Resources)

ServedTypeOK ==
    /\ target \in SyncTargets \cup {None} /\ targetSeen \in SyncTargets \cup {None}
    /\ imports \in [Resources -> APIResourceImports \cup {None}]
    /\ importsSeen \in [Resources -> APIResourceImports \cup {None}]
    /\ schemasSeen \subseteq Schemas
    /\ served \in DefinitionSets /\ defining \in DefinitionSets \cup {None}
    /\ torn \subseteq Definitions /\ IsFiniteSet(torn)
    /\ untold \in [target : BOOLEAN, refers : BOOLEAN, imports : SUBSET Resources]
    /\ events \in Nat

(* A schema does not change: who finds its name, in the cache or not, has it.  *)
SchemasAreImmutable ==
    /\ \A s, t \in schemas \cup schemasSeen \cup work.create : s.name = t.name => s = t
    /\ \A s \in schemas \cup schemasSeen \cup work.create : s.name[2] # 0
    /\ \A s \in schemasSeen : Known(s.name) /\ HasContent(s)

(* A pass sends an update unless everything listed is right.                   *)
ExportSettled ==
    "export" \notin queue =>
        /\ \A u \in work.update : u.old = exportSeen /\ u.list # exportSeen.list
        /\ work.update = {} /\ export.list = exportSeen.list =>
             /\ work = NoWork
             /\ \A n \in Listed(export) : negSeen[ResourceOf(n)] # None =>
                  \E s \in schemas : s.name = n /\ s.fields = negSeen[ResourceOf(n)].fields

UidsAreOld ==
    /\ target # None => target.uid <= events
    /\ targetSeen # None => targetSeen.uid <= events

(* Of the same import the cache has an earlier generation, or the same one.    *)
ImportsGrow ==
    \A r \in Resources :
        /\ \A i \in {imports[r], importsSeen[r]} : i # None => i.uid <= events
        /\ imports[r] # None /\ importsSeen[r] # None /\ imports[r].uid = importsSeen[r].uid =>
              /\ importsSeen[r].generation <= imports[r].generation
              /\ importsSeen[r].generation = imports[r].generation => importsSeen[r] = imports[r]

TargetSettled ==
    /\ "target" \notin queue /\ target # None /\ targetSeen # None /\ ~untold.target
    /\ target.uid = targetSeen.uid /\ target.synced = targetSeen.synced
    => \A r \in Resources \ untold.imports :
         targetSeen.synced[r] = SyncedResources(targetSeen.refers)[r]

(* The definitions there will be when the map has been replaced.               *)
Coming == IF defining = None THEN served ELSE defining

DefinitionsSettled ==
    "definitions" \notin queue =>
        /\ targetSeen = None => Coming = NoDefinitions
        /\ targetSeen # None => \A r \in Resources :
             /\ AcceptedIdentity(r) = None => Coming[r] = None
             /\ AcceptedIdentity(r) # None /\ targetSeen.refers /\ ~untold.refers =>
                  /\ Coming[r] = None <=> Found(r) = {}
                  /\ Coming[r] # None => /\ \E s \in Found(r) : Coming[r].name = s.name
                                         /\ Coming[r].identity = AcceptedIdentity(r)

(* No definition that is to serve has been torn down.                          *)
ComingIsAlive ==
    /\ \A r \in Resources : Coming[r] # None =>
         /\ Coming[r] \notin torn /\ ResourceOf(Coming[r].name) = r
         /\ Coming[r].made <= Cardinality(torn)
    /\ \A d \in torn : d.made < Cardinality(torn)

ServedIInv ==
    /\ ServedTypeOK /\ SchemasAreImmutable /\ ExportSettled /\ UidsAreOld /\ ImportsGrow
    /\ TargetSettled /\ DefinitionsSettled /\ ComingIsAlive
=============================================================================
