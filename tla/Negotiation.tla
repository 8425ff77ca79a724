---------------------------- MODULE Negotiation ----------------------------
(***************************************************************************)
(* Negotiation of one API (one group, version and resource) of a           *)
(* workspace.                                                              *)
(*                                                                         *)
(* The syncers import the schema their cluster has (APIResourceImport);    *)
(* the controller makes the schema all of them have (NegotiatedAPIResource)*)
(* and publishes it as a CRD, unless a user has applied a CRD, which is    *)
(* then enforced.                                                          *)
(*                                                                         *)
(* The queue holds what happened, not only to what: the same object may be *)
(* queued as created, changed and deleted, and these may be with several   *)
(* workers at a time.  A worker reads the caches, and then sends its       *)
(* requests one by one; the first that fails brings the element back.      *)
(*                                                                         *)
(* A schema is the set of its fields.  The version of an object is its     *)
(* content.                                                                *)
(***************************************************************************)
EXTENDS Naturals, Sequences, FiniteSets, SequencesExt

CONSTANTS
    Imports,    \* the locations that import the API
    Fields,
    None,
    MaxEvents,  \* bound: events of the environment in one behaviour
    Events,     \* the kinds of environment events that may happen
    StatusIs,   \* what the server makes of a change of status: "spec", "status"
    Workers,
    Patient     \* does the environment wait until the controller has nothing to do?

VARIABLES
    imp, impSeen,  \* [i]: the import, and in the cache
    neg, negSeen,  \* the negotiated resource
    crd, crdSeen,
    queue,         \* queue elements
    work,          \* [w]: the element a worker has, and the requests left
    uid,           \* the last uid of a negotiated resource
    events

objects == <<imp, neg, crd>>
caches == <<impSeen, negSeen, crdSeen>>
vars == <<imp, impSeen, neg, negSeen, crd, crdSeen, queue, work, uid, events>>

Conditions == {"none", "true", "false"}
Strategies == {"UpdateNever", "UpdateUnpublished", "UpdatePublished"}

APIResourceImport == [schema : SUBSET Fields, strategy : Strategies,
                      compatible : Conditions, available : Conditions]

SetCondition(o, type, status) == [o EXCEPT ![type] = status]
IsConditionTrue(o, type) == o[type] = "true"

(* queueElement: key is the name of an import, deleted the deleted object.     *)
Element(type, action, key, deleted) ==
    [type |-> type, action |-> action, key |-> key, deleted |-> deleted]

-----------------------------------------------------------------------------
(* Requests: an update needs the version that was read; an import is updated   *)
(* with the resourceVersion of the moment if it says so.                       *)

PutNeg(old, new) == [on |-> "neg", old |-> old, new |-> new]
PutImport(i, old, new) == [on |-> "import", key |-> i, old |-> old, new |-> new]
PutLatestImport(i, new) == [on |-> "latestImport", key |-> i, new |-> new]
PutCRD(old, new) == [on |-> "crd", old |-> old, new |-> new]

CachedImports == {i \in Imports : impSeen[i] # None}

-----------------------------------------------------------------------------
(* What the controller does for one element: the requests it will send *)

IsManuallyCreatedCRD(c) == c # None /\ c.owners = {}

(* Mutant: only the condition is set.                                          *)
EnforceConditionOnly(c) ==
    IF negSeen = None THEN <<>> ELSE <<PutNeg(negSeen, SetCondition(negSeen, "enforced", "true"))>>

(* Twice with the same resourceVersion: the second one succeeds only in a pass *)
(* that finds the condition already set.                                       *)
EnforceCRDToNegotiatedAPIResource(c) ==
    IF negSeen = None THEN <<>>
    ELSE LET enforced == SetCondition(negSeen, "enforced", "true")
         IN  <<PutNeg(negSeen, enforced), PutNeg(negSeen, [enforced EXCEPT !.schema = c.schema])>>

PublishingStatus(n, c) ==
    [n EXCEPT !.published = CASE c.established /\ ~c.terminating -> "true"
                              [] c.terminating -> "false"
                              [] OTHER -> @,
              !.enforced = IF IsManuallyCreatedCRD(c) THEN "true" ELSE "false"]

UpdatePublishingStatus(c) ==
    IF negSeen = None THEN <<>> ELSE <<PutNeg(negSeen, PublishingStatus(negSeen, c))>>

DeleteNegotiatedAPIResource ==
    IF negSeen = None THEN <<>> ELSE <<[on |-> "deleteNeg"]>>

CanUpdate(strategy, published) ==
    strategy = "UpdatePublished" \/ (strategy = "UpdateUnpublished" /\ ~published)

(* EnsureStructuralSchemaCompatibility: narrowing gives the common fields,     *)
(* otherwise the import must have all the fields there are.                    *)
Compatible(existing, new, narrow) == narrow \/ existing \subseteq new

FromCRD(c) == [uid |-> 0, schema |-> c.schema, publish |-> TRUE, published |-> "true",
               enforced |-> "true", submitted |-> FALSE]

(* The first import of a negotiated resource that is made anew; of the old one *)
(* it keeps only what is said in spec.                                         *)
FromImport(i) ==
    [uid |-> 0, schema |-> impSeen[i].schema,
     publish |-> negSeen # None /\ negSeen.publish,
     published |-> "none", enforced |-> "none", submitted |-> FALSE]

(* One import against the negotiated resource n made so far.                   *)
Compare(acc, i) ==
    IF acc.neg = None
    THEN [neg |-> FromImport(i), updated |-> TRUE,
          imports |-> Append(acc.imports,
                         PutLatestImport(i, SetCondition(impSeen[i], "compatible", "true")))]
    ELSE LET n == acc.neg
             allow == /\ ~IsConditionTrue(n, "enforced")
                      /\ CanUpdate(impSeen[i].strategy, IsConditionTrue(n, "published"))
             ok == Compatible(n.schema, impSeen[i].schema, allow)
         IN  [neg |-> IF ok /\ allow THEN [n EXCEPT !.schema = @ \cap impSeen[i].schema] ELSE n,
              updated |-> acc.updated \/ (ok /\ allow),
              imports |-> Append(acc.imports, PutLatestImport(i,
                  [impSeen[i] EXCEPT !.compatible = IF ok THEN "true" ELSE "false",
                                     !.available = IF ok /\ n.published = "true" THEN "true" ELSE @]))]

(* is: the imports in the order of the index, the given one or all.  The       *)
(* strategy that callers ask for is not used.                                  *)
EnsureAPIResourceCompatibility(is, all) ==
    LET base == IF IsManuallyCreatedCRD(crdSeen) THEN FromCRD(crdSeen)
                ELSE IF all THEN None ELSE negSeen
        result == FoldLeft(Compare, [neg |-> base, updated |-> FALSE, imports |-> <<>>], is)
    IN  IF is = <<>> THEN <<>>
        ELSE (IF negSeen = None THEN <<[on |-> "createNeg", new |-> result.neg]>>
              ELSE IF result.updated THEN <<PutNeg(negSeen, [result.neg EXCEPT !.uid = negSeen.uid])>>
              ELSE <<>>) \o result.imports

AllImports == SetToSeq(CachedImports)

IsOrphan == CachedImports = {} /\ negSeen # None /\ ~IsConditionTrue(negSeen, "enforced")

(* A CRD that is not ours is left alone, but Submitted is set all the same.    *)
PublishNegotiatedResource(n) ==
    (CASE crdSeen = None ->
            <<PutCRD(None, [schema |-> n.schema, owners |-> {n.uid},
                            established |-> FALSE, terminating |-> FALSE])>>
       [] crdSeen # None /\ ~IsManuallyCreatedCRD(crdSeen) ->
            <<PutCRD(crdSeen, [crdSeen EXCEPT !.schema = n.schema, !.owners = @ \cup {n.uid}])>>
       [] IsManuallyCreatedCRD(crdSeen) -> <<>>)
    \o <<PutNeg(n, [n EXCEPT !.submitted = TRUE])>>

(* The imports in the cache, each replaced by new[i].                          *)
UpdateImports(new) ==
    [k \in 1 .. Cardinality(CachedImports) |->
        LET i == AllImports[k] IN PutImport(i, impSeen[i], new[i])]

(* All imports of the API, the incompatible ones included.                     *)
UpdateStatusOnRelatedAPIResourceImports(n) ==
    IF n.published = "none" THEN <<>>
    ELSE UpdateImports([i \in CachedImports |-> SetCondition(impSeen[i], "available", n.published)])

(* Mutant: the conditions of the deleted resource stay on its imports.         *)
CleanupCRDOnly(deleted) ==
    IF crdSeen # None /\ deleted.uid \in crdSeen.owners THEN <<[on |-> "deleteCRD"]>> ELSE <<>>

CleanupNegotiatedAPIResource(deleted) ==
    UpdateImports([i \in CachedImports |->
                      [impSeen[i] EXCEPT !.compatible = "none", !.available = "none"]])
    \o (IF crdSeen # None /\ deleted.uid \in crdSeen.owners THEN <<[on |-> "deleteCRD"]>> ELSE <<>>)

(* No object and no deletion either: an error, for ever.                       *)
Missing(e) ==
    e.action # "deleted" /\ CASE e.type = "crd" -> crdSeen = None
                              [] e.type = "import" -> impSeen[e.key] = None
                              [] e.type = "neg" -> negSeen = None

(* The object of an element, read once: the cached one, else the deleted one.  *)
ObjectOf(e) ==
    LET cached == CASE e.type = "crd" -> crdSeen
                    [] e.type = "import" -> impSeen[e.key]
                    [] e.type = "neg" -> negSeen
    IN  IF cached = None THEN e.deleted ELSE cached

(* What is to do for an element, in order.                                     *)
CRDSteps(action, c) ==
    CASE action = "deleted" -> IF IsManuallyCreatedCRD(c) THEN <<"deleteNeg">> ELSE <<"publishing">>
      [] action = "status" -> <<"publishing">>
      [] OTHER -> IF IsManuallyCreatedCRD(c) THEN <<"enforce", "publishing">> ELSE <<"publishing">>

ImportSteps(action, i) ==
    CASE action = "deleted" -> IF IsOrphan THEN <<"deleteNeg">> ELSE <<"ensureAll">>
      [] action = "status" -> IF i.compatible = "none" /\ i.available = "none" THEN <<"ensure">> ELSE <<>>
      [] OTHER -> <<"ensure">>

NegotiatedSteps(action, n) ==
    CASE action = "deleted" -> <<"cleanup">>
      [] action = "status" -> <<"available">>
      [] OTHER -> (IF IsConditionTrue(n, "enforced") THEN <<"ensureAll">>
                   ELSE IF n.publish THEN <<"publish">> ELSE <<>>) \o <<"available">>

Steps(e) ==
    CASE e.type = "crd" -> CRDSteps(e.action, ObjectOf(e))
      [] e.type = "import" -> ImportSteps(e.action, ObjectOf(e))
      [] e.type = "neg" -> NegotiatedSteps(e.action, ObjectOf(e))

(* The requests of a step, from the caches of the moment.                      *)
Requests(step, key, o) ==
    CASE step = "enforce" -> EnforceCRDToNegotiatedAPIResource(o)
      [] step = "publishing" -> UpdatePublishingStatus(o)
      [] step = "deleteNeg" -> DeleteNegotiatedAPIResource
      [] step = "ensure" -> EnsureAPIResourceCompatibility(<<key>>, FALSE)
      [] step = "ensureAll" -> EnsureAPIResourceCompatibility(AllImports, TRUE)
      [] step = "publish" -> PublishNegotiatedResource(o)
      [] step = "available" -> UpdateStatusOnRelatedAPIResourceImports(o)
      [] step = "cleanup" -> CleanupNegotiatedAPIResource(o)

-----------------------------------------------------------------------------
(* The workers *)

(* Picking an element up includes its first step.                              *)
Process(w, e) ==
    /\ e \in queue /\ work[w] = None /\ ~Missing(e)
    /\ \A v \in Workers : work[v] # None => work[v].element # e
    /\ queue' = queue \ {e}
    /\ LET steps == Steps(e)
       IN  work' = [work EXCEPT ![w] =
             IF steps = <<>> THEN None
             ELSE [element |-> e, object |-> ObjectOf(e), steps |-> Tail(steps),
                   todo |-> Requests(Head(steps), e.key, ObjectOf(e))]]
    /\ UNCHANGED <<objects, caches, uid, events>>

Continue(w) ==
    /\ work[w] # None /\ work[w].todo = <<>>
    /\ work' = [work EXCEPT ![w] =
          IF @.steps = <<>> THEN None
          ELSE [@ EXCEPT !.steps = Tail(@),
                         !.todo = Requests(Head(work[w].steps), work[w].element.key, work[w].object)]]
    /\ UNCHANGED <<objects, caches, queue, uid, events>>

(* Does the server take the request?  Does it change the object?               *)
Accepted(r) ==
    CASE r.on = "neg" -> neg = r.old
      [] r.on = "crd" -> crd = r.old
      [] r.on = "import" -> imp[r.key] = r.old /\ r.old # None
      [] r.on = "latestImport" -> imp[r.key] = impSeen[r.key] /\ imp[r.key] # None
      [] r.on = "createNeg" -> TRUE
      [] r.on = "deleteNeg" -> neg # None
      [] r.on = "deleteCRD" -> crd # None

(* One that exists already only gets the conditions, if there are any.         *)
CreatedNeg(new) ==
    IF neg = None THEN [new EXCEPT !.uid = uid + 1]
    ELSE IF new.published = "none" /\ new.enforced = "none" THEN neg
    ELSE [neg EXCEPT !.published = new.published, !.enforced = new.enforced, !.submitted = FALSE]

Request(w) ==
    /\ work[w] # None /\ work[w].todo # <<>>
    /\ LET r == Head(work[w].todo)
       IN  IF ~Accepted(r)
           THEN /\ work' = [work EXCEPT ![w] = None]
                /\ queue' = queue \cup {work[w].element}
                /\ UNCHANGED <<objects, uid>>
           ELSE /\ work' = [work EXCEPT ![w].todo = Tail(@)]
                /\ neg' = CASE r.on = "neg" -> r.new
                            [] r.on = "createNeg" -> CreatedNeg(r.new)
                            [] r.on = "deleteNeg" -> None
                            [] OTHER -> neg
                /\ uid' = IF r.on = "createNeg" /\ neg = None THEN uid + 1 ELSE uid
                /\ crd' = CASE r.on = "crd" -> r.new [] r.on = "deleteCRD" -> None [] OTHER -> crd
                /\ imp' = IF r.on \in {"import", "latestImport"} THEN [imp EXCEPT ![r.key] = r.new]
                          ELSE imp
                /\ UNCHANGED queue
    /\ UNCHANGED <<caches, events>>

-----------------------------------------------------------------------------
(* Handlers: enqueue compares the old and the new object *)

Specs(o) == IF "strategy" \in DOMAIN o THEN <<o.schema, o.strategy>>
            ELSE IF "publish" \in DOMAIN o THEN <<o.uid, o.schema, o.publish>>
            ELSE <<o.schema>>

Actions(old, new, status) ==
    CASE old = None /\ new # None -> {"created"}
      [] new = None -> {"deleted"}
      [] old # None /\ new # None -> IF Specs(old) # Specs(new) THEN {"spec"} ELSE status

SeeImport(i) ==
    /\ impSeen[i] # imp[i]
    /\ impSeen' = [impSeen EXCEPT ![i] = imp[i]]
    /\ \E a \in Actions(impSeen[i], imp[i], StatusIs) :
         queue' = queue \cup {Element("import", a, i, IF imp[i] = None THEN impSeen[i] ELSE None)}
    /\ UNCHANGED <<objects, negSeen, crdSeen, work, uid, events>>

(* The deletion of one is seen before the addition of another one.             *)
SeeNegotiated ==
    /\ negSeen # neg
    /\ negSeen' = IF negSeen # None /\ neg # None /\ neg.uid # negSeen.uid THEN None ELSE neg
    /\ \E a \in Actions(negSeen, negSeen', StatusIs) :
         queue' = queue \cup {Element("neg", a, None, IF negSeen' = None THEN negSeen ELSE None)}
    /\ UNCHANGED <<objects, impSeen, crdSeen, work, uid, events>>

(* A CRD is terminating when it goes.  A change of the owners only is queued   *)
(* too, and nothing is done for it.                                            *)
SeeCRD ==
    /\ crdSeen # crd
    /\ crdSeen' = crd
    /\ IF crdSeen # None /\ crd # None /\ [crdSeen EXCEPT !.owners = crd.owners] = crd
       THEN UNCHANGED queue
       ELSE \E a \in Actions(crdSeen, crd, {"status"}) :
              queue' = queue \cup {Element("crd", a, None,
                           IF crd = None THEN [crdSeen EXCEPT !.terminating = TRUE] ELSE None)}
    /\ UNCHANGED <<objects, impSeen, negSeen, work, uid, events>>

-----------------------------------------------------------------------------
(* Environment *)

Quiet ==
    /\ impSeen = imp /\ negSeen = neg /\ crdSeen = crd
    /\ \A w \in Workers : work[w] = None
    /\ \A e \in queue : Missing(e)
    /\ crd # None => crd.established

Event(e) ==
    /\ e \in Events /\ (Patient => Quiet)
    /\ events < MaxEvents /\ events' = events + 1

(* The imports that the importer finds by its indexes: the informer it is      *)
(* given holds those with a SyncTarget's name only, so there are none.         *)
ImportsOfLocation == {}

(* The imports of APIs that are not to be synced any more are removed, if they *)
(* are among SyncedGVRs; nobody puts any there.                                *)
SyncedGVRs == {}

WithoutRemoved(is, i) == [j \in Imports |-> IF j \in SyncedGVRs \ {i} THEN None ELSE is[j]]

(* ImportAPIs: an import that is not found is created, and is never updated.   *)
ImportAPIs(i) ==
    /\ Event("import") /\ imp[i] = None /\ i \notin ImportsOfLocation
    /\ \E new \in APIResourceImport :
         /\ new.strategy = "UpdateUnpublished" /\ new.compatible = "none" /\ new.available = "none"
         /\ imp' = WithoutRemoved([imp EXCEPT ![i] = new], i)
    /\ UNCHANGED <<neg, crd, caches, queue, work, uid>>

EditImport(i) ==
    /\ Event("edit") /\ imp[i] # None
    /\ \E s \in SUBSET Fields, st \in Strategies :
         imp' = [imp EXCEPT ![i].schema = s, ![i].strategy = st]
    /\ UNCHANGED <<neg, crd, caches, queue, work, uid>>

(* With its SyncTarget.                                                        *)
DeleteImport(i) ==
    /\ Event("delete") /\ imp[i] # None
    /\ imp' = [imp EXCEPT ![i] = None]
    /\ UNCHANGED <<neg, crd, caches, queue, work, uid>>

Publish ==
    /\ Event("publish") /\ neg # None /\ ~neg.publish
    /\ neg' = [neg EXCEPT !.publish = TRUE]
    /\ UNCHANGED <<imp, crd, caches, queue, work, uid>>

ApplyCRD ==
    /\ Event("apply") /\ crd = None
    /\ \E s \in SUBSET Fields :
         crd' = [schema |-> s, owners |-> {}, established |-> FALSE, terminating |-> FALSE]
    /\ UNCHANGED <<imp, neg, caches, queue, work, uid>>

DeleteCRD ==
    /\ Event("unapply") /\ crd # None
    /\ crd' = None
    /\ UNCHANGED <<imp, neg, caches, queue, work, uid>>

Establish ==
    /\ crd # None /\ ~crd.established
    /\ crd' = [crd EXCEPT !.established = TRUE]
    /\ UNCHANGED <<imp, neg, caches, queue, work, uid, events>>

-----------------------------------------------------------------------------
(* Specification *)

Init ==
    /\ imp = [i \in Imports |-> None] /\ impSeen = imp
    /\ neg = None /\ negSeen = None /\ crd = None /\ crdSeen = None
    /\ queue = {} /\ work = [w \in Workers |-> None] /\ uid = 0 /\ events = 0

Next ==
    \/ \E w \in Workers : (\E e \in queue : Process(w, e)) \/ Request(w) \/ Continue(w)
    \/ SeeNegotiated \/ SeeCRD \/ Establish
    \/ Publish \/ ApplyCRD \/ DeleteCRD
    \/ \E i \in Imports : SeeImport(i) \/ ImportAPIs(i) \/ EditImport(i) \/ DeleteImport(i)

Spec == Init /\ [][Next]_vars

-----------------------------------------------------------------------------
(* Properties *)

(* A negotiation settles: when there is nothing left to do, every import has   *)
(* been compared with a negotiated resource that exists, and no negotiated     *)
(* resource outlives its imports but one a user's CRD enforces.                *)
(* ensureAPIResourceCompatibility, negotiatedAPIResourceIsOrphan,              *)
(* cleanupNegotiatedAPIResource: an answer lost between two workers would      *)
(* leave an import without one for good.                                       *)
QuietMeansNegotiated ==
    Quiet => /\ \A i \in Imports : imp[i] # None => neg # None /\ imp[i].compatible # "none"
             /\ (neg # None /\ \A i \in Imports : imp[i] = None) => neg.enforced = "true"

(* What is served is what was negotiated: when there is nothing left to do, a  *)
(* user's CRD is enforced; a resource to publish has a CRD with its schema; a  *)
(* CRD that the controller made belongs to the negotiated resource there is;   *)
(* and nothing is called published that is not served.                         *)
(* enforceCRDToNegotiatedAPIResource, publishNegotiatedResource and            *)
(* updatePublishingStatusOnNegotiatedAPIResources run for different elements,  *)
(* on copies the others make stale.                                            *)
QuietMeansServed ==
    Quiet =>
      /\ (neg # None /\ crd # None /\ crd.owners = {}) =>
           neg.enforced = "true" /\ neg.schema = crd.schema
      /\ (neg # None /\ neg.publish) => crd # None /\ crd.schema = neg.schema
      /\ (neg # None /\ neg.published = "true") => crd # None
      /\ (crd # None /\ crd.owners # {}) => neg # None /\ neg.uid \in crd.owners

(* "Compatible means that this API Resource import is compatible with the      *)
(* current Negotiated API Resource" (apiresourceimport_types.go): an import    *)
(* that is called compatible has all the fields that were negotiated.  The     *)
(* code does not keep this: the README tells how.                              *)
CompatibleIsSupported ==
    Quiet => \A i \in Imports : imp[i] # None /\ imp[i].compatible = "true" =>
                 neg # None /\ neg.schema \subseteq imp[i].schema

=============================================================================
