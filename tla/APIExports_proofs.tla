-------------------------- MODULE APIExports_proofs --------------------------
(***************************************************************************)
(* The export never lists a schema that is gone, for any resources, fields *)
(* and number of events.                                                   *)
(*                                                                         *)
(* ExportIInv is inductive.  The argument is about versions: a name that a *)
(* pass deletes was made of an older version than the name that takes its  *)
(* place (Outdated), although caches may show an old list and an old       *)
(* negotiation, because nothing that is listed is newer than what the      *)
(* controller has seen of the negotiation.                                 *)
(*                                                                         *)
(* And what is served follows the export.  ServedIInv says, controller by  *)
(* controller, that what a pass would still change has its key in the      *)
(* queue, or an event on its way, or is among what no handler tells        *)
(* (untold): from the export to the status of the target (TargetSettled),  *)
(* and from both to the definitions (DefinitionsSettled).  What the        *)
(* handlers compare has to be enough for it: a target of the same uid that *)
(* differs in nothing they look at is the same, and an import of the same  *)
(* uid and generation is (ImportsGrow).                                    *)
(***************************************************************************)
EXTENDS APIExports, FiniteSetTheorems, TLAPS

-----------------------------------------------------------------------------
(* Names and lists *)

LEMMA NameTyped ==
    ASSUME NEW r \in Resources, NEW v \in Nat
    PROVE  Name(r, v) \in Names /\ ResourceOf(Name(r, v)) = r /\ Name(r, v)[2] = v
BY DEF Name, Names, ResourceOf

LEMMA PartsOfName ==
    ASSUME NEW n \in Names
    PROVE  ResourceOf(n) \in Resources /\ n[2] \in Nat
BY DEF Names, ResourceOf

LEMMA SameName ==
    ASSUME NEW m \in Names, NEW n \in Names, ResourceOf(m) = ResourceOf(n), m[2] = n[2]
    PROVE  m = n
BY DEF Names, ResourceOf

LEMMA RangeTyped ==
    ASSUME NEW S, NEW list \in Seq(S)
    PROVE  Range(list) \subseteq S
BY DEF Range

LEMMA RangeOfAppend ==
    ASSUME NEW S, NEW list \in Seq(S), NEW x \in S
    PROVE  Append(list, x) \in Seq(S) /\ Range(Append(list, x)) = Range(list) \cup {x}
<1> DEFINE t == Append(list, x)
<1>1. t \in Seq(S) /\ Len(t) = Len(list) + 1 /\ Len(list) \in Nat OBVIOUS
<1>2. \A i \in 1 .. Len(list) : t[i] = list[i] OBVIOUS
<1>3. t[Len(list) + 1] = x OBVIOUS
<1>4. DOMAIN t = 1 .. Len(t) /\ DOMAIN list = 1 .. Len(list) OBVIOUS
<1> HIDE DEF t
<1>5. Range(t) \subseteq Range(list) \cup {x}
  <2>1. SUFFICES ASSUME NEW i \in DOMAIN t PROVE t[i] \in Range(list) \cup {x}
    BY DEF Range
  <2>2. i \in 1 .. Len(list) \/ i = Len(list) + 1 BY <1>1, <1>4
  <2> QED BY <1>2, <1>3, <1>4, <2>2 DEF Range
<1>6. Range(list) \subseteq Range(t)
  <2>1. SUFFICES ASSUME NEW i \in DOMAIN list PROVE list[i] \in Range(t)
    BY DEF Range
  <2>2. i \in DOMAIN t BY <1>1, <1>4
  <2> QED BY <1>2, <1>4, <2>2 DEF Range
<1>7. x \in Range(t)
  <2>1. Len(list) + 1 \in DOMAIN t BY <1>1, <1>4
  <2> QED BY <1>3, <2>1 DEF Range
<1> QED BY <1>1, <1>5, <1>6, <1>7 DEF t

(* A list in any order is a sequence of the names that it is made of.       *)
LEMMA OrderTyped ==
    ASSUME NEW S, IsFiniteSet(S), NEW list \in Orders(S)
    PROVE  list \in Seq(S) /\ Range(list) = S
<1>1. Cardinality(S) \in Nat BY FS_CardinalityType
<1> QED BY <1>1 DEF Orders

LEMMA NewNamesFinite ==
    ASSUME NEW list \in Seq(Names)
    PROVE  IsFiniteSet({NewName(n) : n \in Range(list)})
<1> DEFINE T == {NewName(n) : n \in Range(list)}
           f == [i \in 1 .. Len(list) |-> NewName(list[i])]
<1>1. DOMAIN list = 1 .. Len(list) /\ Len(list) \in Nat OBVIOUS
<1>2. IsFiniteSet(1 .. Len(list)) BY <1>1, FS_Interval
<1>3. \A i \in 1 .. Len(list) : f[i] \in T BY <1>1 DEF Range
<1>4. \A t \in T : \E i \in 1 .. Len(list) : f[i] = t BY <1>1 DEF Range
<1>5. f \in [1 .. Len(list) -> T] BY <1>3
<1>6. f \in Surjection(1 .. Len(list), T) BY <1>4, <1>5 DEF Surjection
<1> HIDE DEF f, T
<1>7. IsFiniteSet(T) BY <1>2, <1>6, FS_Surjection
<1> QED BY <1>7 DEF T

-----------------------------------------------------------------------------
(* One pass of the controller *)

LEMMA ListedTyped ==
    ASSUME ExportTypeOK
    PROVE  Listed(export) \subseteq Names /\ Listed(exportSeen) \subseteq Names
<1>1. export.list \in Seq(Names) /\ exportSeen.list \in Seq(Names) BY DEF ExportTypeOK, Exports
<1> QED BY <1>1, RangeTyped DEF Listed

(* What the cache shows as listed was made of a version that the cache of   *)
(* the negotiation shows, or of an older one.                               *)
LEMMA SeenIsKnown ==
    ASSUME ExportIInv, NEW n \in Listed(exportSeen), n[2] # 0
    PROVE  Known(n)
<1>1. Listed(export) \subseteq Names /\ n \in Names BY ListedTyped DEF ExportIInv
<1>2. PICK m \in Listed(export) : ResourceOf(m) = ResourceOf(n) /\ m[2] >= n[2]
  BY DEF ExportIInv, ListIsRight, Follows
<1>3. m[2] \in Nat /\ n[2] \in Nat /\ ResourceOf(n) \in Resources BY <1>1, PartsOfName
<1>4. m[2] # 0 BY <1>2, <1>3
<1>5. Known(m) BY <1>4 DEF ExportIInv, ListIsRight
<1>6. \A v \in Nat : m[2] <= v => n[2] <= v BY <1>2, <1>3
<1>7. rv \in Nat /\ \A k \in Negotiated : k.rv \in Nat BY DEF ExportIInv, ExportTypeOK, Negotiated
<1> QED BY <1>2, <1>5, <1>6, <1>7 DEF Known

(* What a schema made now is named after and contains.                      *)
LEMMA MadeNow ==
    ASSUME ExportIInv, NEW r \in Resources, negSeen[r] \in Negotiated,
           NEW s, s = ToAPIResourceSchema(r)
    PROVE  /\ s \in Schemas /\ s.name = Name(r, negSeen[r].rv) /\ ResourceOf(s.name) = r
           /\ s.name[2] = negSeen[r].rv /\ s.name[2] # 0 /\ s.fields = negSeen[r].fields
           /\ Known(s.name) /\ HasContent(s)
<1>1. negSeen[r].rv \in Nat /\ negSeen[r].rv # 0 /\ negSeen[r].fields \in SUBSET Fields
  BY DEF Negotiated
<1>2. s = [name |-> Name(r, negSeen[r].rv), fields |-> negSeen[r].fields] BY DEF ToAPIResourceSchema
<1>3. s.name \in Names /\ ResourceOf(s.name) = r /\ s.name[2] = negSeen[r].rv BY <1>1, <1>2, NameTyped
<1>4. s \in Schemas BY <1>1, <1>2, <1>3 DEF Schemas
<1>5. /\ negSeen[r].rv <= rv
      /\ neg[r] \in Negotiated =>
           negSeen[r].rv <= neg[r].rv /\ (negSeen[r].rv = neg[r].rv => negSeen[r] = neg[r])
  BY DEF ExportIInv, NegotiationGrows
<1>6. Known(s.name) BY <1>1, <1>3, <1>5 DEF Known
<1>7. HasContent(s) BY <1>2, <1>3, <1>5 DEF HasContent
<1> QED BY <1>1, <1>2, <1>3, <1>4, <1>6, <1>7

(* A schema that a pass takes for outdated or missing is older than what    *)
(* was negotiated: were it of the same version it would still be listed,    *)
(* and so be there, with the right content.                                 *)
LEMMA Outdated ==
    ASSUME ExportIInv, NEW n \in OutdatedOrMissing
    PROVE  negSeen[ResourceOf(n)] \in Negotiated /\ n[2] < negSeen[ResourceOf(n)].rv
<1> DEFINE r == ResourceOf(n)
<1>1. n \in Listed(exportSeen) /\ ~UpToDate(n) /\ negSeen[r] # None BY DEF OutdatedOrMissing
<1>2. n \in Names /\ Listed(export) \subseteq Names BY <1>1, ListedTyped DEF ExportIInv
<1>3. r \in Resources /\ n[2] \in Nat BY <1>2, PartsOfName
<1>4. negSeen[r] \in Negotiated BY <1>1, <1>3 DEF ExportIInv, ExportTypeOK
<1>5. negSeen[r].rv \in Nat /\ negSeen[r].rv # 0 BY <1>4 DEF Negotiated
<1>6. SUFFICES ASSUME n[2] >= negSeen[r].rv PROVE FALSE BY <1>3, <1>4, <1>5
<1>7. n[2] # 0 BY <1>3, <1>5, <1>6
<1>8. PICK m \in Listed(export) : ResourceOf(m) = r /\ m[2] >= n[2]
  BY <1>1 DEF ExportIInv, ListIsRight, Follows
<1>9. m[2] \in Nat BY <1>2, PartsOfName
<1>10. m[2] # 0 BY <1>3, <1>7, <1>8, <1>9
<1>11. m[2] <= negSeen[r].rv BY <1>4, <1>8, <1>10 DEF ExportIInv, ListIsRight, Known
<1>12. m[2] = n[2] /\ n[2] = negSeen[r].rv BY <1>3, <1>5, <1>6, <1>8, <1>9, <1>11
<1>13. m = n BY <1>2, <1>8, <1>12, SameName
<1>14. PICK s \in schemas : s.name = n BY <1>10, <1>13 DEF ExportIInv, ListedExists
<1>15. s.fields = negSeen[r].fields BY <1>4, <1>12, <1>14 DEF ExportIInv, SchemasAreMade, HasContent
<1>16. UpToDate(n) BY <1>1, <1>14, <1>15 DEF UpToDate, GetAPIResourceSchema
<1> QED BY <1>1, <1>16

(* What takes the place of a name in the list.                              *)
LEMMA NewNames ==
    ASSUME ExportIInv, NEW n \in Listed(exportSeen)
    PROVE  /\ NewName(n) \in Names /\ ResourceOf(NewName(n)) = ResourceOf(n)
           /\ NewName(n)[2] >= n[2]
           /\ n \in OutdatedOrMissing => NewName(n)[2] > n[2]
           /\ NewName(n)[2] # 0 => Known(NewName(n))
           /\ NewName(n) = n \/ \E q \in OutdatedOrMissing : NewName(n) = ToAPIResourceSchema(ResourceOf(q)).name
<1> DEFINE r == ResourceOf(n)
<1>1. n \in Names BY ListedTyped DEF ExportIInv
<1>2. r \in Resources /\ n[2] \in Nat BY <1>1, PartsOfName
<1>3. CASE n \notin OutdatedOrMissing
  <2>1. NewName(n) = n BY <1>3 DEF NewName
  <2>2. n[2] # 0 => Known(n) BY SeenIsKnown
  <2> QED BY <1>1, <1>2, <1>3, <2>1, <2>2
<1>4. CASE n \in OutdatedOrMissing
  <2>1. negSeen[r] \in Negotiated /\ n[2] < negSeen[r].rv BY <1>4, Outdated
  <2>2. negSeen[r].rv \in Nat BY <2>1 DEF Negotiated
  <2>3. NewName(n) = Name(r, negSeen[r].rv) /\ NewName(n) = ToAPIResourceSchema(r).name
    BY <1>4 DEF NewName, ToAPIResourceSchema
  <2>4. NewName(n) \in Names /\ ResourceOf(NewName(n)) = r /\ NewName(n)[2] = negSeen[r].rv
    BY <1>2, <2>2, <2>3, NameTyped
  <2>5. Known(NewName(n)) BY <1>2, <2>1, <2>3, MadeNow
  <2> QED BY <1>2, <1>4, <2>1, <2>2, <2>3, <2>4, <2>5
<1> QED BY <1>3, <1>4

-----------------------------------------------------------------------------
(* The steps of the API export controller *)

(* What the invariant is about.                                             *)
exportVars == <<neg, negSeen, export, exportSeen, schemas, work, rv>>

LEMMA Elsewhere ==
    ASSUME ExportIInv, UNCHANGED exportVars
    PROVE  ExportIInv'
BY DEF ExportIInv, exportVars, ExportTypeOK, NegotiationGrows, SchemasAreMade, ListIsRight,
       UpdatesAreRight, DeletedIsReplaced, ListedExists, Known, HasContent, Listed

(* The controller has nothing to send.                                      *)
LEMMA Resting ==
    ASSUME ExportIInv, work' = NoWork, UNCHANGED <<neg, negSeen, export, exportSeen, schemas, rv>>
    PROVE  ExportIInv'
<1>1. work'.create = {} /\ work'.update = {} /\ work'.delete = {} BY DEF NoWork
<1>2. ExportTypeOK' BY DEF ExportIInv, ExportTypeOK, NoWork
<1>3. NegotiationGrows' BY DEF ExportIInv, NegotiationGrows
<1>4. SchemasAreMade' BY <1>1 DEF ExportIInv, SchemasAreMade, Known, HasContent
<1>5. ListIsRight' BY DEF ExportIInv, ListIsRight, Known, Listed
<1>6. UpdatesAreRight' /\ DeletedIsReplaced' BY <1>1 DEF UpdatesAreRight, DeletedIsReplaced
<1>7. ListedExists' BY DEF ExportIInv, ListedExists, Listed
<1> QED BY <1>2, <1>3, <1>4, <1>5, <1>6, <1>7 DEF ExportIInv

(* A pass plans to list only what is there or will be made, and to delete   *)
(* only what gives way to something newer.                                  *)
LEMMA Pass ==
    ASSUME ExportIInv, NEW list \in Orders({NewName(n) : n \in Listed(exportSeen)}),
           work' = RequestsFor(list), UNCHANGED <<neg, negSeen, export, exportSeen, schemas, rv>>
    PROVE  ExportIInv'
<1> DEFINE E == Listed(exportSeen)
           new == {NewName(n) : n \in E}
<1>1. exportSeen.list \in Seq(Names) /\ exportSeen \in Exports
  BY DEF ExportIInv, ExportTypeOK, Exports
<1>2. list \in Seq(new) /\ Range(list) = new BY <1>1, NewNamesFinite, OrderTyped DEF Listed
<1>3. E \subseteq Names /\ OutdatedOrMissing \subseteq E
  BY ListedTyped DEF ExportIInv, OutdatedOrMissing
<1>4. new \subseteq Names BY NewNames
<1>5. list \in Seq(Names) BY <1>2, <1>4
<1>6. /\ work'.create = {ToAPIResourceSchema(ResourceOf(n)) : n \in OutdatedOrMissing}
      /\ work'.update = IF list = exportSeen.list THEN {} ELSE {[old |-> exportSeen, list |-> list]}
      /\ work'.delete = OutdatedOrMissing
      /\ work' = [create |-> work'.create, update |-> work'.update, delete |-> work'.delete]
  BY DEF RequestsFor
<1>7. ASSUME NEW n \in OutdatedOrMissing
      PROVE  LET s == ToAPIResourceSchema(ResourceOf(n)) IN s \in Schemas /\ Known(s.name) /\ HasContent(s)
  <2>1. negSeen[ResourceOf(n)] \in Negotiated BY Outdated
  <2>2. ResourceOf(n) \in Resources BY <1>3, PartsOfName
  <2> QED BY <2>1, <2>2, MadeNow
<1>8. ExportTypeOK'
  <2>1. work'.create \subseteq Schemas BY <1>6, <1>7
  <2>2. work'.update \subseteq [old : Exports, list : Seq(Names)] BY <1>1, <1>5, <1>6
  <2>3. work'.delete \subseteq Names BY <1>3, <1>6
  <2>4. work' \in [create : SUBSET Schemas, update : SUBSET [old : Exports, list : Seq(Names)],
                   delete : SUBSET Names]
    BY <1>6, <2>1, <2>2, <2>3
  <2> QED BY <2>4 DEF ExportIInv, ExportTypeOK
<1>9. NegotiationGrows' BY DEF ExportIInv, NegotiationGrows
<1>10. SchemasAreMade'
  <2>1. ASSUME NEW s \in schemas \cup work'.create PROVE Known(s.name) /\ HasContent(s)
    BY <1>6, <1>7 DEF ExportIInv, SchemasAreMade
  <2> QED BY <2>1 DEF SchemasAreMade, Known, HasContent
<1>11. ListIsRight' BY DEF ExportIInv, ListIsRight, Known, Listed
<1>12. ListedExists' BY DEF ExportIInv, ListedExists, Listed
<1>13. OnePerResource(new)
  <2>1. SUFFICES ASSUME NEW m \in E, NEW n \in E, ResourceOf(NewName(m)) = ResourceOf(NewName(n))
                 PROVE  NewName(m) = NewName(n)
    BY DEF OnePerResource
  <2>2. ResourceOf(m) = ResourceOf(n) BY <2>1, NewNames
  <2> QED BY <2>2 DEF ExportIInv, ListIsRight, OnePerResource
<1>14. Follows(E, new) BY NewNames DEF Follows
<1>15. \A n \in OutdatedOrMissing : Replaced(n, new) BY <1>3, NewNames DEF Replaced
<1>16. UpdatesAreRight'
  <2>1. SUFFICES ASSUME NEW u \in work'.update
                 PROVE  /\ OnePerResource(Range(u.list)) /\ Follows(Listed(u.old), Range(u.list))
                        /\ \A m \in Range(u.list) : m[2] # 0 =>
                              /\ Known(m)
                              /\ m \in Listed(u.old) \/ \E s \in schemas \cup work'.create : s.name = m
                        /\ \A n \in work'.delete : Replaced(n, Range(u.list))
    BY DEF UpdatesAreRight, Known
  <2>2. u.list = list /\ u.old = exportSeen BY <1>6
  <2>3. ASSUME NEW m \in new, m[2] # 0
        PROVE  Known(m) /\ (m \in E \/ \E s \in work'.create : s.name = m)
    <3>1. PICK n \in E : m = NewName(n) OBVIOUS
    <3>2. Known(m) BY <2>3, <3>1, NewNames
    <3>3. m \in E \/ \E q \in OutdatedOrMissing : m = ToAPIResourceSchema(ResourceOf(q)).name
      BY <3>1, NewNames
    <3> QED BY <1>6, <3>2, <3>3
  <2>4. Range(u.list) = new /\ Listed(u.old) = E BY <1>2, <2>2
  <2>5. \A n \in work'.delete : Replaced(n, Range(u.list)) BY <1>6, <1>15, <2>4
  <2>6. \A m \in Range(u.list) : m[2] # 0 =>
           /\ Known(m)
           /\ m \in Listed(u.old) \/ \E s \in schemas \cup work'.create : s.name = m
    <3> HIDE DEF new, E
    <3> QED BY <2>3, <2>4
  <2>7. OnePerResource(Range(u.list)) /\ Follows(Listed(u.old), Range(u.list)) BY <1>13, <1>14, <2>4
  <2> QED BY <2>5, <2>6, <2>7
<1>17. DeletedIsReplaced'
  <2>1. SUFFICES ASSUME work'.update = {}, NEW n \in work'.delete PROVE Replaced(n, Listed(export))
    BY DEF DeletedIsReplaced, Listed
  <2>2. list = exportSeen.list BY <1>6, <2>1
  <2>3. new = E BY <1>2, <2>2 DEF Listed
  <2>4. PICK m \in E : ResourceOf(m) = ResourceOf(n) /\ m[2] > n[2]
    BY <1>6, <1>15, <2>1, <2>3 DEF Replaced
  <2>5. m = n BY <1>3, <1>6, <2>1, <2>4 DEF ExportIInv, ListIsRight, OnePerResource
  <2>6. n[2] \in Nat BY <1>3, <1>6, <2>1, PartsOfName
  <2> QED BY <2>4, <2>5, <2>6
<1> QED BY <1>8, <1>9, <1>10, <1>11, <1>12, <1>16, <1>17 DEF ExportIInv

LEMMA Process ==
    ASSUME ExportIInv, ExportProcess
    PROVE  ExportIInv'
<1>1. CASE UNCHANGED work
  BY <1>1, Elsewhere DEF ExportProcess, exportVars, objects, caches
<1>2. CASE \E list \in Orders({NewName(n) : n \in Listed(exportSeen)}) : work' = RequestsFor(list)
  BY <1>2, Pass DEF ExportProcess, objects, caches
<1> QED BY <1>1, <1>2 DEF ExportProcess

LEMMA Create ==
    ASSUME ExportIInv, NEW s \in work.create, CreateAPIResourceSchema(s)
    PROVE  ExportIInv'
<1>1. UNCHANGED <<neg, negSeen, export, exportSeen, rv>>
  BY DEF CreateAPIResourceSchema, caches
<1>2. work \in [create : SUBSET Schemas, update : SUBSET [old : Exports, list : Seq(Names)],
                delete : SUBSET Names] /\ s \in Schemas
  BY DEF ExportIInv, ExportTypeOK
<1>3. work' = [work EXCEPT !.create = @ \ {s}] BY DEF CreateAPIResourceSchema
<1>4. work'.create = work.create \ {s} /\ work'.update = work.update /\ work'.delete = work.delete
  BY <1>2, <1>3
<1>5. /\ schemas \subseteq schemas' /\ schemas' \subseteq schemas \cup {s}
      /\ \E t \in schemas' : t.name = s.name
  BY DEF CreateAPIResourceSchema
<1>6. ExportTypeOK'
  <2>1. schemas' \subseteq Schemas BY <1>2, <1>5 DEF ExportIInv, ExportTypeOK
  <2>2. work' \in [create : SUBSET Schemas, update : SUBSET [old : Exports, list : Seq(Names)],
                delete : SUBSET Names]
    BY <1>2, <1>3
  <2> QED BY <1>1, <2>1, <2>2 DEF ExportIInv, ExportTypeOK
<1>7. NegotiationGrows' BY <1>1 DEF ExportIInv, NegotiationGrows
<1>8. SchemasAreMade'
  <2>1. schemas' \cup work'.create \subseteq schemas \cup work.create BY <1>4, <1>5
  <2> QED BY <1>1, <2>1 DEF ExportIInv, SchemasAreMade, Known, HasContent
<1>9. ListIsRight' BY <1>1 DEF ExportIInv, ListIsRight, Known, Listed
<1>10. UpdatesAreRight'
  <2>1. ASSUME NEW m, \E t \in schemas \cup work.create : t.name = m
        PROVE  \E t \in schemas' \cup work'.create : t.name = m
    BY <1>4, <1>5, <2>1
  <2> QED BY <1>1, <1>4, <2>1 DEF ExportIInv, UpdatesAreRight, Known
<1>11. DeletedIsReplaced' BY <1>1, <1>4 DEF ExportIInv, DeletedIsReplaced, Listed
<1>12. ListedExists' BY <1>1, <1>5 DEF ExportIInv, ListedExists, Listed
<1> QED BY <1>6, <1>7, <1>8, <1>9, <1>10, <1>11, <1>12 DEF ExportIInv

(* The export that is updated is the one that was read.                     *)
LEMMA Update ==
    ASSUME ExportIInv, NEW u \in work.update, UpdateAPIExport(u)
    PROVE  ExportIInv' /\ Follows(Listed(export), Listed(export'))
<1>1. UNCHANGED <<neg, negSeen, exportSeen, schemas, rv>>
  BY DEF UpdateAPIExport, caches
<1>2. export \in Exports /\ exportSeen \in Exports /\ u \in [old : Exports, list : Seq(Names)]
      /\ work \in [create : SUBSET Schemas, update : SUBSET [old : Exports, list : Seq(Names)],
                    delete : SUBSET Names]
  BY DEF ExportIInv, ExportTypeOK
<1>3. \A n \in Names : n[2] >= n[2] BY PartsOfName
<1>4. CASE export # u.old
  <2>1. work' = NoWork /\ UNCHANGED export BY <1>4 DEF UpdateAPIExport
  <2>2. Follows(Listed(export), Listed(export'))
    BY <1>3, <2>1, ListedTyped DEF Follows, Listed, ExportIInv
  <2> QED BY <1>1, <2>1, <2>2, Resting
<1>5. CASE export = u.old
  <2>1. /\ export' = [export EXCEPT !.list = u.list] /\ work' = [work EXCEPT !.update = {}]
        /\ work.create = {}
    BY <1>5 DEF UpdateAPIExport
  <2>2. export' \in Exports /\ Listed(export') = Range(u.list)
    BY <1>2, <2>1 DEF Exports, Listed
  <2>3. work'.create = {} /\ work'.update = {} /\ work'.delete = work.delete BY <1>2, <2>1
  <2>4. /\ OnePerResource(Range(u.list)) /\ Follows(Listed(export), Range(u.list))
        /\ \A m \in Range(u.list) : m[2] # 0 =>
              Known(m) /\ (m \in Listed(export) \/ \E s \in schemas : s.name = m)
        /\ \A n \in work.delete : Replaced(n, Range(u.list))
    BY <1>5, <2>1 DEF ExportIInv, UpdatesAreRight
  <2>5. ExportTypeOK' BY <1>1, <1>2, <2>1, <2>2 DEF ExportIInv, ExportTypeOK
  <2>6. NegotiationGrows' BY <1>1 DEF ExportIInv, NegotiationGrows
  <2>7. SchemasAreMade' BY <1>1, <2>3 DEF ExportIInv, SchemasAreMade, Known, HasContent
  <2>8. ListIsRight'
    <3>1. Range(u.list) \subseteq Names BY <1>2, RangeTyped
    <3>2. Follows(Listed(exportSeen), Range(u.list))
      <4>1. SUFFICES ASSUME NEW n \in Listed(exportSeen)
                     PROVE  \E m \in Range(u.list) : ResourceOf(m) = ResourceOf(n) /\ m[2] >= n[2]
        BY DEF Follows
      <4>2. PICK k \in Listed(export) : ResourceOf(k) = ResourceOf(n) /\ k[2] >= n[2]
        BY DEF ExportIInv, ListIsRight, Follows
      <4>3. PICK m \in Range(u.list) : ResourceOf(m) = ResourceOf(k) /\ m[2] >= k[2]
        BY <2>4 DEF Follows
      <4>4. m[2] \in Nat /\ k[2] \in Nat /\ n[2] \in Nat
        BY <3>1, ListedTyped, PartsOfName DEF ExportIInv
      <4>5. m[2] >= n[2] BY <4>2, <4>3, <4>4
      <4> QED BY <4>2, <4>3, <4>5
    <3>3. OnePerResource(Listed(exportSeen)) BY DEF ExportIInv, ListIsRight
    <3> QED BY <1>1, <2>2, <2>4, <3>2, <3>3 DEF ListIsRight, Known, Listed
  <2>9. UpdatesAreRight' BY <2>3 DEF UpdatesAreRight
  <2>10. DeletedIsReplaced' BY <2>2, <2>3, <2>4 DEF DeletedIsReplaced
  <2>11. ListedExists' BY <1>1, <2>2, <2>4 DEF ExportIInv, ListedExists
  <2> QED BY <2>2, <2>4, <2>5, <2>6, <2>7, <2>8, <2>9, <2>10, <2>11 DEF ExportIInv
<1> QED BY <1>4, <1>5

(* What is deleted has been replaced in the list.                           *)
LEMMA Delete ==
    ASSUME ExportIInv, NEW d \in work.delete, DeleteAPIResourceSchema(d)
    PROVE  ExportIInv'
<1>1. UNCHANGED <<neg, negSeen, export, exportSeen, rv>>
  BY DEF DeleteAPIResourceSchema, caches
<1>2. work \in [create : SUBSET Schemas, update : SUBSET [old : Exports, list : Seq(Names)],
                delete : SUBSET Names] /\ d \in Names
  BY DEF ExportIInv, ExportTypeOK
<1>3. /\ work' = [work EXCEPT !.delete = @ \ {d}] /\ work.update = {}
      /\ schemas' = {s \in schemas : s.name # d}
  BY DEF DeleteAPIResourceSchema, MayDelete
<1>4. work'.create = work.create /\ work'.update = {} /\ work'.delete = work.delete \ {d}
  BY <1>2, <1>3
<1>5. d \notin Listed(export)
  <2>1. SUFFICES ASSUME d \in Listed(export) PROVE FALSE OBVIOUS
  <2>2. PICK m \in Listed(export) : ResourceOf(m) = ResourceOf(d) /\ m[2] > d[2]
    BY <1>3 DEF ExportIInv, DeletedIsReplaced, Replaced
  <2>3. m = d BY <2>1, <2>2 DEF ExportIInv, ListIsRight, OnePerResource
  <2>4. d[2] \in Nat BY <1>2, PartsOfName
  <2> QED BY <2>2, <2>3, <2>4
<1>6. ExportTypeOK'
  <2>1. work' \in [create : SUBSET Schemas, update : SUBSET [old : Exports, list : Seq(Names)],
                delete : SUBSET Names]
    BY <1>2, <1>3
  <2> QED BY <1>1, <1>3, <2>1 DEF ExportIInv, ExportTypeOK
<1>7. NegotiationGrows' BY <1>1 DEF ExportIInv, NegotiationGrows
<1>8. SchemasAreMade' BY <1>1, <1>3, <1>4 DEF ExportIInv, SchemasAreMade, Known, HasContent
<1>9. ListIsRight' BY <1>1 DEF ExportIInv, ListIsRight, Known, Listed
<1>10. UpdatesAreRight' BY <1>4 DEF UpdatesAreRight
<1>11. DeletedIsReplaced' BY <1>1, <1>3, <1>4 DEF ExportIInv, DeletedIsReplaced, Listed
<1>12. ListedExists'
  <2>1. SUFFICES ASSUME NEW n \in Listed(export), n[2] # 0 PROVE \E s \in schemas' : s.name = n
    BY <1>1 DEF ListedExists, Listed
  <2>2. PICK s \in schemas : s.name = n BY <2>1 DEF ExportIInv, ListedExists
  <2>3. s \in schemas' BY <1>3, <1>5, <2>1, <2>2
  <2> QED BY <2>2, <2>3
<1> QED BY <1>6, <1>7, <1>8, <1>9, <1>10, <1>11, <1>12 DEF ExportIInv

-----------------------------------------------------------------------------
(* What happens around it *)

(* What was known of the negotiation stays so: a version is newer than all  *)
(* before, and the cache shows a version that there is, or nothing.         *)
LEMMA NegotiationStays ==
    ASSUME ExportIInv, NEW r \in Resources, SeeNegotiated(r) \/ Negotiate(r) \/ CleanUpNegotiated(r)
    PROVE  /\ UNCHANGED <<export, exportSeen, schemas, work>> /\ ExportTypeOK' /\ NegotiationGrows'
           /\ \A n \in Names : Known(n) => Known(n)'
           /\ \A s \in Schemas : Known(s.name) /\ HasContent(s) => HasContent(s)'
<1>1. UNCHANGED <<export, exportSeen, schemas, work>>
  BY DEF SeeNegotiated, Negotiate, CleanUpNegotiated, objects, caches
<1>2. /\ neg \in [Resources -> Negotiated \cup {None}] /\ negSeen \in [Resources -> Negotiated \cup {None}]
      /\ rv \in Nat
  BY DEF ExportIInv, ExportTypeOK
<1>3. \A k \in Negotiated : k.uid \in Nat /\ k.rv \in Nat BY DEF Negotiated
<1>4. \A n \in Names : ResourceOf(n) \in Resources /\ n[2] \in Nat BY PartsOfName
<1>5. \A s \in Schemas : s.name \in Names BY DEF Schemas
<1>6. ASSUME NEW q \in Resources
      PROVE  /\ \A n \in {neg[q], negSeen[q]} : n \in Negotiated => n.rv <= rv
             /\ neg[q] \in Negotiated /\ negSeen[q] \in Negotiated =>
                   /\ negSeen[q].rv <= neg[q].rv
                   /\ negSeen[q].rv = neg[q].rv => negSeen[q] = neg[q]
  BY DEF ExportIInv, NegotiationGrows
<1>7. CASE Negotiate(r)
  <2>1. rv' = rv + 1 /\ UNCHANGED negSeen BY <1>7 DEF Negotiate, caches
  <2>2. PICK f \in SUBSET Fields :
           neg' = [neg EXCEPT ![r] = [uid |-> IF @ = None THEN rv' ELSE @.uid, rv |-> rv', fields |-> f]]
    BY <1>7 DEF Negotiate
  <2>3. neg' \in [Resources -> Negotiated \cup {None}] /\ neg'[r] \in Negotiated /\ neg'[r].rv = rv + 1
    <3> DEFINE u == IF neg[r] = None THEN rv' ELSE neg[r].uid
               new == [uid |-> u, rv |-> rv', fields |-> f]
    <3>1. u \in Nat BY <1>2, <1>3, <2>1
    <3>2. new \in Negotiated /\ new.rv = rv + 1 BY <1>2, <2>1, <3>1 DEF Negotiated
    <3>3. neg' = [neg EXCEPT ![r] = new] BY <2>2
    <3> HIDE DEF new
    <3> QED BY <1>2, <3>2, <3>3
  <2>4. \A q \in Resources \ {r} : neg'[q] = neg[q] BY <1>2, <2>2
  <2>5. ExportTypeOK' BY <1>1, <1>2, <2>1, <2>3 DEF ExportIInv, ExportTypeOK
  <2>6. NegotiationGrows'
    <3>1. SUFFICES ASSUME NEW q \in Resources
                   PROVE  /\ \A n \in {neg'[q], negSeen[q]} : n \in Negotiated => n.rv <= rv + 1
                          /\ neg'[q] \in Negotiated /\ negSeen[q] \in Negotiated =>
                                /\ negSeen[q].rv <= neg'[q].rv
                                /\ negSeen[q].rv = neg'[q].rv => negSeen[q] = neg'[q]
      BY <2>1 DEF NegotiationGrows
    <3>2. CASE q # r BY <1>2, <1>3, <1>6, <2>4, <3>2
    <3>3. CASE q = r BY <1>2, <1>3, <1>6, <2>3, <3>3
    <3> QED BY <3>2, <3>3
  <2>7. ASSUME NEW n \in Names, Known(n) PROVE Known(n)'
    <3> DEFINE q == ResourceOf(n)
    <3>1. /\ n[2] \in Nat /\ q \in Resources /\ n[2] <= rv
          /\ \A m \in {neg[q], negSeen[q]} : m \in Negotiated => n[2] <= m.rv
      BY <1>4, <2>7 DEF Known
    <3>2. n[2] <= rv + 1 BY <1>2, <3>1
    <3>3. CASE q # r BY <2>1, <2>4, <3>1, <3>2, <3>3 DEF Known
    <3>4. CASE q = r BY <2>1, <2>3, <3>1, <3>2, <3>4 DEF Known
    <3> QED BY <3>3, <3>4
  <2>8. ASSUME NEW s \in Schemas, Known(s.name), HasContent(s) PROVE HasContent(s)'
    <3> DEFINE q == ResourceOf(s.name)
    <3>1. /\ s.name[2] \in Nat /\ q \in Resources /\ s.name[2] <= rv
          /\ \A m \in {neg[q], negSeen[q]} : m \in Negotiated /\ s.name[2] = m.rv => s.fields = m.fields
      BY <1>4, <1>5, <2>8 DEF Known, HasContent
    <3>2. s.name[2] # rv + 1 BY <1>2, <3>1
    <3>3. CASE q # r BY <2>1, <2>4, <3>1, <3>3 DEF HasContent
    <3>4. CASE q = r BY <2>1, <2>3, <3>1, <3>2, <3>4 DEF HasContent
    <3> QED BY <3>3, <3>4
  <2> QED BY <1>1, <2>5, <2>6, <2>7, <2>8
<1>8. CASE SeeNegotiated(r) \/ CleanUpNegotiated(r)
  <2>1. UNCHANGED rv BY <1>8 DEF SeeNegotiated, CleanUpNegotiated
  <2>2. /\ neg' \in [Resources -> Negotiated \cup {None}] /\ negSeen' \in [Resources -> Negotiated \cup {None}]
        /\ \A q \in Resources : neg'[q] \in {neg[q], None}
        /\ \A q \in Resources : negSeen'[q] \in {neg'[q], negSeen[q], None}
    BY <1>2, <1>8 DEF SeeNegotiated, CleanUpNegotiated, Told, objects, caches
  <2>3. ExportTypeOK' BY <1>1, <2>1, <2>2 DEF ExportIInv, ExportTypeOK
  <2>4. NegotiationGrows'
    <3>1. SUFFICES ASSUME NEW q \in Resources
                   PROVE  /\ \A n \in {neg'[q], negSeen'[q]} : n \in Negotiated => n.rv <= rv
                          /\ neg'[q] \in Negotiated /\ negSeen'[q] \in Negotiated =>
                                /\ negSeen'[q].rv <= neg'[q].rv
                                /\ negSeen'[q].rv = neg'[q].rv => negSeen'[q] = neg'[q]
      BY <2>1 DEF NegotiationGrows
    <3>2. neg'[q] \in {neg[q], None} /\ negSeen'[q] \in {neg'[q], negSeen[q], None} BY <2>2
    <3> QED BY <1>3, <1>6, <3>2, NoneIsNothing
  <2>5. ASSUME NEW n \in Names, Known(n) PROVE Known(n)'
    <3>1. ResourceOf(n) \in Resources BY <1>4
    <3> QED BY <2>1, <2>2, <2>5, <3>1, NoneIsNothing DEF Known
  <2>6. ASSUME NEW s \in Schemas, HasContent(s) PROVE HasContent(s)'
    <3>1. ResourceOf(s.name) \in Resources BY <1>4, <1>5
    <3> QED BY <2>2, <2>6, <3>1, NoneIsNothing DEF HasContent
  <2> QED BY <1>1, <2>3, <2>4, <2>5, <2>6
<1> QED BY <1>7, <1>8

LEMMA NegotiationIsSafe ==
    ASSUME ExportIInv, NEW r \in Resources, SeeNegotiated(r) \/ Negotiate(r) \/ CleanUpNegotiated(r)
    PROVE  ExportIInv'
<1>1. /\ UNCHANGED <<export, exportSeen, schemas, work>> /\ ExportTypeOK' /\ NegotiationGrows'
      /\ \A n \in Names : Known(n) => Known(n)'
      /\ \A s \in Schemas : Known(s.name) /\ HasContent(s) => HasContent(s)'
  BY NegotiationStays
<1>2. SchemasAreMade'
  <2>1. \A s \in schemas \cup work.create : s \in Schemas /\ s.name \in Names
    BY DEF ExportIInv, ExportTypeOK, Schemas
  <2> QED BY <1>1, <2>1 DEF ExportIInv, SchemasAreMade
<1>3. Listed(export) \subseteq Names BY ListedTyped DEF ExportIInv
<1>4. ListIsRight' BY <1>1, <1>3 DEF ExportIInv, ListIsRight, Listed
<1>5. UpdatesAreRight'
  <2>1. \A u \in work.update : Range(u.list) \subseteq Names
    <3>1. \A u \in work.update : u.list \in Seq(Names) BY DEF ExportIInv, ExportTypeOK
    <3> QED BY <3>1, RangeTyped
  <2>2. \A u \in work.update : \A m \in Range(u.list) : Known(m) => Known(m)' BY <1>1, <2>1
  <2> QED BY <1>1, <2>2 DEF ExportIInv, UpdatesAreRight
<1>6. DeletedIsReplaced' BY <1>1 DEF ExportIInv, DeletedIsReplaced, Listed
<1>7. ListedExists' BY <1>1 DEF ExportIInv, ListedExists, Listed
<1> QED BY <1>1, <1>2, <1>4, <1>5, <1>6, <1>7 DEF ExportIInv

LEMMA ExportIsSeen ==
    ASSUME ExportIInv, SeeExport
    PROVE  ExportIInv'
<1>1. UNCHANGED <<neg, negSeen, export, schemas, work, rv>> /\ exportSeen' = export
  BY DEF SeeExport, objects
<1>2. ExportTypeOK' BY <1>1 DEF ExportIInv, ExportTypeOK
<1>3. NegotiationGrows' BY <1>1 DEF ExportIInv, NegotiationGrows
<1>4. SchemasAreMade' BY <1>1 DEF ExportIInv, SchemasAreMade, Known, HasContent
<1>5. ListIsRight'
  <2>1. \A n \in Listed(export) : n[2] \in Nat BY ListedTyped, PartsOfName DEF ExportIInv
  <2>2. Follows(Listed(export), Listed(export)) BY <2>1 DEF Follows
  <2> QED BY <1>1, <2>2 DEF ExportIInv, ListIsRight, Known, Listed
<1>6. UpdatesAreRight' BY <1>1 DEF ExportIInv, UpdatesAreRight, Known
<1>7. DeletedIsReplaced' BY <1>1 DEF ExportIInv, DeletedIsReplaced, Listed
<1>8. ListedExists' BY <1>1 DEF ExportIInv, ListedExists, Listed
<1> QED BY <1>2, <1>3, <1>4, <1>5, <1>6, <1>7, <1>8 DEF ExportIInv

(* A user may only add to the list, or somebody else touch another field.   *)
LEMMA ExportIsEdited ==
    ASSUME ExportIInv, UNCHANGED <<neg, negSeen, exportSeen, schemas, work, rv>>, export' \in Exports,
           \/ Listed(export') = Listed(export)
           \/ \E r \in Resources : NamesOf(export, r) = {} /\ Listed(export') = Listed(export) \cup {Name(r, 0)}
    PROVE  ExportIInv' /\ Follows(Listed(export), Listed(export'))
<1>1. Listed(export) \subseteq Names /\ Listed(exportSeen) \subseteq Names BY ListedTyped DEF ExportIInv
<1>2. Listed(export) \subseteq Listed(export')
  OBVIOUS
<1>3. \A n \in Listed(export') \ Listed(export) :
        /\ n[2] = 0 /\ \A m \in Listed(export) : ResourceOf(m) # ResourceOf(n)
        /\ \A m \in Listed(export') \ Listed(export) : m = n
  <2>1. SUFFICES ASSUME NEW r \in Resources, NamesOf(export, r) = {},
                        Listed(export') = Listed(export) \cup {Name(r, 0)}
                 PROVE  /\ Name(r, 0)[2] = 0
                        /\ \A m \in Listed(export) : ResourceOf(m) # ResourceOf(Name(r, 0))
    OBVIOUS
  <2>2. ResourceOf(Name(r, 0)) = r /\ Name(r, 0)[2] = 0 BY NameTyped
  <2> QED BY <2>1, <2>2 DEF NamesOf
<1>4. Follows(Listed(export), Listed(export'))
  <2>1. \A n \in Listed(export) : n[2] >= n[2] BY <1>1, PartsOfName
  <2> QED BY <1>2, <2>1 DEF Follows
<1>5. ExportTypeOK' BY DEF ExportIInv, ExportTypeOK
<1>6. NegotiationGrows' BY DEF ExportIInv, NegotiationGrows
<1>7. SchemasAreMade' BY DEF ExportIInv, SchemasAreMade, Known, HasContent
<1>8. ListIsRight'
  <2>1. OnePerResource(Listed(export')) BY <1>3 DEF ExportIInv, ListIsRight, OnePerResource
  <2>2. Follows(Listed(exportSeen), Listed(export')) BY <1>2 DEF ExportIInv, ListIsRight, Follows
  <2>3. \A n \in Listed(export') : n[2] # 0 => Known(n) BY <1>3 DEF ExportIInv, ListIsRight
  <2>4. OnePerResource(Listed(exportSeen)) BY DEF ExportIInv, ListIsRight
  <2> QED BY <2>1, <2>2, <2>3, <2>4 DEF ListIsRight, Known, Listed
<1>9. UpdatesAreRight' BY DEF ExportIInv, UpdatesAreRight, Known
<1>10. DeletedIsReplaced' BY <1>2 DEF ExportIInv, DeletedIsReplaced, Replaced
<1>11. ListedExists' BY <1>3 DEF ExportIInv, ListedExists
<1> QED BY <1>4, <1>5, <1>6, <1>7, <1>8, <1>9, <1>10, <1>11 DEF ExportIInv

LEMMA Listing ==
    ASSUME ExportIInv, NEW r \in Resources, ListResource(r)
    PROVE  ExportIInv' /\ Follows(Listed(export), Listed(export'))
<1>1. /\ UNCHANGED <<neg, negSeen, exportSeen, schemas, work, rv>> /\ NamesOf(export, r) = {}
      /\ export' = [export EXCEPT !.list = Append(export.list, Name(r, 0))]
  BY DEF ListResource, caches
<1>2. export \in Exports /\ export.list \in Seq(Names) BY DEF ExportIInv, ExportTypeOK, Exports
<1>3. Name(r, 0) \in Names BY NameTyped
<1> DEFINE list == Append(export.list, Name(r, 0))
<1>4. list \in Seq(Names) /\ Range(list) = Range(export.list) \cup {Name(r, 0)}
  BY <1>2, <1>3, RangeOfAppend
<1> HIDE DEF list
<1>5. export' = [export EXCEPT !.list = list] BY <1>1 DEF list
<1>6. export' \in Exports /\ export'.list = list BY <1>2, <1>4, <1>5 DEF Exports
<1>7. Listed(export') = Listed(export) \cup {Name(r, 0)} BY <1>4, <1>6 DEF Listed
<1> QED BY <1>1, <1>6, <1>7, ExportIsEdited

LEMMA IdentityIsSet ==
    ASSUME ExportIInv, SetIdentity
    PROVE  ExportIInv' /\ Follows(Listed(export), Listed(export'))
<1>1. /\ UNCHANGED <<neg, negSeen, exportSeen, schemas, work, rv>>
      /\ export' = [export EXCEPT !.identity = 1]
  BY DEF SetIdentity, caches
<1>2. export \in Exports BY DEF ExportIInv, ExportTypeOK
<1>3. export' \in Exports /\ export'.list = export.list BY <1>1, <1>2 DEF Exports
<1>4. Listed(export') = Listed(export) BY <1>3 DEF Listed
<1> QED BY <1>1, <1>3, <1>4, ExportIsEdited

-----------------------------------------------------------------------------
(* The theorems *)

LEMMA ExportStarts == ASSUME Init PROVE ExportIInv
<1>1. /\ neg = [r \in Resources |-> None] /\ negSeen = neg
      /\ export = [list |-> <<>>, identity |-> 0] /\ exportSeen = export
      /\ schemas = {} /\ work = NoWork /\ rv = 0
  BY DEF Init
<1>2. work.create = {} /\ work.update = {} /\ work.delete = {} BY <1>1 DEF NoWork
<1>3. Listed(export) = {} BY <1>1 DEF Listed, Range
<1>4. <<>> \in Seq(Names) OBVIOUS
<1>5. ExportTypeOK BY <1>1, <1>4 DEF ExportTypeOK, Exports, NoWork
<1>6. NegotiationGrows BY <1>1, NoneIsNothing DEF NegotiationGrows
<1>7. SchemasAreMade /\ UpdatesAreRight /\ DeletedIsReplaced
  BY <1>1, <1>2 DEF SchemasAreMade, UpdatesAreRight, DeletedIsReplaced
<1>8. ListIsRight /\ ListedExists BY <1>1, <1>3 DEF ListIsRight, ListedExists, OnePerResource, Follows
<1> QED BY <1>5, <1>6, <1>7, <1>8 DEF ExportIInv

LEMMA ExportStays ==
    ASSUME ExportIInv, [Next]_vars
    PROVE  ExportIInv' /\ Follows(Listed(export), Listed(export'))
<1>1. ASSUME UNCHANGED export PROVE Follows(Listed(export), Listed(export'))
  <2>1. \A n \in Listed(export) : n[2] >= n[2] BY ListedTyped, PartsOfName DEF ExportIInv
  <2> QED BY <1>1, <2>1 DEF Follows, Listed
<1>2. CASE UNCHANGED exportVars BY <1>1, <1>2, Elsewhere DEF exportVars
<1>3. CASE ExportProcess BY <1>1, <1>3, Process DEF ExportProcess, objects
<1>4. CASE ExportRequestFails BY <1>1, <1>4, Resting DEF ExportRequestFails, objects, caches
<1>5. CASE \E s \in work.create : CreateAPIResourceSchema(s)
  BY <1>1, <1>5, Create DEF CreateAPIResourceSchema
<1>6. CASE \E u \in work.update : UpdateAPIExport(u) BY <1>6, Update
<1>7. CASE \E n \in work.delete : DeleteAPIResourceSchema(n)
  BY <1>1, <1>7, Delete DEF DeleteAPIResourceSchema
<1>8. CASE SeeExport BY <1>1, <1>8, ExportIsSeen DEF SeeExport, objects
<1>9. CASE \E r \in Resources : SeeNegotiated(r) \/ Negotiate(r) \/ CleanUpNegotiated(r)
  BY <1>1, <1>9, NegotiationIsSafe DEF SeeNegotiated, Negotiate, CleanUpNegotiated, objects
<1>10. CASE \E r \in Resources : ListResource(r) BY <1>10, Listing
<1>11. CASE SetIdentity BY <1>11, IdentityIsSet
<1>12. CASE \/ TargetProcess \/ DefinitionsProcess \/ DefinitionsSwap \/ SeeTarget
            \/ \E s \in schemas \cup schemasSeen : SeeSchema(s)
            \/ \E r \in Resources : SeeImport(r) \/ ImportAPI(r) \/ DeleteImport(r)
            \/ CreateTarget \/ SetExports \/ DeleteTarget
  <2>1. UNCHANGED exportVars
    BY <1>12 DEF TargetProcess, DefinitionsProcess, DefinitionsSwap, SeeTarget, SeeSchema, SeeImport,
                 ImportAPI, DeleteImport, CreateTarget, SetExports, DeleteTarget, exportVars, objects, caches
  <2> QED BY <1>2, <2>1
<1>13. CASE UNCHANGED vars BY <1>2, <1>13 DEF vars, exportVars
<1> QED
  BY <1>3, <1>4, <1>5, <1>6, <1>7, <1>8, <1>9, <1>10, <1>11, <1>12, <1>13 DEF Next

(* The controller's plans stay right while caches, users and the            *)
(* negotiation move on.                                                     *)
THEOREM ExportInvariant == Spec => []ExportIInv
<1>1. Init => ExportIInv BY ExportStarts
<1>2. ExportIInv /\ [Next]_vars => ExportIInv' BY ExportStays
<1> QED BY <1>1, <1>2, PTL DEF Spec

(* The export never lists a schema that is gone: schemaReconciler deletes a *)
(* schema only when one made of a newer version is listed in its place.     *)
THEOREM ListedIsThere == Spec => []ListedExists
<1>1. ExportIInv => ListedExists BY DEF ExportIInv
<1> QED BY <1>1, ExportInvariant, PTL

(* A resource that the export lists stays listed and never goes back to an  *)
(* older schema, although every list is made from caches that may be old.   *)
THEOREM ListFollows == Spec => [][Follows(Listed(export), Listed(export'))]_vars
<1>1. ExportIInv /\ [Next]_vars => [Follows(Listed(export), Listed(export'))]_vars BY ExportStays
<1> QED BY <1>1, ExportInvariant, PTL DEF Spec

-----------------------------------------------------------------------------
(* What the syncer is served.  ServedIInv is inductive together with        *)
(* ExportIInv; its parts depend on few steps each, and are proved one by    *)
(* one over all of them.                                                    *)

(* Schemas *)

LEMMA ImmutableShrinks ==
    ASSUME SchemasAreImmutable, SchemasAreMade, UNCHANGED <<neg, negSeen, rv>>,
           schemasSeen' \subseteq schemas \cup schemasSeen,
           schemas' \cup work'.create \subseteq schemas \cup work.create
    PROVE  SchemasAreImmutable'
BY DEF SchemasAreImmutable, SchemasAreMade, Known, HasContent

LEMMA PassIsImmutable ==
    ASSUME ExportIInv, ServedTypeOK, SchemasAreImmutable, NEW list,
           work' = RequestsFor(list), UNCHANGED <<neg, negSeen, rv, schemas, schemasSeen>>
    PROVE  SchemasAreImmutable'
<1> DEFINE old == schemas \cup schemasSeen
<1>1. work'.create = {ToAPIResourceSchema(ResourceOf(n)) : n \in OutdatedOrMissing}
  BY DEF RequestsFor
<1>2. ASSUME NEW s \in work'.create
      PROVE  /\ s \in Schemas /\ s.name[2] # 0 /\ negSeen[ResourceOf(s.name)] \in Negotiated
             /\ s.name[2] = negSeen[ResourceOf(s.name)].rv
             /\ s.fields = negSeen[ResourceOf(s.name)].fields
  <2>1. PICK n \in OutdatedOrMissing : s = ToAPIResourceSchema(ResourceOf(n)) BY <1>1
  <2>2. negSeen[ResourceOf(n)] \in Negotiated BY Outdated
  <2>3. ResourceOf(n) \in Resources BY ListedTyped, PartsOfName DEF OutdatedOrMissing, ExportIInv
  <2> QED BY <2>1, <2>2, <2>3, MadeNow
<1>3. ASSUME NEW s \in old
      PROVE  /\ s \in Schemas /\ s.name[2] # 0 /\ Known(s.name)
             /\ negSeen[ResourceOf(s.name)] \in Negotiated /\ s.name[2] = negSeen[ResourceOf(s.name)].rv =>
                  s.fields = negSeen[ResourceOf(s.name)].fields
  BY DEF SchemasAreImmutable, ExportIInv, ExportTypeOK, SchemasAreMade, ServedTypeOK, HasContent
<1>4. ASSUME NEW s \in Schemas, NEW t \in Schemas, s.name = t.name, s.fields = t.fields
      PROVE  s = t
  BY <1>4 DEF Schemas
<1>5. ASSUME NEW s \in old \cup work'.create, NEW t \in old \cup work'.create, s.name = t.name
      PROVE  s = t
  <2>1. CASE s \in old /\ t \in old BY <1>5, <2>1 DEF SchemasAreImmutable
  <2>2. CASE s \in old /\ t \in work'.create BY <1>2, <1>3, <1>4, <1>5, <2>2
  <2>3. CASE s \in work'.create /\ t \in old BY <1>2, <1>3, <1>4, <1>5, <2>3
  <2>4. CASE s \in work'.create /\ t \in work'.create BY <1>2, <1>4, <1>5, <2>4
  <2> QED BY <1>5, <2>1, <2>2, <2>3, <2>4
<1> QED BY <1>2, <1>3, <1>5 DEF SchemasAreImmutable, Known, HasContent

LEMMA NegotiationIsImmutable ==
    ASSUME ExportIInv, ServedTypeOK, SchemasAreImmutable, UNCHANGED schemasSeen, NEW r \in Resources,
           SeeNegotiated(r) \/ Negotiate(r) \/ CleanUpNegotiated(r)
    PROVE  SchemasAreImmutable'
<1>1. \A s \in schemasSeen : s \in Schemas /\ s.name \in Names BY DEF ServedTypeOK, Schemas
<1> QED BY <1>1, NegotiationStays DEF SchemasAreImmutable

LEMMA ImmutableStays ==
    ASSUME ExportIInv, ServedTypeOK, SchemasAreImmutable, [Next]_vars
    PROVE  SchemasAreImmutable' /\ schemasSeen' \subseteq Schemas
<1>t. schemas \subseteq Schemas /\ schemasSeen \subseteq Schemas BY DEF ExportIInv, ExportTypeOK, ServedTypeOK
<1>m. SchemasAreMade BY DEF ExportIInv
<1>w. work \in [create : SUBSET Schemas, update : SUBSET [old : Exports, list : Seq(Names)],
                delete : SUBSET Names]
  BY DEF ExportIInv, ExportTypeOK
<1>1. CASE UNCHANGED <<neg, negSeen, rv, schemas, schemasSeen, work>> BY <1>1, <1>t, <1>m, ImmutableShrinks
<1>2. CASE ExportProcess
  <2>1. UNCHANGED <<neg, negSeen, rv, schemas, schemasSeen>> BY <1>2 DEF ExportProcess, objects, caches
  <2>2. CASE UNCHANGED work BY <1>1, <2>1, <2>2
  <2>3. CASE \E list : work' = RequestsFor(list) BY <1>t, <2>1, <2>3, PassIsImmutable
  <2> QED BY <1>2, <2>2, <2>3 DEF ExportProcess
<1>3. CASE ExportRequestFails
  <2>1. UNCHANGED <<neg, negSeen, rv, schemas, schemasSeen>> /\ work'.create = {}
    BY <1>3 DEF ExportRequestFails, objects, caches, NoWork
  <2> QED BY <1>t, <1>m, <2>1, ImmutableShrinks
<1>4. ASSUME NEW s \in work.create, CreateAPIResourceSchema(s)
      PROVE  SchemasAreImmutable' /\ schemasSeen' \subseteq Schemas
  <2>1. UNCHANGED <<neg, negSeen, rv, schemasSeen>> BY <1>4 DEF CreateAPIResourceSchema, caches
  <2>2. schemas' \subseteq schemas \cup {s} BY <1>4 DEF CreateAPIResourceSchema
  <2>3. work'.create \subseteq work.create BY <1>4, <1>w DEF CreateAPIResourceSchema
  <2> QED BY <1>t, <1>m, <2>1, <2>2, <2>3, ImmutableShrinks
<1>5. ASSUME NEW u \in work.update, UpdateAPIExport(u)
      PROVE  SchemasAreImmutable' /\ schemasSeen' \subseteq Schemas
  <2>1. UNCHANGED <<neg, negSeen, rv, schemas, schemasSeen>> BY <1>5 DEF UpdateAPIExport, caches
  <2>2. work'.create \subseteq work.create BY <1>5, <1>w DEF UpdateAPIExport, NoWork
  <2> QED BY <1>t, <1>m, <2>1, <2>2, ImmutableShrinks
<1>6. ASSUME NEW n \in work.delete, DeleteAPIResourceSchema(n)
      PROVE  SchemasAreImmutable' /\ schemasSeen' \subseteq Schemas
  <2>1. UNCHANGED <<neg, negSeen, rv, schemasSeen>> BY <1>6 DEF DeleteAPIResourceSchema, caches
  <2>2. schemas' \subseteq schemas BY <1>6 DEF DeleteAPIResourceSchema
  <2>3. work'.create \subseteq work.create BY <1>6, <1>w DEF DeleteAPIResourceSchema
  <2> QED BY <1>t, <1>m, <2>1, <2>2, <2>3, ImmutableShrinks
<1>7. ASSUME NEW s \in schemas \cup schemasSeen, SeeSchema(s)
      PROVE  SchemasAreImmutable' /\ schemasSeen' \subseteq Schemas
  <2>1. UNCHANGED <<neg, negSeen, rv, schemas, work>> BY <1>7 DEF SeeSchema, objects
  <2>2. schemasSeen' \subseteq schemas \cup schemasSeen BY <1>7 DEF SeeSchema
  <2> QED BY <1>t, <1>m, <2>1, <2>2, ImmutableShrinks
<1>8. ASSUME NEW r \in Resources, SeeNegotiated(r) \/ Negotiate(r) \/ CleanUpNegotiated(r)
      PROVE  SchemasAreImmutable' /\ schemasSeen' \subseteq Schemas
  <2>1. UNCHANGED schemasSeen BY <1>8 DEF SeeNegotiated, Negotiate, CleanUpNegotiated, caches
  <2> QED BY <1>8, <1>t, <2>1, NegotiationIsImmutable
<1>9. CASE \/ TargetProcess \/ DefinitionsProcess \/ DefinitionsSwap \/ SeeTarget \/ SeeExport
           \/ \E r \in Resources : SeeImport(r) \/ ImportAPI(r) \/ DeleteImport(r) \/ ListResource(r)
           \/ SetIdentity \/ CreateTarget \/ SetExports \/ DeleteTarget
  <2>1. UNCHANGED <<neg, negSeen, rv, schemas, schemasSeen, work>>
    BY <1>9 DEF TargetProcess, DefinitionsProcess, DefinitionsSwap, SeeTarget, SeeExport, SeeImport,
                ImportAPI, DeleteImport, ListResource, SetIdentity, CreateTarget, SetExports, DeleteTarget,
                objects, caches
  <2> QED BY <1>1, <2>1
<1>10. CASE UNCHANGED vars BY <1>1, <1>10 DEF vars
<1> QED BY <1>2, <1>3, <1>4, <1>5, <1>6, <1>7, <1>8, <1>9, <1>10 DEF Next

(* The API export controller *)

LEMMA ExportFrame ==
    ASSUME ExportSettled, "export" \in queue => "export" \in queue',
           UNCHANGED <<work, exportSeen, negSeen, schemas>>, export'.list = export.list
    PROVE  ExportSettled'
<1>1. Listed(export)' = Listed(export) BY DEF Listed
<1> QED BY <1>1 DEF ExportSettled

(* A pass that sends no update found everything right.                      *)
LEMMA PassSettles ==
    ASSUME ExportIInv, ServedTypeOK, SchemasAreImmutable,
           NEW list \in Orders({NewName(n) : n \in Listed(exportSeen)}),
           work' = RequestsFor(list), UNCHANGED <<export, exportSeen, negSeen, schemas>>
    PROVE  ExportSettled'
<1> DEFINE E == Listed(exportSeen)
<1>1. exportSeen.list \in Seq(Names) BY DEF ExportIInv, ExportTypeOK, Exports
<1>2. Range(list) = {NewName(n) : n \in E} BY <1>1, NewNamesFinite, OrderTyped DEF Listed
<1>3. /\ work'.create = {ToAPIResourceSchema(ResourceOf(n)) : n \in OutdatedOrMissing}
      /\ work'.update = IF list = exportSeen.list THEN {} ELSE {[old |-> exportSeen, list |-> list]}
      /\ work'.delete = OutdatedOrMissing
      /\ work' = [create |-> work'.create, update |-> work'.update, delete |-> work'.delete]
  BY DEF RequestsFor
<1>4. E \subseteq Names /\ OutdatedOrMissing \subseteq E
  BY ListedTyped DEF ExportIInv, OutdatedOrMissing
<1>5. \A u \in work'.update : u.old = exportSeen /\ u.list # exportSeen.list BY <1>3
<1>6. ASSUME work'.update = {}, export.list = exportSeen.list
      PROVE  /\ work' = NoWork
             /\ \A n \in Listed(export) : negSeen[ResourceOf(n)] # None =>
                  \E s \in schemas : s.name = n /\ s.fields = negSeen[ResourceOf(n)].fields
  <2>1. list = exportSeen.list BY <1>3, <1>6
  <2>2. {NewName(n) : n \in E} = E BY <1>2, <2>1 DEF Listed
  <2>3. OutdatedOrMissing = {}
    <3>1. SUFFICES ASSUME NEW n \in OutdatedOrMissing PROVE FALSE OBVIOUS
    <3>2. NewName(n) \in E /\ n \in E BY <1>4, <2>2
    <3>3. ResourceOf(NewName(n)) = ResourceOf(n) /\ NewName(n)[2] > n[2] BY <3>2, NewNames
    <3>4. NewName(n) = n BY <3>2, <3>3 DEF ExportIInv, ListIsRight, OnePerResource
    <3>5. n[2] \in Nat BY <1>4, <3>2, PartsOfName
    <3> QED BY <3>3, <3>4, <3>5
  <2>4. work' = NoWork BY <1>3, <1>6, <2>3 DEF NoWork
  <2>5. ASSUME NEW n \in Listed(export), negSeen[ResourceOf(n)] # None
        PROVE  \E s \in schemas : s.name = n /\ s.fields = negSeen[ResourceOf(n)].fields
    <3>1. n \in E BY <1>6 DEF Listed
    <3>2. UpToDate(n) BY <2>3, <2>5, <3>1 DEF OutdatedOrMissing
    <3>3. PICK s \in schemas \cup schemasSeen : s.name = n /\ s.fields = negSeen[ResourceOf(n)].fields
      BY <3>2 DEF UpToDate, GetAPIResourceSchema
    <3>4. n[2] # 0 BY <3>3 DEF SchemasAreImmutable
    <3>5. PICK t \in schemas : t.name = n BY <3>4 DEF ExportIInv, ListedExists
    <3>6. s = t BY <3>3, <3>5 DEF SchemasAreImmutable
    <3> QED BY <3>3, <3>5, <3>6
  <2> QED BY <2>4, <2>5
<1> QED BY <1>5, <1>6 DEF ExportSettled, Listed

LEMMA ExportSettledStays ==
    ASSUME ExportIInv, ServedIInv, [Next]_vars
    PROVE  ExportSettled'
<1>s. ExportSettled BY DEF ServedIInv
<1>w. work \in [create : SUBSET Schemas, update : SUBSET [old : Exports, list : Seq(Names)],
                delete : SUBSET Names]
      /\ export \in Exports
  BY DEF ExportIInv, ExportTypeOK
<1>1. CASE ExportProcess
  <2>1. UNCHANGED <<negSeen, schemas, export, exportSeen>> /\ work = NoWork
    BY <1>1 DEF ExportProcess, objects, caches
  <2>2. CASE (\A r \in Resources : negSeen[r] = None) /\ UNCHANGED work
    <3>1. work'.update = {} BY <2>1, <2>2 DEF NoWork
    <3>2. \A n \in Listed(export) : negSeen[ResourceOf(n)] = None
      BY <2>2, ListedTyped, PartsOfName DEF ExportIInv
    <3> QED BY <2>1, <2>2, <3>1, <3>2 DEF ExportSettled, Listed
  <2>3. CASE \E list \in Orders({NewName(n) : n \in Listed(exportSeen)}) : work' = RequestsFor(list)
    BY <2>1, <2>3, PassSettles DEF ServedIInv
  <2> QED BY <1>1, <2>2, <2>3 DEF ExportProcess
<1>2. CASE ExportRequestFails BY <1>2 DEF ExportRequestFails, ExportSettled
<1>3. ASSUME NEW s \in work.create, CreateAPIResourceSchema(s) PROVE ExportSettled'
  <2>1. UNCHANGED <<export, exportSeen, negSeen, queue>> /\ work'.update = work.update
    BY <1>3, <1>w DEF CreateAPIResourceSchema, caches
  <2>2. work # NoWork BY <1>3 DEF NoWork
  <2> QED BY <1>s, <2>1, <2>2 DEF ExportSettled
<1>4. ASSUME NEW u \in work.update, UpdateAPIExport(u) PROVE ExportSettled'
  <2>1. UNCHANGED <<exportSeen, negSeen, schemas>> BY <1>4 DEF UpdateAPIExport, caches
  <2>2. CASE "export" \in queue' BY <2>2 DEF ExportSettled
  <2>3. CASE "export" \notin queue'
    <3>1. UNCHANGED queue /\ export' = [export EXCEPT !.list = u.list] /\ work' = [work EXCEPT !.update = {}]
      BY <1>4, <2>3 DEF UpdateAPIExport
    <3>2. u.list # exportSeen.list BY <1>s, <1>4, <2>3, <3>1 DEF ExportSettled
    <3>3. export'.list = u.list /\ work'.update = {} BY <1>w, <3>1 DEF Exports
    <3> QED BY <2>1, <3>2, <3>3 DEF ExportSettled
  <2> QED BY <2>2, <2>3
<1>5. ASSUME NEW n \in work.delete, DeleteAPIResourceSchema(n) PROVE ExportSettled'
  <2>1. UNCHANGED <<export, exportSeen, negSeen, queue>> /\ work'.update = work.update
    BY <1>5, <1>w DEF DeleteAPIResourceSchema, caches
  <2>2. work # NoWork BY <1>5 DEF NoWork
  <2> QED BY <1>s, <2>1, <2>2 DEF ExportSettled
<1>6. CASE SeeExport \/ \E r \in Resources : SeeNegotiated(r)
  BY <1>6 DEF SeeExport, SeeNegotiated, EnqueueAPIExport, ExportSettled
<1>7. ASSUME NEW r \in Resources, ListResource(r) PROVE ExportSettled'
  <2>1. /\ UNCHANGED <<exportSeen, negSeen, schemas, work, queue>>
        /\ export' = [export EXCEPT !.list = Append(@, Name(r, 0))] /\ NamesOf(export, r) = {}
    BY <1>7 DEF ListResource, caches
  <2>2. export'.list = Append(export.list, Name(r, 0)) /\ export.list \in Seq(Names)
    BY <1>w, <2>1 DEF Exports
  <2>3. Name(r, 0) \in Names /\ ResourceOf(Name(r, 0)) = r BY NameTyped
  <2>4. Name(r, 0) \in Range(export'.list) BY <2>2, <2>3, RangeOfAppend
  <2>5. export'.list # exportSeen.list
    <3>1. SUFFICES ASSUME export'.list = exportSeen.list PROVE FALSE OBVIOUS
    <3>2. Name(r, 0) \in Listed(exportSeen) BY <2>4, <3>1 DEF Listed
    <3>3. PICK m \in Listed(export) : ResourceOf(m) = r
      BY <2>3, <3>2 DEF ExportIInv, ListIsRight, Follows
    <3> QED BY <2>1, <3>3 DEF NamesOf
  <2> QED BY <1>s, <2>1, <2>5 DEF ExportSettled
<1>8. CASE SetIdentity
  <2>1. export'.list = export.list BY <1>8, <1>w DEF SetIdentity, Exports
  <2> QED BY <1>s, <1>8, <2>1, ExportFrame DEF SetIdentity, caches
<1>9. CASE \/ TargetProcess \/ DefinitionsProcess \/ DefinitionsSwap \/ SeeTarget
           \/ \E s \in schemas \cup schemasSeen : SeeSchema(s)
           \/ \E r \in Resources : SeeImport(r) \/ ImportAPI(r) \/ DeleteImport(r) \/ Negotiate(r) \/ CleanUpNegotiated(r)
           \/ CreateTarget \/ SetExports \/ DeleteTarget
  <2>1. UNCHANGED <<export, exportSeen, negSeen, schemas, work>>
    BY <1>9 DEF TargetProcess, DefinitionsProcess, DefinitionsSwap, SeeTarget, SeeSchema, SeeImport,
                ImportAPI, DeleteImport, Negotiate, CleanUpNegotiated, CreateTarget, SetExports, DeleteTarget, objects, caches
  <2>2. "export" \in queue => "export" \in queue'
    BY <1>9 DEF TargetProcess, DefinitionsProcess, DefinitionsSwap, SeeTarget, SeeSchema, SeeImport,
                ImportAPI, DeleteImport, Negotiate, CleanUpNegotiated, CreateTarget, SetExports, DeleteTarget, Idle
  <2> QED BY <1>s, <2>1, <2>2, ExportFrame
<1>10. CASE UNCHANGED vars BY <1>s, <1>10, ExportFrame DEF vars
<1> QED BY <1>1, <1>2, <1>3, <1>4, <1>5, <1>6, <1>7, <1>8, <1>9, <1>10 DEF Next

-----------------------------------------------------------------------------
(* The SyncTarget export controller *)

LEMMA AnyIsOne ==
    ASSUME NEW S, S # {}
    PROVE  AnyOf(S) \in S
BY DEF AnyOf

LEMMA FoundTyped ==
    ASSUME ExportTypeOK, ServedTypeOK, NEW r \in Resources
    PROVE  /\ Found(r) \subseteq Schemas /\ Found(r) \subseteq schemasSeen
           /\ \A s \in Found(r) : s.name \in NamesOf(exportSeen, r) /\ ResourceOf(s.name) = r
BY DEF Found, CachedSchema, NamesOf, ServedTypeOK

LEMMA SyncedTyped ==
    ASSUME ExportTypeOK, NEW b
    PROVE  SyncedResources(b) \in [Resources -> [state : {"Accepted", "Incompatible"}, identity : {0, 1}] \cup {None}]
<1>1. exportSeen.identity \in {0, 1} BY DEF ExportTypeOK, Exports
<1> QED BY <1>1 DEF SyncedResources, StateOf

LEMMA FoundSame ==
    ASSUME UNCHANGED <<exportSeen, schemasSeen>>
    PROVE  \A r \in Resources : Found(r)' = Found(r)
BY DEF Found, CachedSchema, NamesOf, Listed

(* A schema that the cached export does not list makes no difference.       *)
LEMMA UnlistedIsNotFound ==
    ASSUME NEW s, SeeSchema(s), s.name \notin Listed(exportSeen)
    PROVE  \A r \in Resources : Found(r)' = Found(r)
<1>1. UNCHANGED exportSeen BY DEF SeeSchema
<1>2. ASSUME NEW n \in Listed(exportSeen) PROVE CachedSchema(n)' = CachedSchema(n)
  BY DEF SeeSchema, CachedSchema
<1>3. \A r \in Resources : NamesOf(exportSeen, r)' = NamesOf(exportSeen, r) /\ NamesOf(exportSeen, r) \subseteq Listed(exportSeen)
  BY <1>1 DEF NamesOf, Listed
<1> QED BY <1>2, <1>3 DEF Found

LEMMA TargetFrame ==
    ASSUME TargetSettled, UNCHANGED <<targetSeen, importsSeen>>,
           untold'.target = untold.target, untold'.imports = untold.imports,
           "target" \in queue => "target" \in queue',
           target' # None => target # None /\ target'.uid = target.uid /\ target'.synced = target.synced,
           exportSeen'.identity = exportSeen.identity, \A r \in Resources : Found(r)' = Found(r)
    PROVE  TargetSettled'
<1>1. SyncedResources(targetSeen.refers)' = SyncedResources(targetSeen.refers)
  BY DEF SyncedResources, StateOf
<1> QED BY <1>1 DEF TargetSettled

(* The caches of export and schemas change, and who refers to the export is *)
(* told.                                                                    *)
LEMMA TargetHears ==
    ASSUME ServedTypeOK, TargetSettled, UNCHANGED <<target, targetSeen, untold>>, queue \subseteq queue',
           Refers(targetSeen) => "target" \in queue'
    PROVE  TargetSettled'
<1>1. CASE Refers(targetSeen) BY <1>1 DEF TargetSettled
<1>2. CASE ~Refers(targetSeen)
  <2>1. targetSeen # None => /\ SyncedResources(targetSeen.refers)' = NoDefinitions
                             /\ SyncedResources(targetSeen.refers) = NoDefinitions
    BY <1>2 DEF Refers, SyncedResources, NoDefinitions
  <2> QED BY <2>1 DEF TargetSettled
<1> QED BY <1>1, <1>2

LEMMA TargetProcessStays ==
    ASSUME ExportIInv, ServedIInv, TargetProcess
    PROVE  target' \in SyncTargets \cup {None} /\ UidsAreOld' /\ TargetSettled'
<1>1. UNCHANGED <<targetSeen, importsSeen, exportSeen, schemasSeen, events>>
  BY DEF TargetProcess, caches
<1>2. SyncedResources(targetSeen.refers)' = SyncedResources(targetSeen.refers)
  <2>1. \A r \in Resources : Found(r)' = Found(r) BY <1>1, FoundSame
  <2> QED BY <1>1, <2>1 DEF SyncedResources, StateOf
<1>3. CASE targetSeen = None \/ targetSeen.synced = SyncedResources(targetSeen.refers)
  <2>1. UNCHANGED target BY <1>3 DEF TargetProcess
  <2> QED BY <1>1, <1>2, <1>3, <2>1 DEF ServedIInv, ServedTypeOK, UidsAreOld, TargetSettled
<1>4. CASE /\ targetSeen # None /\ targetSeen.synced # SyncedResources(targetSeen.refers)
           /\ target = targetSeen
  <2> DEFINE new == SyncedResources(target.refers)
  <2>1. target' = [target EXCEPT !.synced = new] BY <1>4 DEF TargetProcess
  <2>2. target \in SyncTargets BY <1>4 DEF ServedIInv, ServedTypeOK
  <2>3. new \in [Resources -> [state : {"Accepted", "Incompatible"}, identity : {0, 1}] \cup {None}]
    BY SyncedTyped DEF ExportIInv
  <2>4. new # targetSeen.synced BY <1>4
  <2> HIDE DEF new
  <2>5. target' \in SyncTargets /\ target'.uid = target.uid /\ target'.synced = new
    BY <2>1, <2>2, <2>3 DEF SyncTargets
  <2>6. UidsAreOld' BY <1>1, <1>4, <2>5 DEF ServedIInv, UidsAreOld
  <2>7. TargetSettled' BY <1>1, <2>4, <2>5 DEF TargetSettled
  <2> QED BY <2>5, <2>6, <2>7
<1>5. CASE /\ targetSeen # None /\ targetSeen.synced # SyncedResources(targetSeen.refers)
           /\ target # targetSeen
  <2>1. UNCHANGED target /\ "target" \in queue' BY <1>5 DEF TargetProcess
  <2> QED BY <1>1, <2>1 DEF ServedIInv, ServedTypeOK, UidsAreOld, TargetSettled
<1> QED BY <1>3, <1>4, <1>5

(* A change that the handler takes for none is none, or the target is       *)
(* another one.                                                             *)
LEMMA TargetIsSeen ==
    ASSUME ServedIInv, SeeTarget
    PROVE  targetSeen' \in SyncTargets \cup {None} /\ UidsAreOld' /\ TargetSettled'
<1>1. PICK new \in Told(targetSeen, target) :
         /\ targetSeen' = new /\ queue' = queue \cup EnqueueSyncTarget(targetSeen, new)
         /\ untold' = [untold EXCEPT
               !.target = @ \/ MadeAnew(targetSeen, new),
               !.refers = @ \/ (targetSeen # None /\ new # None /\ new.refers # targetSeen.refers)]
  BY DEF SeeTarget
<1>2. /\ new = None \/ new = target
      /\ UNCHANGED <<target, events, importsSeen, exportSeen, schemasSeen>>
  BY DEF SeeTarget, Told, objects
<1>3. /\ target \in SyncTargets \cup {None} /\ targetSeen \in SyncTargets \cup {None}
      /\ UidsAreOld /\ TargetSettled
      /\ untold \in [target : BOOLEAN, refers : BOOLEAN, imports : SUBSET Resources]
  BY DEF ServedIInv, ServedTypeOK
<1>4. /\ untold'.target <=> untold.target \/ MadeAnew(targetSeen, new)
      /\ untold'.imports = untold.imports
  BY <1>1, <1>3
<1>5. TargetSettled'
  <2>1. SUFFICES ASSUME "target" \notin queue', target # None, new # None, ~MadeAnew(targetSeen, new),
                        ~untold.target, target.uid = new.uid, target.synced = new.synced,
                        NEW r \in Resources \ untold.imports
                 PROVE  new.synced[r] = SyncedResources(new.refers)[r]'
    BY <1>1, <1>2, <1>4 DEF TargetSettled
  <2>2. targetSeen # None /\ new.refers = targetSeen.refers /\ new.synced = targetSeen.synced
    BY <1>1, <2>1 DEF EnqueueSyncTarget, Controllers
  <2>3. targetSeen.uid = new.uid /\ "target" \notin queue BY <1>1, <2>1, <2>2 DEF MadeAnew
  <2>4. targetSeen.synced[r] = SyncedResources(targetSeen.refers)[r]
    BY <1>3, <2>1, <2>2, <2>3 DEF TargetSettled
  <2>5. \A q \in Resources : Found(q)' = Found(q) BY <1>2, FoundSame
  <2>6. SyncedResources(new.refers)' = SyncedResources(targetSeen.refers)
    BY <1>2, <2>2, <2>5 DEF SyncedResources, StateOf
  <2> QED BY <2>2, <2>4, <2>6
<1>6. targetSeen' \in SyncTargets \cup {None} /\ UidsAreOld' BY <1>1, <1>2, <1>3 DEF UidsAreOld
<1> QED BY <1>5, <1>6

LEMMA TargetIsChanged ==
    ASSUME ServedIInv, CreateTarget \/ SetExports \/ DeleteTarget
    PROVE  target' \in SyncTargets \cup {None} /\ UidsAreOld' /\ TargetSettled' /\ events' \in Nat
<1>1. /\ UNCHANGED <<targetSeen, importsSeen, exportSeen, schemasSeen, queue, untold>>
      /\ events' = events + 1 /\ events \in Nat
  BY DEF CreateTarget, SetExports, DeleteTarget, Event, caches, ServedIInv, ServedTypeOK
<1>2. targetSeen # None => targetSeen.uid \in Nat /\ targetSeen.uid <= events
  BY DEF ServedIInv, ServedTypeOK, UidsAreOld, SyncTargets
<1>3. \A r \in Resources : Found(r)' = Found(r) BY <1>1, FoundSame
<1>4. CASE CreateTarget
  <2>1. target' = [uid |-> events', refers |-> TRUE, synced |-> NoDefinitions] BY <1>4 DEF CreateTarget
  <2>2. target' \in SyncTargets BY <1>1, <2>1 DEF SyncTargets, NoDefinitions
  <2>3. target'.uid = events + 1 BY <1>1, <2>1
  <2>4. UidsAreOld' BY <1>1, <1>2, <2>3 DEF UidsAreOld
  <2>5. TargetSettled' BY <1>1, <1>2, <2>3 DEF TargetSettled
  <2> QED BY <1>1, <2>2, <2>4, <2>5
<1>5. CASE SetExports
  <2>1. target # None /\ target' = [target EXCEPT !.refers = ~@] BY <1>5 DEF SetExports
  <2>2. target \in SyncTargets BY <2>1 DEF ServedIInv, ServedTypeOK
  <2>3. /\ target' \in SyncTargets /\ target'.uid = target.uid /\ target'.synced = target.synced
    BY <2>1, <2>2 DEF SyncTargets
  <2>4. target.uid \in Nat /\ target.uid <= events BY <2>1, <2>2 DEF ServedIInv, UidsAreOld, SyncTargets
  <2>5. UidsAreOld' BY <1>1, <1>2, <2>3, <2>4 DEF UidsAreOld
  <2>6. TargetSettled' BY <1>1, <1>3, <2>1, <2>3, TargetFrame DEF ServedIInv
  <2> QED BY <1>1, <2>3, <2>5, <2>6
<1>6. CASE DeleteTarget
  <2>1. target' = None BY <1>6 DEF DeleteTarget
  <2> QED BY <1>1, <1>2, <2>1 DEF UidsAreOld, TargetSettled
<1> QED BY <1>4, <1>5, <1>6

(* What the cluster has: of one import the cache shows a generation that    *)
(* there was, so that an equal generation means an equal import.            *)
LEMMA ImportsStay ==
    ASSUME ServedIInv, [Next]_vars
    PROVE  /\ imports' \in [Resources -> APIResourceImports \cup {None}]
           /\ importsSeen' \in [Resources -> APIResourceImports \cup {None}]
           /\ ImportsGrow' /\ events' \in Nat
<1>1. /\ imports \in [Resources -> APIResourceImports \cup {None}]
      /\ importsSeen \in [Resources -> APIResourceImports \cup {None}] /\ events \in Nat
  BY DEF ServedIInv, ServedTypeOK
<1>2. \A i \in APIResourceImports : i.uid \in Nat /\ i.generation \in Nat BY DEF APIResourceImports
<1>3. ASSUME NEW q \in Resources
      PROVE  /\ imports[q] # None => imports[q] \in APIResourceImports /\ imports[q].uid <= events
             /\ importsSeen[q] # None => importsSeen[q] \in APIResourceImports /\ importsSeen[q].uid <= events
             /\ imports[q] # None /\ importsSeen[q] # None /\ imports[q].uid = importsSeen[q].uid =>
                   /\ importsSeen[q].generation <= imports[q].generation
                   /\ importsSeen[q].generation = imports[q].generation => importsSeen[q] = imports[q]
  BY <1>1 DEF ServedIInv, ImportsGrow
<1>4. CASE UNCHANGED <<imports, importsSeen>> /\ (events' = events \/ events' = events + 1)
  <2>1. ImportsGrow' BY <1>1, <1>2, <1>3, <1>4 DEF ImportsGrow
  <2> QED BY <1>1, <1>4, <2>1
<1>5. ASSUME NEW r \in Resources, SeeImport(r) \/ DeleteImport(r)
      PROVE  /\ imports' \in [Resources -> APIResourceImports \cup {None}]
             /\ importsSeen' \in [Resources -> APIResourceImports \cup {None}]
             /\ ImportsGrow' /\ events' \in Nat
  <2>1. /\ imports' \in [Resources -> APIResourceImports \cup {None}]
        /\ importsSeen' \in [Resources -> APIResourceImports \cup {None}]
        /\ events' = events \/ events' = events + 1
        /\ \A q \in Resources : imports'[q] \in {imports[q], None}
        /\ \A q \in Resources : importsSeen'[q] \in {imports'[q], importsSeen[q], None}
    BY <1>1, <1>5 DEF SeeImport, DeleteImport, Told, Event, objects, caches
  <2>2. ImportsGrow'
    <3>1. SUFFICES ASSUME NEW q \in Resources
                   PROVE  /\ \A i \in {imports'[q], importsSeen'[q]} : i # None => i.uid <= events'
                          /\ imports'[q] # None /\ importsSeen'[q] # None /\ imports'[q].uid = importsSeen'[q].uid =>
                                /\ importsSeen'[q].generation <= imports'[q].generation
                                /\ importsSeen'[q].generation = imports'[q].generation => importsSeen'[q] = imports'[q]
      BY DEF ImportsGrow
    <3>2. imports'[q] \in {imports[q], None} /\ importsSeen'[q] \in {imports'[q], importsSeen[q], None}
      BY <2>1
    <3> QED BY <1>1, <1>2, <1>3, <2>1, <3>2
  <2> QED BY <1>1, <2>1, <2>2
<1>6. ASSUME NEW r \in Resources, ImportAPI(r)
      PROVE  /\ imports' \in [Resources -> APIResourceImports \cup {None}]
             /\ importsSeen' \in [Resources -> APIResourceImports \cup {None}]
             /\ ImportsGrow' /\ events' \in Nat
  <2>1. UNCHANGED importsSeen /\ events' = events + 1 BY <1>6 DEF ImportAPI, Event, caches
  <2>2. PICK f \in SUBSET Fields :
           imports' = [imports EXCEPT ![r] = IF @ = None THEN [uid |-> events', generation |-> 1, fields |-> f]
                                             ELSE [uid |-> @.uid, generation |-> @.generation + 1, fields |-> f]]
    BY <1>6 DEF ImportAPI
  <2>3. /\ imports' \in [Resources -> APIResourceImports \cup {None}]
        /\ \A q \in Resources \ {r} : imports'[q] = imports[q]
        /\ imports'[r] \in APIResourceImports
        /\ \/ imports[r] = None /\ imports'[r].uid = events + 1
           \/ /\ imports[r] # None /\ imports'[r].uid = imports[r].uid
              /\ imports'[r].generation = imports[r].generation + 1
    <3>1. CASE imports[r] = None
      <4>1. imports' = [imports EXCEPT ![r] = [uid |-> events + 1, generation |-> 1, fields |-> f]]
        BY <2>1, <2>2, <3>1
      <4>2. [uid |-> events + 1, generation |-> 1, fields |-> f] \in APIResourceImports
        BY <1>1 DEF APIResourceImports
      <4> QED BY <1>1, <3>1, <4>1, <4>2
    <3>2. CASE imports[r] # None
      <4> DEFINE i == imports[r]
                 new == [uid |-> i.uid, generation |-> i.generation + 1, fields |-> f]
      <4>1. i \in APIResourceImports BY <1>3, <3>2
      <4>2. imports'[r] = new /\ \A q \in Resources \ {r} : imports'[q] = imports[q]
        <5> DEFINE then == IF imports[r] = None THEN [uid |-> events', generation |-> 1, fields |-> f] ELSE new
        <5>1. imports' = [imports EXCEPT ![r] = then] BY <2>2
        <5>2. then = new BY <3>2
        <5> HIDE DEF then, new
        <5> QED BY <1>1, <5>1, <5>2
      <4>3. new \in APIResourceImports /\ new.uid = i.uid /\ new.generation = i.generation + 1
        BY <4>1 DEF APIResourceImports
      <4>4. imports' \in [Resources -> APIResourceImports \cup {None}]
        <5>1. DOMAIN imports' = Resources /\ imports' = [q \in Resources |-> imports'[q]] BY <1>1, <2>2
        <5>2. \A q \in Resources : imports'[q] \in APIResourceImports \cup {None} BY <1>1, <4>2, <4>3
        <5> QED BY <5>1, <5>2
      <4> HIDE DEF new
      <4> QED BY <3>2, <4>2, <4>3, <4>4
    <3> QED BY <3>1, <3>2
  <2>4. ImportsGrow'
    <3>1. SUFFICES ASSUME NEW q \in Resources
                   PROVE  /\ \A i \in {imports'[q], importsSeen[q]} : i # None => i.uid <= events + 1
                          /\ imports'[q] # None /\ importsSeen[q] # None /\ imports'[q].uid = importsSeen[q].uid =>
                                /\ importsSeen[q].generation <= imports'[q].generation
                                /\ importsSeen[q].generation = imports'[q].generation => importsSeen[q] = imports'[q]
      BY <2>1 DEF ImportsGrow
    <3>2. CASE q # r BY <1>1, <1>2, <1>3, <2>3, <3>2
    <3>3. CASE q = r BY <1>1, <1>2, <1>3, <2>3, <3>3
    <3> QED BY <3>2, <3>3
  <2> QED BY <1>1, <2>1, <2>3, <2>4
<1>7. CASE \/ ExportProcess \/ ExportRequestFails \/ TargetProcess \/ DefinitionsProcess \/ DefinitionsSwap
           \/ \E s \in work.create : CreateAPIResourceSchema(s)
           \/ \E u \in work.update : UpdateAPIExport(u)
           \/ \E n \in work.delete : DeleteAPIResourceSchema(n)
           \/ SeeExport \/ SeeTarget \/ \E s \in schemas \cup schemasSeen : SeeSchema(s)
           \/ \E r \in Resources : SeeNegotiated(r) \/ Negotiate(r) \/ CleanUpNegotiated(r) \/ ListResource(r)
           \/ SetIdentity \/ CreateTarget \/ SetExports \/ DeleteTarget
  <2>1. UNCHANGED <<imports, importsSeen>> /\ (events' = events \/ events' = events + 1)
    BY <1>7 DEF ExportProcess, ExportRequestFails, TargetProcess, DefinitionsProcess, DefinitionsSwap,
                CreateAPIResourceSchema, UpdateAPIExport, DeleteAPIResourceSchema, SeeExport, SeeTarget,
                SeeSchema, SeeNegotiated, Negotiate, CleanUpNegotiated, ListResource, SetIdentity,
                CreateTarget, SetExports, DeleteTarget, Event, objects, caches
  <2> QED BY <1>4, <2>1
<1>8. CASE UNCHANGED vars BY <1>4, <1>8 DEF vars
<1> QED BY <1>5, <1>6, <1>7, <1>8 DEF Next

(* An import that nobody is told of is gone, made anew, or the same.        *)
LEMMA ImportIsSeen ==
    ASSUME ServedIInv, NEW r \in Resources, SeeImport(r)
    PROVE  TargetSettled'
<1>1. PICK new \in Told(importsSeen[r], imports[r]) :
         /\ importsSeen' = [importsSeen EXCEPT ![r] = new]
         /\ queue' = queue \cup EnqueueAPIResourceImport(importsSeen[r], new)
         /\ untold' = [untold EXCEPT
               !.imports = IF new = None \/ MadeAnew(importsSeen[r], new) THEN @ \cup {r} ELSE @]
  BY DEF SeeImport
<1>2. /\ UNCHANGED <<target, targetSeen, exportSeen, schemasSeen>> /\ importsSeen[r] # imports[r]
      /\ new = None \/ new = imports[r]
  BY DEF SeeImport, Told, objects
<1>3. /\ importsSeen \in [Resources -> APIResourceImports \cup {None}] /\ TargetSettled
      /\ untold \in [target : BOOLEAN, refers : BOOLEAN, imports : SUBSET Resources]
  BY DEF ServedIInv, ServedTypeOK
<1>4. CASE "target" \in queue' BY <1>4 DEF TargetSettled
<1>5. CASE "target" \notin queue'
  <2>1. "target" \notin queue /\ EnqueueAPIResourceImport(importsSeen[r], new) = {}
    BY <1>1, <1>5 DEF EnqueueAPIResourceImport
  <2>2. new = None \/ (importsSeen[r] # None /\ importsSeen[r].generation = new.generation)
    BY <2>1 DEF EnqueueAPIResourceImport
  <2>3. new = None \/ MadeAnew(importsSeen[r], new)
    BY <1>2, <2>2 DEF ServedIInv, ImportsGrow, MadeAnew
  <2>4. untold'.target = untold.target /\ untold'.imports = untold.imports \cup {r} BY <1>1, <1>3, <2>3
  <2>5. \A q \in Resources \ untold'.imports : importsSeen'[q] = importsSeen[q] BY <1>1, <1>3, <2>4
  <2>6. \A q \in Resources : Found(q)' = Found(q) BY <1>2, FoundSame
  <2>7. \A q \in Resources \ untold'.imports :
           SyncedResources(targetSeen.refers)[q]' = SyncedResources(targetSeen.refers)[q]
    <3>1. SUFFICES ASSUME NEW q \in Resources \ untold'.imports
                   PROVE  SyncedResources(targetSeen.refers)[q]' = SyncedResources(targetSeen.refers)[q]
      OBVIOUS
    <3>2. \A s \in Found(q) : ResourceOf(s.name) = q BY DEF Found, CachedSchema, NamesOf
    <3>3. Found(q) # {} => StateOf(AnyOf(Found(q)))' = StateOf(AnyOf(Found(q)))
      BY <2>5, <2>6, <3>2, AnyIsOne DEF StateOf
    <3> QED BY <1>2, <2>6, <3>3 DEF SyncedResources
  <2> QED BY <1>2, <1>3, <2>1, <2>4, <2>7 DEF TargetSettled
<1> QED BY <1>4, <1>5

LEMMA TargetStays ==
    ASSUME ExportIInv, ServedIInv, [Next]_vars
    PROVE  /\ target' \in SyncTargets \cup {None} /\ targetSeen' \in SyncTargets \cup {None}
           /\ events' \in Nat /\ UidsAreOld' /\ TargetSettled'
<1>t. /\ target \in SyncTargets \cup {None} /\ targetSeen \in SyncTargets \cup {None} /\ events \in Nat
      /\ UidsAreOld /\ TargetSettled
  BY DEF ServedIInv, ServedTypeOK
<1>u. /\ target # None => target.uid \in Nat
      /\ targetSeen # None => targetSeen.uid \in Nat
  BY <1>t DEF SyncTargets
<1>f. ASSUME UNCHANGED <<target, targetSeen>>, events' = events \/ events' = events + 1, TargetSettled'
      PROVE  /\ target' \in SyncTargets \cup {None} /\ targetSeen' \in SyncTargets \cup {None}
             /\ events' \in Nat /\ UidsAreOld' /\ TargetSettled'
  BY <1>t, <1>u, <1>f DEF UidsAreOld
<1>1. CASE TargetProcess BY <1>1, <1>t, TargetProcessStays DEF TargetProcess, caches
<1>2. CASE SeeTarget BY <1>2, <1>t, TargetIsSeen DEF SeeTarget, objects
<1>3. CASE CreateTarget \/ SetExports \/ DeleteTarget
  BY <1>3, <1>t, TargetIsChanged DEF CreateTarget, SetExports, DeleteTarget, caches
<1>4. CASE SeeExport
  <2>1. UNCHANGED <<target, targetSeen, events, untold>> BY <1>4 DEF SeeExport, objects
  <2>2. queue \subseteq queue' /\ (Refers(targetSeen) => "target" \in queue')
    BY <1>4 DEF SeeExport, OfExport, EnqueueTargets
  <2>3. TargetSettled' BY <1>t, <2>1, <2>2, TargetHears DEF ServedIInv
  <2> QED BY <1>f, <2>1, <2>3
<1>5. ASSUME NEW s \in schemas \cup schemasSeen, SeeSchema(s) PROVE TargetSettled'
  <2>1. UNCHANGED <<target, targetSeen, events, untold, importsSeen, exportSeen>> BY <1>5 DEF SeeSchema, objects
  <2>2. CASE s.name \in Listed(exportSeen)
    <3>1. queue \subseteq queue' /\ (Refers(targetSeen) => "target" \in queue')
      BY <1>5, <2>2 DEF SeeSchema, OfExport, EnqueueTargets
    <3> QED BY <1>t, <2>1, <3>1, TargetHears DEF ServedIInv
  <2>3. CASE s.name \notin Listed(exportSeen)
    <3>1. \A r \in Resources : Found(r)' = Found(r) BY <1>5, <2>3, UnlistedIsNotFound
    <3>2. "target" \in queue => "target" \in queue' BY <1>5 DEF SeeSchema
    <3> QED BY <1>t, <2>1, <3>1, <3>2, TargetFrame
  <2> QED BY <2>2, <2>3
<1>6. CASE \E s \in schemas \cup schemasSeen : SeeSchema(s)
  BY <1>5, <1>6, <1>f DEF SeeSchema, objects
<1>7. CASE \E r \in Resources : SeeImport(r)
  <2>1. UNCHANGED <<target, targetSeen, events>> BY <1>7 DEF SeeImport, objects
  <2> QED BY <1>7, <1>f, <2>1, ImportIsSeen
<1>8. CASE \/ ExportProcess \/ ExportRequestFails
           \/ \E s \in work.create : CreateAPIResourceSchema(s)
           \/ \E u \in work.update : UpdateAPIExport(u)
           \/ \E n \in work.delete : DeleteAPIResourceSchema(n)
           \/ DefinitionsProcess \/ DefinitionsSwap
           \/ \E r \in Resources : SeeNegotiated(r) \/ Negotiate(r) \/ CleanUpNegotiated(r)
           \/ \E r \in Resources : ListResource(r) \/ ImportAPI(r) \/ DeleteImport(r)
           \/ SetIdentity
  <2>0. events' = events \/ events' = events + 1
    BY <1>8 DEF ExportProcess, ExportRequestFails, CreateAPIResourceSchema, UpdateAPIExport,
                DeleteAPIResourceSchema, DefinitionsProcess, DefinitionsSwap, SeeNegotiated, Negotiate,
                CleanUpNegotiated, ListResource, ImportAPI, DeleteImport, SetIdentity, Event
  <2>1. UNCHANGED <<target, targetSeen, importsSeen, exportSeen, schemasSeen>>
    BY <1>8 DEF ExportProcess, ExportRequestFails, CreateAPIResourceSchema, UpdateAPIExport,
                DeleteAPIResourceSchema, DefinitionsProcess, DefinitionsSwap, SeeNegotiated, Negotiate,
                CleanUpNegotiated, ListResource, ImportAPI, DeleteImport, SetIdentity, objects, caches
  <2>u. untold'.target = untold.target /\ untold'.imports = untold.imports
    <3>1. UNCHANGED untold \/ untold' = [untold EXCEPT !.refers = FALSE]
      BY <1>8 DEF ExportProcess, ExportRequestFails, CreateAPIResourceSchema, UpdateAPIExport,
                  DeleteAPIResourceSchema, DefinitionsProcess, DefinitionsSwap, SeeNegotiated, Negotiate,
                  CleanUpNegotiated, ListResource, ImportAPI, DeleteImport, SetIdentity
    <3> QED BY <3>1 DEF ServedIInv, ServedTypeOK
  <2>2. "target" \in queue => "target" \in queue'
    BY <1>8 DEF ExportProcess, ExportRequestFails, CreateAPIResourceSchema, UpdateAPIExport,
                DeleteAPIResourceSchema, DefinitionsProcess, DefinitionsSwap, SeeNegotiated, Negotiate,
                CleanUpNegotiated, ListResource, ImportAPI, DeleteImport, SetIdentity, Idle
  <2>3. \A r \in Resources : Found(r)' = Found(r) BY <2>1, FoundSame
  <2>4. TargetSettled' BY <1>t, <2>1, <2>u, <2>2, <2>3, TargetFrame
  <2> QED BY <1>f, <2>0, <2>1, <2>4
<1>9. CASE UNCHANGED vars
  <2>1. \A r \in Resources : Found(r)' = Found(r) BY <1>9, FoundSame DEF vars
  <2>2. TargetSettled' BY <1>t, <1>9, <2>1, TargetFrame DEF vars
  <2> QED BY <1>f, <1>9, <2>2 DEF vars
<1> QED BY <1>1, <1>2, <1>3, <1>4, <1>6, <1>7, <1>8, <1>9 DEF Next

-----------------------------------------------------------------------------
(* The API reconciler of the virtual workspace *)

DefinitionsTyped ==
    /\ served \in DefinitionSets /\ defining \in DefinitionSets \cup {None}
    /\ torn \subseteq Definitions /\ IsFiniteSet(torn)

LEMMA ComingTyped ==
    ASSUME DefinitionsTyped
    PROVE  Coming \in DefinitionSets
BY DEF DefinitionsTyped, Coming

LEMMA AcceptedTyped ==
    ASSUME targetSeen \in SyncTargets, NEW r \in Resources
    PROVE  AcceptedIdentity(r) \in {0, 1, None}
BY DEF SyncTargets, AcceptedIdentity

(* Neither definitions nor the cached target change.                        *)
LEMMA DefinitionsFrame ==
    ASSUME DefinitionsSettled, UNCHANGED targetSeen, untold'.refers = untold.refers, Coming' = Coming,
           "definitions" \in queue => "definitions" \in queue',
           \A r \in Resources : Found(r)' = Found(r)
    PROVE  DefinitionsSettled'
<1>1. \A r \in Resources : AcceptedIdentity(r)' = AcceptedIdentity(r) BY DEF AcceptedIdentity
<1> QED BY <1>1 DEF DefinitionsSettled, NoDefinitions

(* What is found may change: a target that refers to the export is queued.  *)
LEMMA DefinitionsHear ==
    ASSUME DefinitionsSettled, UNCHANGED <<targetSeen, untold>>, Coming' = Coming, queue \subseteq queue',
           Refers(targetSeen) => "definitions" \in queue'
    PROVE  DefinitionsSettled'
<1>1. \A r \in Resources : AcceptedIdentity(r)' = AcceptedIdentity(r) BY DEF AcceptedIdentity
<1>2. CASE Refers(targetSeen) BY <1>2 DEF DefinitionsSettled
<1>3. CASE ~Refers(targetSeen) BY <1>1, <1>3 DEF DefinitionsSettled, NoDefinitions, Refers
<1> QED BY <1>2, <1>3

(* The target is seen: with the same status and the same list of exports,   *)
(* or the list is what nobody is told of.                                   *)
LEMMA DefinitionsOfSeen ==
    ASSUME ServedIInv, SeeTarget
    PROVE  DefinitionsSettled'
<1>1. PICK new \in Told(targetSeen, target) :
         /\ targetSeen' = new /\ queue' = queue \cup EnqueueSyncTarget(targetSeen, new)
         /\ untold' = [untold EXCEPT
               !.target = @ \/ MadeAnew(targetSeen, new),
               !.refers = @ \/ (targetSeen # None /\ new # None /\ new.refers # targetSeen.refers)]
  BY DEF SeeTarget
<1>2. UNCHANGED <<served, defining, exportSeen, schemasSeen>> BY DEF SeeTarget, definitions
<1>3. Coming' = Coming BY <1>2 DEF Coming
<1>4. \A r \in Resources : Found(r)' = Found(r) BY <1>2, FoundSame
<1>5. CASE targetSeen = None \/ new = None
  <2>1. "definitions" \in queue' BY <1>1, <1>5 DEF EnqueueSyncTarget, Controllers
  <2> QED BY <2>1 DEF DefinitionsSettled
<1>6. CASE targetSeen # None /\ new # None /\ new.synced # targetSeen.synced
  <2>1. "definitions" \in queue' BY <1>1, <1>6 DEF EnqueueSyncTarget
  <2> QED BY <2>1 DEF DefinitionsSettled
<1>7. CASE targetSeen # None /\ new # None /\ new.synced = targetSeen.synced
  <2>1. \A r \in Resources : AcceptedIdentity(r)' = AcceptedIdentity(r)
    BY <1>1, <1>7 DEF AcceptedIdentity
  <2>2. SUFFICES ASSUME "definitions" \notin queue' PROVE DefinitionsSettled'
    BY DEF DefinitionsSettled
  <2>3. "definitions" \notin queue BY <1>1, <2>2
  <2>4. ~untold'.refers => ~untold.refers /\ new.refers = targetSeen.refers
    BY <1>1, <1>7 DEF ServedIInv, ServedTypeOK
  <2> QED BY <1>1, <1>3, <1>4, <1>7, <2>1, <2>3, <2>4 DEF ServedIInv, DefinitionsSettled
<1> QED BY <1>5, <1>6, <1>7

(* The new set of definitions: for each resource none, the old one, or one  *)
(* that is made now.                                                        *)
LEMMA NewSetIsRight ==
    ASSUME ExportIInv, ServedIInv, targetSeen # None, defining = None, NEW r \in Resources
    PROVE  LET new == NewSet(served)[r]
           IN  /\ new = None <=> IncludedSchemas(r) = {}
               /\ new # None =>
                    /\ new \in Definitions /\ ResourceOf(new.name) = r
                    /\ \E s \in Found(r) : new.name = s.name
                    /\ new.identity = AcceptedIdentity(r)
                    /\ new = served[r] \/ new.made = Cardinality(torn)
<1> DEFINE found == IncludedSchemas(r)
           made == [name |-> AnyOf(found).name, identity |-> AcceptedIdentity(r),
                    made |-> Cardinality(torn)]
           new == NewSet(served)[r]
<1>1. new = IF found = {} THEN None
            ELSE IF served[r] # None /\ [served[r] EXCEPT !.made = made.made] = made THEN served[r]
            ELSE made
  BY DEF NewSet
<1>2. CASE found = {} BY <1>1, <1>2
<1>3. CASE found # {}
  <2>1. found = Found(r) /\ AcceptedIdentity(r) # None BY <1>3 DEF IncludedSchemas
  <2>2. AnyOf(found) \in Found(r) BY <1>3, <2>1, AnyIsOne
  <2>3. AnyOf(found).name \in Names /\ ResourceOf(AnyOf(found).name) = r
    BY <2>2, FoundTyped DEF ExportIInv, ServedIInv, Schemas
  <2>4. AcceptedIdentity(r) \in {0, 1} BY <2>1, AcceptedTyped DEF ServedIInv, ServedTypeOK
  <2>5. Cardinality(torn) \in Nat BY FS_CardinalityType DEF ServedIInv, ServedTypeOK
  <2>6. made \in Definitions /\ made # None
    <3>1. made \in Definitions BY <2>3, <2>4, <2>5 DEF Definitions
    <3> QED BY <3>1, NoneIsNoObject
  <2>7. CASE served[r] # None /\ [served[r] EXCEPT !.made = made.made] = made
    <3>1. served[r] \in Definitions BY <2>7 DEF ServedIInv, ServedTypeOK, DefinitionSets
    <3>2. served[r].name = made.name /\ served[r].identity = made.identity
      BY <2>7, <3>1 DEF Definitions
    <3>3. new = served[r] BY <1>1, <1>3, <2>7
    <3> QED BY <1>3, <2>2, <2>3, <2>7, <3>1, <3>2, <3>3
  <2>8. CASE ~(served[r] # None /\ [served[r] EXCEPT !.made = made.made] = made)
    <3>1. new = made BY <1>1, <1>3, <2>8
    <3> QED BY <1>3, <2>2, <2>3, <2>6, <3>1
  <2> QED BY <2>7, <2>8
<1> QED BY <1>2, <1>3

LEMMA NewSetTyped ==
    ASSUME ExportIInv, ServedIInv, targetSeen # None, defining = None
    PROVE  NewSet(served) \in DefinitionSets
<1>1. \A r \in Resources : NewSet(served)[r] \in Definitions \cup {None} BY NewSetIsRight
<1>2. NewSet(served) = [r \in Resources |-> NewSet(served)[r]] BY DEF NewSet
<1> QED BY <1>1, <1>2 DEF DefinitionSets

(* What is torn down is old and not among the new.                          *)
LEMMA TearsDownRight ==
    ASSUME ExportIInv, ServedIInv, targetSeen # None, defining = None,
           NEW down, down = torn \cup TearDown(served, NewSet(served))
    PROVE  /\ down \subseteq Definitions /\ IsFiniteSet(down)
           /\ \A d \in down : d.made < Cardinality(down)
           /\ \A r \in Resources : NewSet(served)[r] # None =>
                /\ NewSet(served)[r] \notin down
                /\ NewSet(served)[r].made <= Cardinality(down)
<1> DEFINE new == NewSet(served)
           T == TearDown(served, new)
           differ == {q \in Resources : served[q] # new[q]}
<1>1. T = {served[q] : q \in differ} \ {None} BY DEF TearDown
<1>2. Coming = served BY DEF Coming
<1>3. served \in DefinitionSets /\ torn \subseteq Definitions /\ IsFiniteSet(torn)
  BY DEF ServedIInv, ServedTypeOK
<1>4. /\ \A r \in Resources : served[r] # None =>
           served[r] \notin torn /\ ResourceOf(served[r].name) = r /\ served[r].made <= Cardinality(torn)
      /\ \A d \in torn : d.made < Cardinality(torn)
  BY <1>2 DEF ServedIInv, ComingIsAlive
<1>5. T \subseteq Definitions BY <1>1, <1>3 DEF DefinitionSets
<1>6. IsFiniteSet(T)
  <2> DEFINE S == {served[q] : q \in Resources}
             f == [q \in Resources |-> served[q]]
  <2>1. f \in Surjection(Resources, S) BY DEF Surjection
  <2>2. IsFiniteSet(S) BY <2>1, NoneIsNoObject, FS_Surjection
  <2>3. T \subseteq S BY <1>1
  <2> QED BY <2>2, <2>3, FS_Subset
<1>7. IsFiniteSet(down) BY <1>3, <1>6, FS_Union
<1>8. /\ Cardinality(torn) \in Nat /\ Cardinality(down) \in Nat
      /\ Cardinality(torn) <= Cardinality(down)
      /\ torn # down => Cardinality(torn) < Cardinality(down)
  <2>1. torn \subseteq down OBVIOUS
  <2>2. Cardinality(torn) \in Nat /\ Cardinality(down) \in Nat BY <1>3, <1>7, FS_CardinalityType
  <2>3. Cardinality(torn) <= Cardinality(down) /\ (Cardinality(torn) = Cardinality(down) => torn = down)
    BY <1>7, <2>1, FS_Subset
  <2> QED BY <2>2, <2>3
<1>9. ASSUME NEW d \in down PROVE d.made < Cardinality(down)
  <2>1. d.made \in Nat BY <1>3, <1>5 DEF Definitions
  <2>2. CASE d \in torn BY <1>4, <1>8, <2>1, <2>2
  <2>3. CASE d \in T
    <3>1. PICK q \in Resources : d = served[q] /\ d # None BY <1>1, <2>3
    <3>2. d \notin torn /\ d.made <= Cardinality(torn) BY <1>4, <3>1
    <3>3. torn # down BY <3>2, <1>9
    <3> QED BY <1>8, <2>1, <3>2, <3>3
  <2> QED BY <2>2, <2>3
<1>10. ASSUME NEW r \in Resources, new[r] # None
       PROVE  new[r] \notin down /\ new[r].made <= Cardinality(down)
  <2>1. /\ new[r] \in Definitions /\ ResourceOf(new[r].name) = r
        /\ new[r] = served[r] \/ new[r].made = Cardinality(torn)
    BY <1>10, NewSetIsRight
  <2>2. new[r].made \in Nat BY <2>1 DEF Definitions
  <2>3. new[r].made <= Cardinality(torn) /\ new[r] \notin torn
    <3>1. CASE new[r] = served[r] BY <1>4, <1>10, <3>1
    <3>2. CASE new[r].made = Cardinality(torn) BY <1>4, <1>8, <3>2
    <3> QED BY <2>1, <3>1, <3>2
  <2>4. new[r] \notin T
    <3>1. SUFFICES ASSUME NEW q \in differ, new[r] = served[q], served[q] # None PROVE FALSE BY <1>1
    <3>2. ResourceOf(served[q].name) = q BY <1>4, <3>1
    <3>3. q = r BY <2>1, <3>1, <3>2
    <3> QED BY <3>1, <3>3
  <2> QED BY <1>8, <2>2, <2>3, <2>4
<1> HIDE DEF new
<1> QED BY <1>3, <1>5, <1>7, <1>9, <1>10 DEF new

LEMMA DefinitionsAreMade ==
    ASSUME ExportIInv, ServedIInv, DefinitionsProcess
    PROVE  DefinitionsTyped' /\ DefinitionsSettled' /\ ComingIsAlive'
<1>1. /\ UNCHANGED <<targetSeen, exportSeen, schemasSeen>> /\ defining = None
  BY DEF DefinitionsProcess, caches
<1>2. \A r \in Resources : Found(r)' = Found(r) BY <1>1, FoundSame
<1>3. \A r \in Resources : AcceptedIdentity(r)' = AcceptedIdentity(r) BY <1>1 DEF AcceptedIdentity
<1>4. DefinitionsTyped BY DEF ServedIInv, ServedTypeOK, DefinitionsTyped
<1>5. CASE targetSeen = None
  <2>1. served' = NoDefinitions /\ defining' = None /\ torn' = torn
    BY <1>1, <1>5 DEF DefinitionsProcess
  <2>2. Coming' = NoDefinitions BY <2>1 DEF Coming
  <2>3. NoDefinitions \in DefinitionSets BY DEF NoDefinitions, DefinitionSets
  <2>4. DefinitionsTyped' BY <1>4, <2>1, <2>3 DEF DefinitionsTyped
  <2>5. DefinitionsSettled' BY <1>1, <1>5, <2>2 DEF DefinitionsSettled, NoDefinitions
  <2>6. ComingIsAlive' BY <2>1, <2>2 DEF ServedIInv, ComingIsAlive, NoDefinitions
  <2> QED BY <2>4, <2>5, <2>6
<1>6. CASE targetSeen # None
  <2> DEFINE new == NewSet(served)
  <2>1. defining' = new /\ torn' = torn \cup TearDown(served, new) /\ served' = served
    BY <1>6 DEF DefinitionsProcess
  <2>2. new \in DefinitionSets BY <1>1, <1>6, NewSetTyped
  <2>3. Coming' = new
    <3>1. new # None BY <2>2, NoneIsNoObject
    <3> QED BY <2>1, <3>1 DEF Coming
  <2>4. DefinitionsTyped' BY <1>1, <1>4, <1>6, <2>1, <2>2, TearsDownRight DEF DefinitionsTyped
  <2>5. DefinitionsSettled'
    <3>1. SUFFICES ASSUME NEW r \in Resources
                   PROVE  /\ AcceptedIdentity(r) = None => new[r] = None
                          /\ AcceptedIdentity(r) # None /\ targetSeen.refers =>
                               /\ new[r] = None <=> Found(r) = {}
                               /\ new[r] # None => /\ \E s \in Found(r) : new[r].name = s.name
                                                   /\ new[r].identity = AcceptedIdentity(r)
      BY <1>1, <1>2, <1>3, <1>6, <2>3 DEF DefinitionsSettled
    <3>2. /\ new[r] = None <=> IncludedSchemas(r) = {}
          /\ new[r] # None => /\ \E s \in Found(r) : new[r].name = s.name
                              /\ new[r].identity = AcceptedIdentity(r)
      BY <1>1, <1>6, NewSetIsRight
    <3> QED BY <3>2 DEF IncludedSchemas
  <2>6. ComingIsAlive'
    <3>1. \A r \in Resources : new[r] # None => ResourceOf(new[r].name) = r BY <1>1, <1>6, NewSetIsRight
    <3>2. /\ \A d \in torn' : d.made < Cardinality(torn')
          /\ \A r \in Resources : new[r] # None => new[r] \notin torn' /\ new[r].made <= Cardinality(torn')
      BY <1>1, <1>6, <2>1, TearsDownRight
    <3> QED BY <2>3, <3>1, <3>2 DEF ComingIsAlive
  <2> QED BY <2>4, <2>5, <2>6
<1> QED BY <1>5, <1>6

LEMMA DefinitionsStay ==
    ASSUME RefersBy = "cluster", ExportIInv, ServedIInv, [Next]_vars
    PROVE  DefinitionsTyped' /\ DefinitionsSettled' /\ ComingIsAlive'
<1>t. DefinitionsTyped /\ DefinitionsSettled /\ ComingIsAlive
  BY DEF ServedIInv, ServedTypeOK, DefinitionsTyped
<1>u. ASSUME UNCHANGED definitions
      PROVE  DefinitionsTyped' /\ Coming' = Coming /\ ComingIsAlive'
  <2>1. Coming' = Coming BY <1>u DEF Coming, definitions
  <2> QED BY <1>t, <1>u, <2>1 DEF DefinitionsTyped, ComingIsAlive, definitions
<1>1. CASE DefinitionsProcess BY <1>1, DefinitionsAreMade
<1>2. CASE DefinitionsSwap
  <2>1. /\ defining # None /\ served' = defining /\ defining' = None
        /\ UNCHANGED <<targetSeen, exportSeen, schemasSeen, queue, torn, untold>>
    BY <1>2 DEF DefinitionsSwap, caches
  <2>2. Coming' = Coming BY <2>1 DEF Coming
  <2>3. \A r \in Resources : Found(r)' = Found(r) BY <2>1, FoundSame
  <2>4. DefinitionsTyped' BY <1>t, <2>1 DEF DefinitionsTyped
  <2>5. DefinitionsSettled' BY <1>t, <2>1, <2>2, <2>3, DefinitionsFrame
  <2>6. ComingIsAlive' BY <1>t, <2>1, <2>2 DEF ComingIsAlive
  <2> QED BY <2>4, <2>5, <2>6
<1>3. CASE SeeTarget BY <1>3, <1>u, DefinitionsOfSeen DEF SeeTarget
<1>4. CASE SeeExport
  <2>1. UNCHANGED <<targetSeen, definitions, untold>> /\ queue \subseteq queue' BY <1>4 DEF SeeExport
  <2>2. Refers(targetSeen) => "definitions" \in queue'
    BY <1>4 DEF SeeExport, OfExport, EnqueueDefinitions, KnownByExport
  <2> QED BY <1>t, <1>u, <2>1, <2>2, DefinitionsHear
<1>5. ASSUME NEW s \in schemas \cup schemasSeen, SeeSchema(s)
      PROVE  DefinitionsTyped' /\ DefinitionsSettled' /\ ComingIsAlive'
  <2>1. UNCHANGED <<targetSeen, definitions, untold>> /\ queue \subseteq queue' BY <1>5 DEF SeeSchema
  <2>2. CASE s.name \in Listed(exportSeen)
    <3>1. Refers(targetSeen) => "definitions" \in queue'
      BY <1>5, <2>2 DEF SeeSchema, OfExport, EnqueueDefinitions, KnownByExport
    <3> QED BY <1>t, <1>u, <2>1, <3>1, DefinitionsHear
  <2>3. CASE s.name \notin Listed(exportSeen)
    <3>1. \A r \in Resources : Found(r)' = Found(r) BY <1>5, <2>3, UnlistedIsNotFound
    <3> QED BY <1>t, <1>u, <2>1, <3>1, DefinitionsFrame
  <2> QED BY <2>2, <2>3
<1>6. CASE \/ ExportProcess \/ ExportRequestFails \/ TargetProcess
           \/ \E s \in work.create : CreateAPIResourceSchema(s)
           \/ \E u \in work.update : UpdateAPIExport(u)
           \/ \E n \in work.delete : DeleteAPIResourceSchema(n)
           \/ \E r \in Resources : SeeNegotiated(r) \/ SeeImport(r) \/ Negotiate(r) \/ CleanUpNegotiated(r)
           \/ \E r \in Resources : ListResource(r) \/ ImportAPI(r) \/ DeleteImport(r)
           \/ SetIdentity \/ CreateTarget \/ SetExports \/ DeleteTarget
  <2>1. UNCHANGED <<targetSeen, exportSeen, schemasSeen, definitions>> /\ untold'.refers = untold.refers
    BY <1>6 DEF ExportProcess, ExportRequestFails, TargetProcess, CreateAPIResourceSchema,
                UpdateAPIExport, DeleteAPIResourceSchema, SeeNegotiated, SeeImport, Negotiate, CleanUpNegotiated,
                ListResource, ImportAPI, DeleteImport, SetIdentity, CreateTarget, SetExports, DeleteTarget, caches, ServedIInv, ServedTypeOK
  <2>2. "definitions" \in queue => "definitions" \in queue'
    BY <1>6 DEF ExportProcess, ExportRequestFails, TargetProcess, CreateAPIResourceSchema,
                UpdateAPIExport, DeleteAPIResourceSchema, SeeNegotiated, SeeImport, Negotiate, CleanUpNegotiated,
                ListResource, ImportAPI, DeleteImport, SetIdentity, CreateTarget, SetExports, DeleteTarget, Idle
  <2>3. \A r \in Resources : Found(r)' = Found(r) BY <2>1, FoundSame
  <2> QED BY <1>t, <1>u, <2>1, <2>2, <2>3, DefinitionsFrame
<1>7. CASE UNCHANGED vars
  <2>1. UNCHANGED <<targetSeen, exportSeen, schemasSeen, definitions, queue, untold>> BY <1>7 DEF vars, definitions
  <2>2. \A r \in Resources : Found(r)' = Found(r) BY <2>1, FoundSame
  <2> QED BY <1>t, <1>u, <2>1, <2>2, DefinitionsFrame
<1> QED BY <1>1, <1>2, <1>3, <1>4, <1>5, <1>6, <1>7 DEF Next

-----------------------------------------------------------------------------
(* The history is one. *)
LEMMA UntoldTyped ==
    ASSUME ServedIInv, [Next]_vars
    PROVE  untold' \in [target : BOOLEAN, refers : BOOLEAN, imports : SUBSET Resources]
<1> DEFINE T == [target : BOOLEAN, refers : BOOLEAN, imports : SUBSET Resources]
<1>1. untold \in T BY DEF ServedIInv, ServedTypeOK
<1>2. CASE TargetProcess \/ DefinitionsProcess BY <1>1, <1>2 DEF TargetProcess, DefinitionsProcess
<1>3. CASE SeeTarget
  <2>1. \E a, b \in BOOLEAN : untold' = [untold EXCEPT !.target = a, !.refers = b]
    BY <1>1, <1>3 DEF SeeTarget, MadeAnew
  <2> QED BY <1>1, <2>1
<1>4. CASE \E r \in Resources : SeeImport(r)
  <2>1. \E S \in SUBSET Resources : untold' = [untold EXCEPT !.imports = S] BY <1>1, <1>4 DEF SeeImport
  <2> QED BY <1>1, <2>1
<1>5. CASE UNCHANGED untold BY <1>1, <1>5
<1>6. CASE \/ ExportProcess \/ ExportRequestFails \/ DefinitionsSwap
           \/ \E s \in work.create : CreateAPIResourceSchema(s)
           \/ \E u \in work.update : UpdateAPIExport(u)
           \/ \E n \in work.delete : DeleteAPIResourceSchema(n)
           \/ SeeExport \/ \E s \in schemas \cup schemasSeen : SeeSchema(s)
           \/ \E r \in Resources : SeeNegotiated(r) \/ Negotiate(r) \/ CleanUpNegotiated(r)
           \/ \E r \in Resources : ListResource(r) \/ ImportAPI(r) \/ DeleteImport(r)
           \/ SetIdentity \/ CreateTarget \/ SetExports \/ DeleteTarget
  <2>1. UNCHANGED untold
    BY <1>6 DEF ExportProcess, ExportRequestFails, DefinitionsSwap, CreateAPIResourceSchema,
                UpdateAPIExport, DeleteAPIResourceSchema, SeeExport, SeeSchema, SeeNegotiated, Negotiate,
                CleanUpNegotiated, ListResource, ImportAPI, DeleteImport, SetIdentity, CreateTarget,
                SetExports, DeleteTarget
  <2> QED BY <1>5, <2>1
<1>7. CASE UNCHANGED vars BY <1>5, <1>7 DEF vars
<1> QED BY <1>2, <1>3, <1>4, <1>6, <1>7 DEF Next

LEMMA ServedStarts == ASSUME Init PROVE ServedIInv
<1>1. /\ target = [uid |-> 0, refers |-> TRUE, synced |-> NoDefinitions] /\ targetSeen = target
      /\ schemas = {} /\ schemasSeen = {} /\ work = NoWork /\ queue = Controllers
      /\ served = NoDefinitions /\ defining = None /\ torn = {} /\ events = 0
      /\ imports = [r \in Resources |-> None] /\ importsSeen = imports
      /\ untold = [target |-> FALSE, refers |-> FALSE, imports |-> {}]
  BY DEF Init
<1>2. target \in SyncTargets BY <1>1 DEF SyncTargets, NoDefinitions
<1>3. NoDefinitions \in DefinitionSets BY DEF NoDefinitions, DefinitionSets
<1>4. ServedTypeOK BY <1>1, <1>2, <1>3, FS_EmptySet DEF ServedTypeOK
<1>5. work.create = {} BY <1>1 DEF NoWork
<1>6. SchemasAreImmutable BY <1>1, <1>5 DEF SchemasAreImmutable
<1>7. ExportSettled /\ TargetSettled /\ DefinitionsSettled
  BY <1>1 DEF ExportSettled, TargetSettled, DefinitionsSettled, Controllers
<1>8. UidsAreOld /\ ImportsGrow BY <1>1 DEF UidsAreOld, ImportsGrow
<1>9. ComingIsAlive BY <1>1 DEF ComingIsAlive, Coming, NoDefinitions
<1> QED BY <1>4, <1>6, <1>7, <1>8, <1>9 DEF ServedIInv

(* The three controllers, their caches and the definitions of the virtual   *)
(* workspace hang together as ServedIInv says, if the target names the      *)
(* export by its cluster: whatever users, clusters and the negotiation do,  *)
(* and although the handlers of SyncTargets and imports drop events.        *)
THEOREM ServedInvariant ==
    ASSUME RefersBy = "cluster"
    PROVE  Spec => [](ExportIInv /\ ServedIInv)
<1>1. Init => ExportIInv /\ ServedIInv BY ExportStarts, ServedStarts
<1>2. ExportIInv /\ ServedIInv /\ [Next]_vars => (ExportIInv /\ ServedIInv)'
  <2>1. SUFFICES ASSUME ExportIInv, ServedIInv, [Next]_vars PROVE ExportIInv' /\ ServedIInv' OBVIOUS
  <2>2. ExportIInv' BY <2>1, ExportStays
  <2>3. SchemasAreImmutable' /\ schemasSeen' \subseteq Schemas BY <2>1, ImmutableStays DEF ServedIInv
  <2>4. ExportSettled' BY <2>1, ExportSettledStays
  <2>5. /\ target' \in SyncTargets \cup {None} /\ targetSeen' \in SyncTargets \cup {None}
        /\ events' \in Nat /\ UidsAreOld' /\ TargetSettled'
    BY <2>1, TargetStays
  <2>6. DefinitionsTyped' /\ DefinitionsSettled' /\ ComingIsAlive' BY <2>1, DefinitionsStay
  <2>7. /\ imports' \in [Resources -> APIResourceImports \cup {None}]
        /\ importsSeen' \in [Resources -> APIResourceImports \cup {None}] /\ ImportsGrow'
    BY <2>1, ImportsStay
  <2>8. untold' \in [target : BOOLEAN, refers : BOOLEAN, imports : SUBSET Resources] BY <2>1, UntoldTyped
  <2>9. ServedTypeOK' BY <2>3, <2>5, <2>6, <2>7, <2>8 DEF ServedTypeOK, DefinitionsTyped
  <2> QED BY <2>2, <2>3, <2>4, <2>5, <2>6, <2>7, <2>9 DEF ServedIInv
<1> QED BY <1>1, <1>2, PTL DEF Spec

LEMMA QuietIsDefined ==
    ASSUME ExportIInv, ServedIInv, Quiet
    PROVE  QuietMeansDefined
<1>q. /\ negSeen = neg /\ exportSeen = export /\ schemasSeen = schemas
      /\ targetSeen = target /\ importsSeen = imports
      /\ queue = {} /\ work = NoWork /\ defining = None
  BY DEF Quiet
<1>1. ASSUME NEW r \in Resources
      PROVE  /\ \A s \in Latest(r) : neg[r] # None => s.fields = neg[r].fields
             /\ (NamesOf(export, r) # {} /\ neg[r] # None) => Latest(r) # {}
             /\ target = None \/ AllTold(r) => ServedRightly(r)
  <2>1. Latest(r) = Found(r) BY <1>q DEF Found, CachedSchema, Latest
  <2>2. \A n \in Listed(export) : negSeen[ResourceOf(n)] # None =>
           \E s \in schemas : s.name = n /\ s.fields = negSeen[ResourceOf(n)].fields
    BY <1>q DEF ServedIInv, ExportSettled, NoWork
  <2>3. ASSUME NEW s \in Latest(r), neg[r] # None PROVE s.fields = neg[r].fields
    <3>1. s \in schemas /\ s.name \in Listed(export) /\ ResourceOf(s.name) = r BY DEF Latest, NamesOf
    <3>2. PICK t \in schemas : t.name = s.name /\ t.fields = negSeen[r].fields BY <1>q, <2>2, <2>3, <3>1
    <3>3. t = s BY <3>1, <3>2 DEF ServedIInv, SchemasAreImmutable
    <3> QED BY <1>q, <3>2, <3>3
  <2>4. (NamesOf(export, r) # {} /\ neg[r] # None) => Latest(r) # {}
    BY <1>q, <2>2 DEF NamesOf, Latest
  <2>5. \A s, t \in Latest(r) : s = t
    BY DEF ServedIInv, SchemasAreImmutable, ExportIInv, ListIsRight, OnePerResource, NamesOf, Latest
  <2>6. Coming = served BY <1>q DEF Coming
  <2>7. served[r] # None => served[r] \notin torn BY <2>6 DEF ServedIInv, ComingIsAlive
  <2>8. CASE target = None
    <3>1. served[r] = None BY <1>q, <2>6, <2>8 DEF ServedIInv, DefinitionsSettled, NoDefinitions
    <3> QED BY <2>3, <2>4, <2>8, <3>1 DEF ServedRightly, Wanted
  <2>9. ASSUME target # None, AllTold(r) PROVE ServedRightly(r)
    <3>1. target.synced[r] = SyncedResources(target.refers)[r]
      BY <1>q, <2>9 DEF ServedIInv, TargetSettled, AllTold
    <3>2. target.synced[r] = IF ~target.refers \/ Latest(r) = {} THEN None
                             ELSE [state |-> StateOf(AnyOf(Latest(r))), identity |-> export.identity]
      BY <1>q, <2>1, <3>1 DEF SyncedResources
    <3>3. /\ AcceptedIdentity(r) = None => served[r] = None
          /\ AcceptedIdentity(r) # None /\ target.refers =>
               /\ served[r] = None <=> Latest(r) = {}
               /\ served[r] # None => /\ \E s \in Latest(r) : served[r].name = s.name
                                      /\ served[r].identity = AcceptedIdentity(r)
      BY <1>q, <2>1, <2>6, <2>9 DEF ServedIInv, DefinitionsSettled, AllTold
    <3>4. CASE ~target.refers \/ Latest(r) = {}
      <4>1. AcceptedIdentity(r) = None BY <1>q, <3>2, <3>4 DEF AcceptedIdentity
      <4>2. served[r] = None /\ ~Wanted(r) BY <3>3, <3>4, <4>1 DEF Wanted
      <4> QED BY <4>2 DEF ServedRightly
    <3>5. CASE target.refers /\ Latest(r) # {}
      <4> DEFINE s == AnyOf(Latest(r))
      <4>1. s \in Latest(r) BY <3>5, AnyIsOne
      <4>2. ResourceOf(s.name) = r BY <4>1 DEF Latest, NamesOf
      <4>3. Wanted(r) <=> imports[r] # None /\ s.fields \subseteq imports[r].fields
        BY <2>5, <2>9, <3>5, <4>1 DEF Wanted
      <4>4. StateOf(s) = IF Wanted(r) THEN "Accepted" ELSE "Incompatible"
        BY <1>q, <4>2, <4>3 DEF StateOf
      <4>5. target.synced[r] = [state |-> StateOf(s), identity |-> export.identity] BY <3>2, <3>5
      <4>6. export.identity \in {0, 1} BY DEF ExportIInv, ExportTypeOK, Exports
      <4>7. target.synced[r] # None
        <5>1. StateOf(s) \in {"Accepted", "Incompatible"} BY <4>4
        <5> HIDE DEF s
        <5> QED BY <4>5, <4>6, <5>1, NoneIsNoObject
      <4> HIDE DEF s
      <4>8. AcceptedIdentity(r) = IF Wanted(r) THEN export.identity ELSE None
        BY <1>q, <4>4, <4>5, <4>7 DEF AcceptedIdentity
      <4>9. export.identity # None BY <4>6, NoneIsNoObject
      <4>10. Wanted(r) <=> served[r] # None BY <3>3, <3>5, <4>8, <4>9
      <4>11. Wanted(r) => /\ \E t \in Latest(r) : t.name = served[r].name
                          /\ served[r].identity = export.identity
        BY <3>3, <3>5, <4>8, <4>9, <4>10
      <4> QED BY <2>7, <4>10, <4>11 DEF ServedRightly
    <3> QED BY <3>4, <3>5
  <2> QED BY <2>3, <2>4, <2>8, <2>9
<1> QED BY <1>1 DEF QuietMeansDefined

(* When there is nothing left to do the syncer is served exactly what was   *)
(* negotiated, asked for and accepted, for any number of APIs, whatever     *)
(* order the three controllers see changes in, and no definition that       *)
(* serves has been torn down; for the APIs of which the last passes have    *)
(* been told everything: not for a target that was made anew or another     *)
(* list of exports, which the handlers take for no change.                  *)
THEOREM ServedIsRight ==
    ASSUME RefersBy = "cluster"
    PROVE  Spec => []QuietMeansDefined
<1>1. ExportIInv /\ ServedIInv => QuietMeansDefined
  BY QuietIsDefined DEF QuietMeansDefined
<1> QED BY <1>1, ServedInvariant, PTL

=============================================================================
