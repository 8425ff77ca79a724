--------------------------- MODULE Upsync_proofs ---------------------------
(***************************************************************************)
(* The upsynced object mirrors the one on the cluster, for every number of *)
(* versions and every sequence of events.                                  *)
(***************************************************************************)
EXTENDS Upsync, SequenceTheorems, TLAPS

(* A step of the abstract copy, or none.                                    *)
MirrorStep == M!MirrorNext \/ UNCHANGED <<Content(down), rv, Content(up)>>

-----------------------------------------------------------------------------
(* Being behind *)

LEMMA BehindTransitive ==
    ASSUME NEW o, NEW p, NEW q,
           o # NoObject => o.rv \in Nat /\ o.spec \in Nat,
           p # NoObject, p.rv \in Nat, p.spec \in Nat,
           q # NoObject => q.rv \in Nat /\ q.spec \in Nat,
           Behind(o, p), Behind(p, q)
    PROVE  Behind(o, q)
  BY DEF Behind

(* The numbers that the caches and the workspace hold.                      *)
LEMMA Numbers ==
    ASSUME TypeOK
    PROVE  /\ \A o \in {down, downSeen, up, upSeen, copy.obj} :
                 o # NoObject => o.rv \in Nat /\ o.spec \in Nat
           /\ rv \in Nat /\ copy.rv \in Nat
  BY Constants DEF TypeOK, Downstream, Upstream, Copies, RVs

(* Who acts has seen the object.                                            *)
LEMMA ActorsHaveSeen ==
    ASSUME UnseenIsNew, UNCHANGED <<down, downSeen>>,
           queue # {} \/ notices # <<>> \/ \E c \in Controllers : step[c] # "idle"
    PROVE  UnseenIsNew' /\ (down # NoObject => downSeen # NoObject)
  BY DEF UnseenIsNew

(* A step that changes nothing on the cluster or in the workspace.          *)
LEMMA NothingMoves ==
    ASSUME UNCHANGED <<down, rv, up>>
    PROVE  MirrorStep
  BY DEF MirrorStep, Content

-----------------------------------------------------------------------------
LEMMA InitKeeps == Init => IInv /\ M!MirrorInit
  <1> SUFFICES ASSUME Init PROVE IInv /\ M!MirrorInit
    OBVIOUS
  <1>1. TypeOK
    <2>1. 0 \in RVs /\ 1 \in RVs
      BY Constants DEF RVs
    <2>2. \A s \in {0, 1} : [rv |-> 1, spec |-> 1, status |-> s, del |-> FALSE] \in Downstream
      BY <2>1 DEF Downstream
    <2>3. down \in Downstream \cup {NoObject}
      BY <2>2 DEF Init
    <2>4. copy \in Copies
      BY <2>1 DEF Init, Copies
    <2>5. step \in [Controllers -> Steps]
      BY DEF Init, Steps
    <2>6. notices \in Seq(BOOLEAN)
      BY DEF Init
    <2> QED BY <2>1, <2>3, <2>4, <2>5, <2>6 DEF Init, TypeOK
  <1>2. down # NoObject => down.spec = 1 /\ down.rv = 1
    BY DEF Init
  <1>3. Numbered /\ Flow /\ UnseenIsNew /\ NamespaceHolds /\ OnlyOrphansGo /\ FreshExists
    BY <1>2 DEF Init, Numbered, Flow, Behind, Pushing, Removing, Controllers, UnseenIsNew,
                NamespaceHolds, OnlyOrphansGo, FreshExists
  <1>4. M!MirrorInit
    BY <1>2 DEF Init, M!MirrorInit, Content
  <1> QED BY <1>1, <1>3, <1>4 DEF IInv

-----------------------------------------------------------------------------
(* The upsyncer *)

LEMMA ProcessKeeps ==
    ASSUME IInv, Process
    PROVE  IInv' /\ MirrorStep
  <1> USE DEF IInv
  <1> DEFINE o == DownstreamResource
  <1>1. /\ step["upsync"] = "idle" /\ "upsync" \in queue
        /\ queue' = queue \ {"upsync"} /\ dirty' = FALSE
        /\ step' = [step EXCEPT !["upsync"] = NextRequest(o)]
        /\ copy' = [obj |-> o, dirty |-> dirty, rv |-> IF upSeen = NoObject THEN 0 ELSE upSeen.rv]
        /\ UNCHANGED <<down, rv, ns, downSeen, nsSeen, upSeen, notices, nsNotice, up, fresh, gone, events>>
    BY DEF Process, Goto, downVars, caches, calls, upVars
  <1>2. UnseenIsNew' /\ (down # NoObject => downSeen # NoObject)
    BY <1>1, ActorsHaveSeen
  <1>3. o \in {downSeen, NoObject} /\ (down # NoObject => o = downSeen)
    BY DEF DownstreamResource, NamespaceHolds
  <1>4. /\ NextRequest(o) \in {"idle", "create", "get", "delete", "getOrphan"}
        /\ NextRequest(o) = "getOrphan" => o = NoObject
        /\ NextRequest(o) # "getOrphan" => o # NoObject
        /\ NextRequest(o) = "get" => upSeen # NoObject /\ upSeen.rv # o.rv
    BY DEF NextRequest
  <1> HIDE DEF o
  <1>5. step' \in [Controllers -> Steps] /\ step'["upsync"] = NextRequest(o)
        /\ step'["cleanup"] = step["cleanup"]
    BY <1>1, <1>4 DEF TypeOK, Controllers, Steps
  <1>6. copy' \in Copies
    BY <1>1, <1>3, Constants DEF TypeOK, Copies, Upstream, RVs
  <1>7. TypeOK'
    BY <1>1, <1>5, <1>6 DEF TypeOK
  <1>8. Numbered'
    BY <1>1, <1>3, <1>4, <1>5 DEF Numbered, Pushing
  <1>9. Flow'
    BY <1>1, <1>3, <1>4, <1>5, Numbers DEF Flow, Pushing, Behind
  <1>10. OnlyOrphansGo'
    BY <1>1, <1>2, <1>3, <1>4, <1>5 DEF OnlyOrphansGo, Removing, Controllers
  <1>11. NamespaceHolds' /\ FreshExists'
    BY <1>1, <1>4, <1>5 DEF NamespaceHolds, FreshExists, Controllers
  <1> QED BY <1>1, <1>2, <1>7, <1>8, <1>9, <1>10, <1>11, NothingMoves

(* What the lemmas on requests have in common: the cluster, the caches and  *)
(* the calls to come are left alone.                                        *)
Elsewhere == <<down, rv, ns, downSeen, nsSeen, upSeen, notices, nsNotice>>

(* The worker of c ends its work, whatever that was.                        *)
LEMMA EndKeeps ==
    ASSUME IInv, NEW c \in Controllers, step[c] # "idle",
           step' = [step EXCEPT ![c] = "idle"],
           queue' \subseteq Controllers, dirty' \in BOOLEAN, events' \in Nat,
           UNCHANGED <<Elsewhere, up, fresh, gone, copy>>
    PROVE  IInv' /\ MirrorStep
  <1> USE DEF IInv, Elsewhere
  <1>1. /\ step' \in [Controllers -> Steps] /\ step'[c] = "idle"
        /\ \A d \in Controllers : step'[d] \in {step[d], "idle"}
    BY DEF TypeOK, Steps
  <1>2. UnseenIsNew'
    BY ActorsHaveSeen
  <1>3. TypeOK'
    BY <1>1 DEF TypeOK
  <1>4. Numbered' /\ Flow'
    BY <1>1 DEF Numbered, Flow, Pushing, Behind, Controllers
  <1>5. NamespaceHolds' /\ OnlyOrphansGo' /\ FreshExists'
    BY <1>1 DEF NamespaceHolds, OnlyOrphansGo, Removing, FreshExists
  <1> QED BY <1>2, <1>3, <1>4, <1>5, NothingMoves

LEMMA FailKeeps ==
    ASSUME IInv, NEW c \in Controllers, step[c] # "idle", Fail(c), events' \in Nat,
           UNCHANGED <<Elsewhere, up, fresh, gone, copy>>
    PROVE  IInv' /\ MirrorStep
  <1>1. step' = [step EXCEPT ![c] = "idle"] /\ queue' \subseteq Controllers
    BY DEF IInv, TypeOK, Fail, Goto
  <1>2. dirty' \in BOOLEAN
    <2>1. copy.dirty \in BOOLEAN /\ dirty \in BOOLEAN
      BY DEF IInv, TypeOK, Copies
    <2> QED BY <2>1 DEF Fail
  <1> QED BY <1>1, <1>2, EndKeeps

(* The upsyncer writes what it has read from the cluster.                   *)
LEMMA PushKeeps ==
    ASSUME IInv, Pushing, up' \in Upstream, up'.fin \/ (up # NoObject /\ up'.fin = up.fin),
           up'.rv <= copy.obj.rv,
           \/ up'.spec = copy.obj.spec
           \/ up # NoObject /\ up'.rv = up.rv /\ up'.spec = up.spec,
           gone' \in BOOLEAN, fresh' = {"upsync"},
           step' \in [Controllers -> Steps], step'["cleanup"] = step["cleanup"],
           step'["upsync"] \in {"idle", "status", "annotate"},
           queue' \subseteq Controllers, dirty' \in BOOLEAN,
           UNCHANGED <<Elsewhere, copy, events>>
    PROVE  IInv' /\ MirrorStep
  <1> USE DEF IInv, Elsewhere
  <1>1. /\ copy.obj # NoObject /\ copy.obj.spec \in 1 .. rv
        /\ Behind(copy.obj, downSeen) /\ Behind(up, copy.obj)
    BY DEF Numbered, Flow
  <1>2. step["upsync"] # "idle" /\ "upsync" \in Controllers
    BY DEF Pushing, Controllers
  <1>3. UnseenIsNew'
    BY <1>2, ActorsHaveSeen
  <1>4. up' # NoObject /\ up'.rv \in Nat /\ up'.spec \in 1 .. rv
    BY <1>1, NoObjectIsNone, Constants DEF Numbered, Upstream, RVs
  <1>5. TypeOK'
    <2>1. fresh' \subseteq Controllers \cup {"user"}
      BY <1>2
    <2> QED BY <2>1 DEF TypeOK
  <1>6. Behind(up', copy.obj)
    BY <1>1, <1>4, Numbers DEF Behind
  <1>7. Behind(up', downSeen)
    BY <1>1, <1>4, <1>6, Numbers, BehindTransitive
  <1>8. Numbered'
    BY <1>1, <1>4 DEF Numbered
  <1>9. Flow'
    BY <1>1, <1>6, <1>7 DEF Flow
  <1>10. NamespaceHolds' /\ FreshExists'
    BY <1>4 DEF NamespaceHolds, FreshExists, Controllers
  <1>11. OnlyOrphansGo'
    BY DEF OnlyOrphansGo, Removing, Controllers
  <1>12. MirrorStep
    <2>1. Content(up') \in 1 .. rv /\ Content(up') >= Content(up)
      BY <1>1, <1>4, Numbers DEF Content, Behind
    <2>2. M!CopyFollows
      BY <2>1 DEF M!CopyFollows, Content
    <2> QED BY <2>2 DEF MirrorStep, M!MirrorNext
  <1> QED BY <1>3, <1>5, <1>8, <1>9, <1>10, <1>11, <1>12

LEMMA CreateKeeps ==
    ASSUME IInv, Create
    PROVE  IInv' /\ MirrorStep
  <1>1. /\ step["upsync"] = "create" /\ Pushing /\ "upsync" \in Controllers
        /\ UNCHANGED <<Elsewhere, copy, events>> /\ events \in Nat
    BY DEF Create, downVars, caches, calls, Elsewhere, Pushing, Controllers, IInv, TypeOK
  <1>2. CASE up # NoObject
    BY <1>1, <1>2, FailKeeps DEF Create, upVars
  <1>3. CASE up = NoObject
    <2> DEFINE r == IF copy.dirty THEN 0 ELSE copy.obj.rv
    <2>1. /\ up' = [rv |-> r, spec |-> copy.obj.spec, status |-> 0, fin |-> TRUE, del |-> FALSE]
          /\ fresh' = {"upsync"} /\ gone' = (gone \/ (up' = NoObject /\ upSeen # NoObject))
          /\ \/ step' = [step EXCEPT !["upsync"] = "status"]
             \/ step' = [step EXCEPT !["upsync"] = "idle"]
          /\ UNCHANGED <<queue, dirty>>
      BY <1>3 DEF Create, Write, Goto, Finish
    <2>2. copy.obj \in Downstream
      BY <1>1 DEF IInv, TypeOK, Numbered, Copies
    <2>3. r \in RVs /\ 0 \in RVs /\ copy.obj.spec \in RVs /\ r <= copy.obj.rv
      BY <2>2, Constants DEF Downstream, RVs
    <2>4. /\ up' \in Upstream /\ up'.fin /\ up'.rv <= copy.obj.rv /\ up'.spec = copy.obj.spec
      BY <2>1, <2>3 DEF Upstream
    <2>5. /\ step' \in [Controllers -> Steps] /\ step'["cleanup"] = step["cleanup"]
          /\ step'["upsync"] \in {"idle", "status", "annotate"}
      BY <2>1 DEF IInv, TypeOK, Controllers, Steps
    <2>6. gone' \in BOOLEAN /\ queue' \subseteq Controllers /\ dirty' \in BOOLEAN
      BY <2>1 DEF IInv, TypeOK
    <2> HIDE DEF r
    <2> QED BY <1>1, <2>1, <2>4, <2>5, <2>6, PushKeeps
  <1> QED BY <1>2, <1>3

LEMMA GetKeeps ==
    ASSUME IInv, Get
    PROVE  IInv' /\ MirrorStep
  <1>1. /\ step["upsync"] = "get" /\ "upsync" \in Controllers
        /\ UNCHANGED <<Elsewhere, up, gone, copy, events>> /\ events \in Nat
    BY DEF Get, downVars, caches, calls, Elsewhere, Controllers, IInv, TypeOK
  <1>2. CASE up = NoObject
    BY <1>1, <1>2, FailKeeps DEF Get
  <1>3. CASE up # NoObject
    <2> USE DEF IInv, Elsewhere
    <2>1. /\ fresh' = fresh \cup {"upsync"}
          /\ step' = [step EXCEPT !["upsync"] = "update"] /\ UNCHANGED <<queue, dirty>>
      BY <1>3 DEF Get, Goto
    <2>2. /\ step' \in [Controllers -> Steps] /\ step'["cleanup"] = step["cleanup"]
          /\ step'["upsync"] = "update"
      BY <2>1 DEF TypeOK, Controllers, Steps
    <2>3. TypeOK'
      <3>1. fresh' \subseteq Controllers \cup {"user"}
        BY <1>1, <2>1 DEF TypeOK
      <3> QED BY <1>1, <2>1, <2>2, <3>1 DEF TypeOK
    <2>4. UnseenIsNew'
      BY <1>1, ActorsHaveSeen
    <2>5. Numbered' /\ Flow'
      BY <1>1, <2>2 DEF Numbered, Flow, Pushing
    <2>6. NamespaceHolds' /\ OnlyOrphansGo' /\ FreshExists'
      BY <1>1, <1>3, <2>2 DEF NamespaceHolds, OnlyOrphansGo, Removing, FreshExists, Controllers
    <2> QED BY <1>1, <2>3, <2>4, <2>5, <2>6, NothingMoves
  <1> QED BY <1>2, <1>3

LEMMA UpdateKeeps ==
    ASSUME IInv, Update
    PROVE  IInv' /\ MirrorStep
  <1>1. /\ step["upsync"] = "update" /\ Pushing /\ "upsync" \in Controllers
        /\ UNCHANGED <<Elsewhere, copy, events>> /\ events \in Nat
    BY DEF Update, downVars, caches, calls, Elsewhere, Pushing, Controllers, IInv, TypeOK
  <1>2. CASE "upsync" \notin fresh
    BY <1>1, <1>2, FailKeeps DEF Update, upVars
  <1>3. CASE "upsync" \in fresh
    <2> DEFINE r == IF copy.dirty THEN copy.rv ELSE copy.obj.rv
    <2>1. /\ up' = [up EXCEPT !.rv = r, !.spec = copy.obj.spec, !.fin = TRUE]
          /\ fresh' = {"upsync"} /\ gone' = (gone \/ (up' = NoObject /\ upSeen # NoObject))
          /\ \/ step' = [step EXCEPT !["upsync"] = "status"]
             \/ step' = [step EXCEPT !["upsync"] = "idle"]
          /\ queue' \in {queue, queue \cup {"upsync"}} /\ UNCHANGED dirty
      BY <1>3 DEF Update, Write, Goto, Finish, Prepared
    <2>2. copy.obj \in Downstream /\ copy.rv \in RVs /\ copy.rv < copy.obj.rv
      BY <1>1 DEF IInv, TypeOK, Numbered, Copies, Flow
    <2>3. r \in RVs /\ copy.obj.spec \in RVs /\ r <= copy.obj.rv
      BY <2>2, Constants DEF Downstream, RVs
    <2>4. up \in Upstream
      BY <1>1, <1>3 DEF IInv, TypeOK, FreshExists
    <2> HIDE DEF r
    <2>5. /\ up' \in Upstream /\ up'.fin /\ up'.rv <= copy.obj.rv /\ up'.spec = copy.obj.spec
      BY <2>1, <2>3, <2>4 DEF Upstream
    <2>6. /\ step' \in [Controllers -> Steps] /\ step'["cleanup"] = step["cleanup"]
          /\ step'["upsync"] \in {"idle", "status", "annotate"}
      BY <2>1 DEF IInv, TypeOK, Controllers, Steps
    <2>7. gone' \in BOOLEAN /\ queue' \subseteq Controllers /\ dirty' \in BOOLEAN
      BY <1>1, <2>1 DEF IInv, TypeOK
    <2> QED BY <1>1, <2>1, <2>5, <2>6, <2>7, PushKeeps
  <1> QED BY <1>2, <1>3

LEMMA UpdateStatusKeeps ==
    ASSUME IInv, UpdateStatus
    PROVE  IInv' /\ MirrorStep
  <1>1. /\ step["upsync"] = "status" /\ Pushing /\ "upsync" \in Controllers
        /\ UNCHANGED <<Elsewhere, copy, events>> /\ events \in Nat
    BY DEF UpdateStatus, downVars, caches, calls, Elsewhere, Pushing, Controllers, IInv, TypeOK
  <1>2. CASE "upsync" \notin fresh
    BY <1>1, <1>2, FailKeeps DEF UpdateStatus, upVars
  <1>3. CASE "upsync" \in fresh
    <2>1. /\ up' = [up EXCEPT !.status = copy.obj.status]
          /\ fresh' = {"upsync"} /\ gone' = (gone \/ (up' = NoObject /\ upSeen # NoObject))
          /\ step' = [step EXCEPT !["upsync"] = "annotate"]
          /\ UNCHANGED <<queue, dirty>>
      BY <1>3 DEF UpdateStatus, Write, Goto
    <2>2. copy.obj \in Downstream /\ copy.obj.status \in RVs
      BY <1>1 DEF IInv, TypeOK, Numbered, Copies, Downstream
    <2>3. up \in Upstream /\ up # NoObject
      BY <1>1, <1>3 DEF IInv, TypeOK, FreshExists
    <2>4. /\ up' \in Upstream /\ up'.fin = up.fin /\ up'.rv = up.rv /\ up'.spec = up.spec
      BY <2>1, <2>2, <2>3 DEF Upstream
    <2>5. up'.rv <= copy.obj.rv
      BY <1>1, <2>3, <2>4 DEF IInv, Flow, Numbered, Behind
    <2>6. /\ step' \in [Controllers -> Steps] /\ step'["cleanup"] = step["cleanup"]
          /\ step'["upsync"] \in {"idle", "status", "annotate"}
      BY <2>1 DEF IInv, TypeOK, Controllers, Steps
    <2>7. gone' \in BOOLEAN /\ queue' \subseteq Controllers /\ dirty' \in BOOLEAN
      BY <2>1 DEF IInv, TypeOK
    <2> QED BY <1>1, <2>1, <2>3, <2>4, <2>5, <2>6, <2>7, PushKeeps
  <1> QED BY <1>2, <1>3

LEMMA AnnotateKeeps ==
    ASSUME IInv, Annotate
    PROVE  IInv' /\ MirrorStep
  <1>1. /\ step["upsync"] = "annotate" /\ Pushing /\ "upsync" \in Controllers
        /\ UNCHANGED <<Elsewhere, copy, events>> /\ events \in Nat
    BY DEF Annotate, downVars, caches, calls, Elsewhere, Pushing, Controllers, IInv, TypeOK
  <1>2. CASE "upsync" \notin fresh
    BY <1>1, <1>2, FailKeeps DEF Annotate, upVars
  <1>3. CASE "upsync" \in fresh
    <2>1. /\ up' = [up EXCEPT !.rv = copy.obj.rv, !.spec = copy.obj.spec, !.fin = TRUE]
          /\ fresh' = {"upsync"} /\ gone' = (gone \/ (up' = NoObject /\ upSeen # NoObject))
          /\ step' = [step EXCEPT !["upsync"] = "idle"]
          /\ queue' \in {queue, queue \cup {"upsync"}} /\ UNCHANGED dirty
      BY <1>3 DEF Annotate, Write, Goto, Finish, Prepared
    <2>2. copy.obj \in Downstream
      BY <1>1 DEF IInv, TypeOK, Numbered, Copies
    <2>3. up \in Upstream
      BY <1>1, <1>3 DEF IInv, TypeOK, FreshExists
    <2>4. /\ up' \in Upstream /\ up'.fin /\ up'.rv <= copy.obj.rv /\ up'.spec = copy.obj.spec
      <3>1. /\ copy.obj.rv \in RVs /\ copy.obj.spec \in RVs
            /\ copy.obj.rv <= copy.obj.rv
        BY <2>2, Constants DEF Downstream, RVs
      <3>2. up'.rv = copy.obj.rv /\ up'.spec = copy.obj.spec /\ up'.fin /\ up' \in Upstream
        BY <2>1, <2>3, <3>1 DEF Upstream
      <3> QED BY <3>1, <3>2
    <2>5. /\ step' \in [Controllers -> Steps] /\ step'["cleanup"] = step["cleanup"]
          /\ step'["upsync"] \in {"idle", "status", "annotate"}
      BY <2>1 DEF IInv, TypeOK, Controllers, Steps
    <2>6. gone' \in BOOLEAN /\ queue' \subseteq Controllers /\ dirty' \in BOOLEAN
      BY <1>1, <2>1 DEF IInv, TypeOK
    <2> QED BY <1>1, <2>1, <2>4, <2>5, <2>6, PushKeeps
  <1> QED BY <1>2, <1>3

-----------------------------------------------------------------------------
(* Deletions *)

(* What is left of an object after a deletion, or after its finalizers are  *)
(* removed, has the content that it had.                                    *)
LEMMA LeavesContent ==
    ASSUME NEW o \in Upstream
    PROVE  /\ Deleted(o) \in Upstream \cup {NoObject}
           /\ WithoutFinalizers(o) \in Upstream \cup {NoObject}
           /\ \A p \in {Deleted(o), WithoutFinalizers(o)} :
                 p # NoObject => p.rv = o.rv /\ p.spec = o.spec
           /\ o.fin => Deleted(o) # NoObject /\ Deleted(o).fin
  BY NoObjectIsNone DEF Deleted, WithoutFinalizers, Upstream

(* The object in the workspace is removed, or loses its finalizers, with    *)
(* or without a further step of the one who does this.                      *)
LEMMA RemovalKeeps ==
    ASSUME IInv, up # NoObject, NEW w \in Controllers \cup {"user"},
           up' \in {Deleted(up), WithoutFinalizers(up)}, fresh' = {w},
           down # NoObject => up' = Deleted(up),
           gone' = (gone \/ (up' = NoObject /\ upSeen # NoObject)),
           step' \in [Controllers -> Steps],
           \A d \in Controllers : step'[d] \in {step[d], "idle", "deleteOrphan"},
           \A d \in Controllers : d = w => step'[d] \in {"idle", "deleteOrphan"},
           \A d \in Controllers : Removing(d)' => Removing(d),
           UNCHANGED <<Elsewhere, copy, queue, dirty>>, events' \in Nat
    PROVE  IInv' /\ MirrorStep
  <1> USE DEF IInv, Elsewhere
  <1>1. up \in Upstream
    BY DEF TypeOK
  <1>2. /\ up' \in Upstream \cup {NoObject}
        /\ up' # NoObject => up'.rv = up.rv /\ up'.spec = up.spec
        /\ down # NoObject => up' # NoObject /\ up'.fin
    BY <1>1, LeavesContent DEF OnlyOrphansGo
  <1>3. Pushing' => Pushing
    BY DEF Pushing, Controllers
  <1>4. TypeOK'
    BY <1>2 DEF TypeOK
  <1>5. UnseenIsNew'
    BY DEF UnseenIsNew
  <1>6. Numbered'
    BY <1>2, <1>3 DEF Numbered
  <1>7. Flow'
    <2>1. Behind(up', downSeen) /\ (Pushing => Behind(up', copy.obj))
      BY <1>2 DEF Flow, Behind
    <2>2. step'["upsync"] \in {"get", "update"} => step["upsync"] \in {"get", "update"}
      BY DEF Controllers
    <2> QED BY <1>3, <2>1, <2>2 DEF Flow
  <1>8. OnlyOrphansGo' /\ NamespaceHolds'
    BY <1>2 DEF OnlyOrphansGo, NamespaceHolds
  <1>9. FreshExists'
    BY DEF FreshExists
  <1>10. MirrorStep
    <2>1. CASE up' = NoObject
      <3>1. M!CopyGoes
        BY <1>2, <2>1 DEF M!CopyGoes, Content
      <3> QED BY <3>1 DEF MirrorStep, M!MirrorNext
    <2>2. CASE up' # NoObject
      BY <1>2, <2>2 DEF MirrorStep, Content
    <2> QED BY <2>1, <2>2
  <1> QED BY <1>4, <1>5, <1>6, <1>7, <1>8, <1>9, <1>10

LEMMA DeleteKeeps ==
    ASSUME IInv, Delete
    PROVE  IInv' /\ MirrorStep
  <1>1. /\ step["upsync"] = "delete" /\ "upsync" \in Controllers
        /\ step' = [step EXCEPT !["upsync"] = "idle"] /\ UNCHANGED <<queue, dirty>>
        /\ UNCHANGED <<Elsewhere, copy, events>> /\ events \in Nat
    BY DEF Delete, Finish, Goto, downVars, caches, calls, Elsewhere, Controllers, IInv, TypeOK
  <1>2. CASE up = NoObject
    <2>1. UNCHANGED <<up, fresh, gone>> /\ queue \subseteq Controllers /\ dirty \in BOOLEAN
      BY <1>2 DEF Delete, upVars, IInv, TypeOK
    <2> QED BY <1>1, <2>1, EndKeeps
  <1>3. CASE up # NoObject
    <2>1. /\ up' = Deleted(up) /\ fresh' = {"upsync"}
          /\ gone' = (gone \/ (up' = NoObject /\ upSeen # NoObject))
      BY <1>3 DEF Delete, Write
    <2>2. /\ step' \in [Controllers -> Steps] /\ step'["upsync"] = "idle"
          /\ \A d \in Controllers : step'[d] \in {step[d], "idle"}
          /\ \A d \in Controllers : Removing(d)' => Removing(d)
      BY <1>1 DEF IInv, TypeOK, Steps, Removing
    <2> QED BY <1>1, <1>3, <2>1, <2>2, RemovalKeeps
  <1> QED BY <1>2, <1>3

LEMMA CleanupKeeps ==
    ASSUME IInv, Cleanup
    PROVE  IInv' /\ MirrorStep
  <1> USE DEF IInv, Elsewhere
  <1> DEFINE s == IF DownstreamResource = NoObject THEN "getOrphan" ELSE "idle"
  <1>1. /\ "cleanup" \in queue /\ queue' = queue \ {"cleanup"}
        /\ step' = [step EXCEPT !["cleanup"] = s]
        /\ UNCHANGED <<Elsewhere, up, fresh, gone, dirty, copy, events>>
    BY DEF Cleanup, Goto, downVars, caches, calls, upVars
  <1>2. UnseenIsNew' /\ (down # NoObject => downSeen # NoObject)
    BY <1>1, ActorsHaveSeen
  <1>3. down # NoObject => s = "idle"
    BY <1>2 DEF DownstreamResource, NamespaceHolds
  <1>4. s \in {"idle", "getOrphan"}
    OBVIOUS
  <1> HIDE DEF s
  <1>5. /\ step' \in [Controllers -> Steps] /\ step'["upsync"] = step["upsync"]
        /\ step'["cleanup"] = s
    BY <1>1, <1>4 DEF TypeOK, Controllers, Steps
  <1>6. TypeOK'
    BY <1>1, <1>5 DEF TypeOK
  <1>7. Numbered' /\ Flow'
    BY <1>1, <1>5 DEF Numbered, Flow, Pushing
  <1>8. NamespaceHolds' /\ OnlyOrphansGo' /\ FreshExists'
    BY <1>1, <1>3, <1>4, <1>5 DEF NamespaceHolds, OnlyOrphansGo, Removing, FreshExists, Controllers
  <1> QED BY <1>1, <1>2, <1>6, <1>7, <1>8, NothingMoves

LEMMA GetOrphanKeeps ==
    ASSUME IInv, NEW c \in Controllers, GetOrphan(c)
    PROVE  IInv' /\ MirrorStep
  <1>1. /\ step[c] = "getOrphan" /\ UNCHANGED <<queue, dirty>>
        /\ UNCHANGED <<Elsewhere, up, gone, copy, events>> /\ events \in Nat
        /\ queue \subseteq Controllers /\ dirty \in BOOLEAN
    BY DEF GetOrphan, Finish, downVars, caches, calls, Elsewhere, IInv, TypeOK
  <1>2. CASE up = NoObject
    <2>1. step' = [step EXCEPT ![c] = "idle"] /\ UNCHANGED fresh
      BY <1>2 DEF GetOrphan, Finish, Goto
    <2> QED BY <1>1, <2>1, EndKeeps
  <1>3. CASE up # NoObject
    <2> USE DEF IInv, Elsewhere
    <2> DEFINE s == IF up.fin THEN "removeFinalizers" ELSE "deleteOrphan"
    <2>1. fresh' = fresh \cup {c} /\ step' = [step EXCEPT ![c] = s]
      BY <1>3 DEF GetOrphan, Goto
    <2>2. s \in {"removeFinalizers", "deleteOrphan"}
      OBVIOUS
    <2> HIDE DEF s
    <2>3. /\ step' \in [Controllers -> Steps] /\ step'[c] = s
          /\ \A d \in Controllers : d # c => step'[d] = step[d]
      BY <2>1, <2>2 DEF TypeOK, Steps
    <2>4. TypeOK'
      BY <1>1, <2>1, <2>3 DEF TypeOK
    <2>5. UnseenIsNew'
      BY <1>1, ActorsHaveSeen
    <2>6. down = NoObject
      BY <1>1 DEF OnlyOrphansGo, Removing
    <2>7. Numbered' /\ Flow'
      <3>1. step'["upsync"] \in {step["upsync"], "removeFinalizers", "deleteOrphan"}
        BY <2>2, <2>3 DEF Controllers
      <3> QED BY <1>1, <3>1 DEF Numbered, Flow, Pushing
    <2>8. NamespaceHolds' /\ OnlyOrphansGo' /\ FreshExists'
      BY <1>1, <1>3, <2>6 DEF NamespaceHolds, OnlyOrphansGo, FreshExists
    <2> QED BY <1>1, <2>4, <2>5, <2>7, <2>8, NothingMoves
  <1> QED BY <1>2, <1>3

LEMMA RemoveFinalizersKeeps ==
    ASSUME IInv, NEW c \in Controllers, RemoveUpstreamResourceFinalizers(c)
    PROVE  IInv' /\ MirrorStep
  <1>1. /\ step[c] = "removeFinalizers" /\ UNCHANGED <<Elsewhere, copy, events>> /\ events \in Nat
    BY DEF RemoveUpstreamResourceFinalizers, downVars, caches, calls, Elsewhere, IInv, TypeOK
  <1>2. CASE c \notin fresh
    BY <1>1, <1>2, FailKeeps DEF RemoveUpstreamResourceFinalizers, upVars
  <1>3. CASE c \in fresh
    <2>1. /\ up' = WithoutFinalizers(up) /\ fresh' = {c}
          /\ gone' = (gone \/ (up' = NoObject /\ upSeen # NoObject))
          /\ step' = [step EXCEPT ![c] = "deleteOrphan"] /\ UNCHANGED <<queue, dirty>>
      BY <1>3 DEF RemoveUpstreamResourceFinalizers, Write, Goto
    <2>2. up # NoObject /\ Removing(c) /\ down = NoObject
      BY <1>1, <1>3 DEF IInv, FreshExists, OnlyOrphansGo, Removing
    <2>3. /\ step' \in [Controllers -> Steps] /\ step'[c] = "deleteOrphan"
          /\ \A d \in Controllers : d # c => step'[d] = step[d]
      BY <2>1 DEF IInv, TypeOK, Steps
    <2>4. \A d \in Controllers : Removing(d)' => Removing(d)
      BY <2>2, <2>3 DEF Removing
    <2> QED BY <1>1, <2>1, <2>2, <2>3, <2>4, RemovalKeeps
  <1> QED BY <1>2, <1>3

LEMMA DeleteOrphanKeeps ==
    ASSUME IInv, NEW c \in Controllers, DeleteOrphan(c)
    PROVE  IInv' /\ MirrorStep
  <1>1. /\ step[c] = "deleteOrphan" /\ UNCHANGED <<queue, dirty>>
        /\ step' = [step EXCEPT ![c] = "idle"]
        /\ UNCHANGED <<Elsewhere, copy, events>> /\ events \in Nat
    BY DEF DeleteOrphan, Finish, Goto, downVars, caches, calls, Elsewhere, IInv, TypeOK
  <1>2. CASE up = NoObject
    <2>1. UNCHANGED <<up, fresh, gone>> /\ queue \subseteq Controllers /\ dirty \in BOOLEAN
      BY <1>2 DEF DeleteOrphan, upVars, IInv, TypeOK
    <2> QED BY <1>1, <2>1, EndKeeps
  <1>3. CASE up # NoObject
    <2>1. /\ up' = Deleted(up) /\ fresh' = {c}
          /\ gone' = (gone \/ (up' = NoObject /\ upSeen # NoObject))
      BY <1>3 DEF DeleteOrphan, Write
    <2>2. /\ step' \in [Controllers -> Steps] /\ step'[c] = "idle"
          /\ \A d \in Controllers : step'[d] \in {step[d], "idle"}
          /\ \A d \in Controllers : Removing(d)' => Removing(d)
      BY <1>1 DEF IInv, TypeOK, Steps, Removing
    <2> QED BY <1>1, <1>3, <2>1, <2>2, RemovalKeeps
  <1> QED BY <1>2, <1>3

-----------------------------------------------------------------------------
(* Informers *)

(* What the workers have, and what is in the workspace.                     *)
Workers == <<up, fresh, step, copy>>

(* The cache takes the object of the cluster.                               *)
LEMMA CacheFollows ==
    ASSUME IInv, downSeen # NoObject
    PROVE  /\ Behind(up, down) /\ Behind(down, down)
           /\ upSeen # NoObject /\ down # NoObject => upSeen.rv <= down.rv
           /\ Pushing => Behind(copy.obj, down)
  <1> USE DEF IInv
  <1>1. Behind(downSeen, down) /\ Behind(up, downSeen) /\ (Pushing => Behind(copy.obj, downSeen))
    BY DEF Flow
  <1>2. Behind(up, down) /\ (Pushing => Behind(copy.obj, down))
    BY <1>1, Numbers, BehindTransitive
  <1>3. Behind(down, down)
    BY Numbers DEF Behind
  <1>4. upSeen # NoObject /\ down # NoObject => upSeen.rv <= down.rv
    BY <1>1, Numbers DEF Flow, Behind
  <1> QED BY <1>2, <1>3, <1>4

LEMMA DeliverDownstreamKeeps ==
    ASSUME IInv, DeliverDownstream
    PROVE  IInv' /\ MirrorStep
  <1> USE DEF IInv
  <1>1. /\ downSeen' = down /\ notices' = Append(notices, DirtyStatus(downSeen, down))
        /\ UNCHANGED <<down, rv, ns, nsSeen, upSeen, nsNotice, gone, queue, dirty, events>>
        /\ UNCHANGED Workers
    BY DEF DeliverDownstream, downVars, upVars, Workers
  <1> USE DEF Workers
  <1>2. notices' \in Seq(BOOLEAN)
    BY <1>1 DEF TypeOK, DirtyStatus
  <1>3. TypeOK'
    BY <1>1, <1>2 DEF TypeOK
  <1>4. Numbered' /\ UnseenIsNew' /\ NamespaceHolds' /\ OnlyOrphansGo' /\ FreshExists'
    BY <1>1 DEF Numbered, UnseenIsNew, NamespaceHolds, OnlyOrphansGo, FreshExists, Pushing, Removing
  <1>5. Flow'
    <2>1. CASE downSeen # NoObject
      BY <1>1, <2>1, CacheFollows DEF Flow, Pushing
    <2>2. CASE downSeen = NoObject /\ down = NoObject
      BY <1>1, <2>2 DEF Flow, Behind, Pushing
    <2>3. CASE downSeen = NoObject /\ down # NoObject
      <3>1. up = NoObject /\ upSeen = NoObject /\ step["upsync"] = "idle"
        BY <2>3 DEF UnseenIsNew, Controllers
      <3>2. Behind(down, down)
        BY Numbers DEF Behind
      <3> QED BY <1>1, <3>1, <3>2 DEF Flow, Behind, Pushing
    <2> QED BY <2>1, <2>2, <2>3
  <1> QED BY <1>1, <1>3, <1>4, <1>5, NothingMoves

(* The handlers fill the queue.                                             *)
LEMMA EnqueueDownstreamKeeps ==
    ASSUME IInv, EnqueueDownstream
    PROVE  IInv' /\ MirrorStep
  <1> USE DEF IInv, Workers
  <1>1. /\ notices # <<>> /\ notices' = Tail(notices)
        /\ queue' \in {queue, queue \cup {"upsync"}} /\ dirty' \in {dirty, dirty \/ Head(notices)}
        /\ UNCHANGED <<down, rv, ns, downSeen, nsSeen, upSeen, nsNotice, gone, events, Workers>>
    BY DEF EnqueueDownstream, downVars, caches, upVars
  <1>2. notices' \in Seq(BOOLEAN) /\ Head(notices) \in BOOLEAN
    <2>1. notices \in Seq(BOOLEAN)
      BY DEF TypeOK
    <2> QED BY <1>1, <2>1, HeadTailProperties, Zenon
  <1>3. dirty' \in BOOLEAN
    BY <1>1, <1>2 DEF TypeOK
  <1>4. TypeOK'
    BY <1>1, <1>2, <1>3 DEF TypeOK, Controllers
  <1>5. UnseenIsNew'
    BY <1>1, ActorsHaveSeen
  <1>6. Numbered' /\ Flow' /\ NamespaceHolds' /\ OnlyOrphansGo' /\ FreshExists'
    BY <1>1 DEF Numbered, Flow, NamespaceHolds, OnlyOrphansGo, FreshExists, Pushing, Removing
  <1> QED BY <1>1, <1>4, <1>5, <1>6, NothingMoves

LEMMA NamespaceKeeps ==
    ASSUME IInv, DeliverNamespace \/ EnqueueDeletedDownstreamNamespace
    PROVE  IInv' /\ MirrorStep
  <1> USE DEF IInv, Workers
  <1>1. /\ nsSeen' \in {nsSeen, ns} /\ nsNotice' \in BOOLEAN
        /\ queue' \in {queue, queue \cup {"upsync"}}
        /\ upSeen = NoObject => queue' = queue
        /\ UNCHANGED <<down, rv, ns, downSeen, upSeen, notices, gone, dirty, events, Workers>>
    BY DEF DeliverNamespace, EnqueueDeletedDownstreamNamespace, downVars, caches, upVars
  <1>2. TypeOK'
    BY <1>1 DEF TypeOK, Controllers
  <1>3. UnseenIsNew' /\ NamespaceHolds'
    BY <1>1 DEF UnseenIsNew, NamespaceHolds
  <1>4. Numbered' /\ Flow' /\ OnlyOrphansGo' /\ FreshExists'
    BY <1>1 DEF Numbered, Flow, OnlyOrphansGo, FreshExists, Pushing, Removing
  <1> QED BY <1>1, <1>2, <1>3, <1>4, NothingMoves

LEMMA DeliverUpstreamKeeps ==
    ASSUME IInv, DeliverUpstream
    PROVE  IInv' /\ MirrorStep
  <1> USE DEF IInv, Workers
  <1>1. /\ upSeen' \in {NoObject, up} /\ gone' = FALSE
        /\ queue' \in {queue, queue \cup {"cleanup"}}
        /\ upSeen' = NoObject => queue' = queue
        /\ UNCHANGED <<down, rv, ns, downSeen, nsSeen, notices, nsNotice, dirty, events, Workers>>
    BY DEF DeliverUpstream, SeenUpstream, downVars, calls
  <1>2. TypeOK'
    BY <1>1 DEF TypeOK, Controllers
  <1>3. UnseenIsNew' /\ NamespaceHolds'
    BY <1>1 DEF UnseenIsNew, NamespaceHolds
  <1>4. Flow'
    BY <1>1 DEF Flow, Behind, Pushing
  <1>5. Numbered' /\ OnlyOrphansGo' /\ FreshExists'
    BY <1>1 DEF Numbered, OnlyOrphansGo, FreshExists, Pushing, Removing
  <1> QED BY <1>1, <1>2, <1>3, <1>4, <1>5, NothingMoves

-----------------------------------------------------------------------------
(* The environment *)

(* A new version on the cluster, with the content of the last one or new.   *)
LEMMA DownstreamChangesKeeps ==
    ASSUME IInv, NEW kind, NEW obj \in Downstream, down # NoObject, DownstreamChanges(kind, obj),
           obj.rv = rv + 1, obj.spec \in {down.spec, rv + 1}
    PROVE  IInv' /\ MirrorStep
  <1> USE DEF IInv, Workers
  <1>1. /\ rv < MaxRV /\ rv' = rv + 1 /\ down' = obj /\ events' = events + 1
        /\ UNCHANGED <<ns, downSeen, nsSeen, upSeen, notices, nsNotice, gone, queue, dirty, Workers>>
    BY DEF DownstreamChanges, Event, Unseen, caches, calls, upVars
  <1>2. rv \in Nat /\ rv' \in RVs /\ obj # NoObject
    BY <1>1, Constants, NoObjectIsNone DEF TypeOK, RVs
  <1>3. TypeOK'
    BY <1>1, <1>2 DEF TypeOK
  <1>4. Numbered'
    <2>1. down.spec \in 1 .. rv /\ 1 .. rv \subseteq 1 .. rv' /\ rv <= rv' /\ rv + 1 \in 1 .. rv'
      BY <1>1, <1>2 DEF Numbered
    <2>2. downSeen # NoObject => downSeen.spec \in 1 .. rv' /\ downSeen.rv <= rv'
      BY <1>1, <1>2, <2>1, Numbers DEF Numbered
    <2>3. down'.spec \in 1 .. rv' /\ down'.rv <= rv'
      BY <1>1, <1>2, <2>1
    <2>4. up # NoObject => up.spec \in 1 .. rv'
      BY <2>1 DEF Numbered
    <2>5. Pushing => copy.obj # NoObject /\ copy.obj.spec \in 1 .. rv'
      BY <2>1 DEF Numbered
    <2> QED BY <1>1, <2>2, <2>3, <2>4, <2>5 DEF Numbered, Pushing
  <1>5. Behind(downSeen, obj)
    BY <1>2, Numbers DEF Flow, Numbered, Behind
  <1>6. Flow'
    BY <1>1, <1>5 DEF Flow, Pushing
  <1>7. UnseenIsNew' /\ NamespaceHolds' /\ OnlyOrphansGo' /\ FreshExists'
    BY <1>1, <1>2 DEF UnseenIsNew, NamespaceHolds, OnlyOrphansGo, FreshExists, Removing
  <1>8. M!SourceChanges
    <2>1. down.spec # 0
      BY DEF Numbered
    <2> QED BY <1>1, <1>2, <2>1 DEF M!SourceChanges, Content
  <1> QED BY <1>3, <1>4, <1>6, <1>7, <1>8 DEF MirrorStep, M!MirrorNext

LEMMA VersionsKeep ==
    ASSUME IInv, Edit \/ StatusChanges \/ Terminate
    PROVE  IInv' /\ MirrorStep
  <1>1. down # NoObject /\ down \in Downstream /\ rv + 1 \in RVs
    BY Constants DEF IInv, TypeOK, RVs, Edit, StatusChanges, Terminate, DownstreamChanges
  <1> DEFINE edited == [down EXCEPT !.rv = rv + 1, !.spec = rv + 1]
             reported == [down EXCEPT !.rv = rv + 1, !.status = rv + 1]
             marked == [down EXCEPT !.rv = rv + 1, !.del = TRUE]
  <1>2. \A o \in {edited, reported, marked} :
           o \in Downstream /\ o.rv = rv + 1 /\ o.spec \in {down.spec, rv + 1}
    BY <1>1 DEF Downstream
  <1>3. CASE Edit
    BY <1>1, <1>2, <1>3, DownstreamChangesKeeps DEF Edit
  <1>4. CASE StatusChanges
    BY <1>1, <1>2, <1>4, DownstreamChangesKeeps DEF StatusChanges
  <1>5. CASE Terminate
    BY <1>1, <1>2, <1>5, DownstreamChangesKeeps DEF Terminate
  <1> QED BY <1>3, <1>4, <1>5

(* The object goes from the cluster, or it was gone.                        *)
LEMMA GoneKeeps ==
    ASSUME IInv, Gone \/ NamespaceGoes
    PROVE  IInv' /\ MirrorStep
  <1> USE DEF IInv, Workers
  <1>1. /\ down' = NoObject /\ ns' \in {ns, FALSE} /\ events' \in Nat
        /\ UNCHANGED <<rv, downSeen, nsSeen, upSeen, notices, nsNotice, gone, queue, dirty, Workers>>
    <2>1. events \in Nat
      BY DEF TypeOK
    <2>2. CASE Gone
      BY <2>1, <2>2 DEF Gone, Unseen, caches, calls, upVars
    <2>3. CASE NamespaceGoes
      <3>1. events' \in Nat
        BY <2>1, <2>3 DEF NamespaceGoes, Event
      <3> QED BY <2>3, <3>1 DEF NamespaceGoes, Unseen, caches, calls, upVars
    <2> QED BY <2>2, <2>3
  <1>2. TypeOK'
    BY <1>1 DEF TypeOK
  <1>3. Numbered'
    BY <1>1 DEF Numbered, Pushing
  <1>4. Flow'
    BY <1>1 DEF Flow, Behind, Pushing
  <1>5. NamespaceHolds'
    <2>1. ~nsSeen => ~ns'
      BY <1>1, Zenon DEF NamespaceHolds
    <2> QED BY <1>1, <2>1 DEF NamespaceHolds
  <1>6. UnseenIsNew' /\ OnlyOrphansGo' /\ FreshExists'
    BY <1>1 DEF UnseenIsNew, OnlyOrphansGo, FreshExists
  <1>7. MirrorStep
    <2>1. CASE down = NoObject
      BY <1>1, <2>1, NothingMoves
    <2>2. CASE down # NoObject
      <3>1. M!SourceGoes
        BY <1>1, <2>2 DEF M!SourceGoes, Content, Numbered
      <3> QED BY <3>1 DEF MirrorStep, M!MirrorNext
    <2> QED BY <2>1, <2>2
  <1> QED BY <1>2, <1>3, <1>4, <1>5, <1>6, <1>7

LEMMA UserDeletesKeeps ==
    ASSUME IInv, UserDeletes
    PROVE  IInv' /\ MirrorStep
  <1>1. /\ up # NoObject /\ up' = Deleted(up) /\ fresh' = {"user"}
        /\ gone' = (gone \/ (up' = NoObject /\ upSeen # NoObject))
        /\ UNCHANGED <<Elsewhere, copy, queue, dirty, step>> /\ events' \in Nat
    BY DEF UserDeletes, Write, Event, downVars, caches, calls, Elsewhere, IInv, TypeOK
  <1>2. /\ step' \in [Controllers -> Steps]
        /\ \A d \in Controllers : d # "user" /\ step'[d] = step[d] /\ (Removing(d)' => Removing(d))
    BY <1>1 DEF IInv, TypeOK, Removing, Controllers
  <1> QED BY <1>1, <1>2, RemovalKeeps

LEMMA RequestFailsKeeps ==
    ASSUME IInv, NEW c \in Controllers, RequestFails(c)
    PROVE  IInv' /\ MirrorStep
  <1>1. /\ step[c] # "idle" /\ Fail(c) /\ events' \in Nat
        /\ UNCHANGED <<Elsewhere, up, fresh, gone, copy>>
    BY DEF RequestFails, Event, downVars, caches, calls, upVars, Elsewhere, IInv, TypeOK
  <1> QED BY <1>1, FailKeeps

LEMMA RestartKeeps ==
    ASSUME IInv, Restart
    PROVE  IInv' /\ MirrorStep
  <1> USE DEF IInv
  <1>1. /\ downSeen' = down /\ nsSeen' = ns /\ upSeen' = up
        /\ notices' = IF down = NoObject THEN <<>> ELSE <<down.status # 0>>
        /\ nsNotice' = FALSE /\ queue' \subseteq {"cleanup"} /\ dirty' = FALSE
        /\ step' = [c \in Controllers |-> "idle"] /\ fresh' = {} /\ gone' = FALSE
        /\ events' \in Nat /\ UNCHANGED <<down, rv, ns, up, copy>>
    BY DEF Restart, Event, downVars, TypeOK
  <1>2. notices' \in Seq(BOOLEAN)
    <2>1. \A b \in BOOLEAN : <<b>> \in Seq(BOOLEAN)
      OBVIOUS
    <2>2. <<>> \in Seq(BOOLEAN) /\ (down.status # 0) \in BOOLEAN
      OBVIOUS
    <2> QED BY <1>1, <2>1, <2>2, Zenon
  <1>3. step' \in [Controllers -> Steps] /\ \A c \in Controllers : step'[c] = "idle"
    BY <1>1 DEF Steps
  <1>4. TypeOK'
    BY <1>1, <1>2, <1>3 DEF TypeOK, Controllers
  <1>5. Numbered' /\ UnseenIsNew' /\ NamespaceHolds' /\ OnlyOrphansGo' /\ FreshExists'
    BY <1>1, <1>3 DEF Numbered, UnseenIsNew, NamespaceHolds, OnlyOrphansGo, FreshExists, Pushing,
                      Removing, Controllers
  <1>6. Flow'
    <2>1. Behind(up, down) /\ Behind(down, down)
      <3>1. CASE downSeen # NoObject
        BY <3>1, CacheFollows
      <3>2. CASE downSeen = NoObject
        BY <3>2, Numbers DEF UnseenIsNew, Behind
      <3> QED BY <3>1, <3>2
    <2> QED BY <1>1, <1>3, <2>1 DEF Flow, Pushing, Controllers, Behind
  <1> QED BY <1>1, <1>4, <1>5, <1>6, NothingMoves

-----------------------------------------------------------------------------
LEMMA StepKeeps ==
    ASSUME IInv, [Next]_vars
    PROVE  IInv' /\ MirrorStep
  <1>1. CASE Upsyncer
    BY <1>1, ProcessKeeps, CreateKeeps, GetKeeps, UpdateKeeps, UpdateStatusKeeps, AnnotateKeeps,
       DeleteKeeps DEF Upsyncer
  <1>2. CASE Cleanup \/ \E c \in Controllers : Orphan(c)
    BY <1>2, CleanupKeeps, GetOrphanKeeps, RemoveFinalizersKeeps, DeleteOrphanKeeps DEF Orphan
  <1>3. CASE DeliverDownstream \/ DeliverNamespace \/ DeliverUpstream \/ Handlers
    BY <1>3, DeliverDownstreamKeeps, NamespaceKeeps, DeliverUpstreamKeeps, EnqueueDownstreamKeeps
       DEF Handlers
  <1>4. CASE Gone \/ Environment
    BY <1>4, GoneKeeps, VersionsKeep, UserDeletesKeeps, RequestFailsKeeps, RestartKeeps
       DEF Environment
  <1>5. CASE UNCHANGED vars
    <2>1. IInv'
      BY <1>5 DEF vars, IInv, TypeOK, Numbered, Flow, Behind, Pushing, UnseenIsNew, NamespaceHolds,
                  OnlyOrphansGo, Removing, FreshExists
    <2> QED BY <1>5, <2>1, NothingMoves DEF vars
  <1> QED BY <1>1, <1>2, <1>3, <1>4, <1>5 DEF Next

(* The chain of copies, from the cluster through the cache and the worker   *)
(* to the workspace, is in order in every reachable state.                  *)
THEOREM Ordered == Spec => []IInv
  <1>1. Init => IInv
    BY InitKeeps
  <1>2. IInv /\ [Next]_vars => IInv'
    BY StepKeeps
  <1> QED BY <1>1, <1>2, PTL DEF Spec

(* An annotation of the upstream object that names the resourceVersion of   *)
(* the downstream one is true: the main content is the same.                *)
THEOREM AnnotationIsTrue == Spec => []AnnotatedIsUpToDate
  <1>1. IInv => AnnotatedIsUpToDate
    <2> SUFFICES ASSUME IInv, up # NoObject, down # NoObject, up.rv = down.rv
                 PROVE  up.spec = down.spec
      BY DEF AnnotatedIsUpToDate
    <2>1. downSeen # NoObject
      BY DEF IInv, UnseenIsNew
    <2>2. Behind(up, down)
      BY <2>1, CacheFollows
    <2> QED BY <2>2 DEF Behind
  <1> QED BY <1>1, Ordered, PTL

(* Upsyncing implements the abstract copy: what is in the workspace is      *)
(* never removed while there is an object on the cluster, and never goes    *)
(* back, whatever the controllers, caches and users do and in which order.  *)
THEOREM Mirrors == Spec => ImplementsMirror
  <1>1. Init => M!MirrorInit
    BY InitKeeps
  <1>2. IInv /\ [Next]_vars => [M!MirrorNext]_<<Content(down), rv, Content(up)>>
    BY StepKeeps DEF MirrorStep
  <1> QED BY <1>1, <1>2, Ordered, PTL DEF Spec, ImplementsMirror, M!MirrorSpec
=============================================================================
