------------------------------- MODULE Upsync -------------------------------
(***************************************************************************)
(* One object that lives on a physical cluster and is pushed up into a     *)
(* workspace (a PersistentVolume, a Pod, Endpoints).                       *)
(*                                                                         *)
(* Two controllers of the syncer write the upstream object: the upsyncer,  *)
(* called by events of the cluster, and the clean-up controller, called    *)
(* when the object is added upstream.  Whether the upstream object is up   *)
(* to date is read off an annotation that holds the downstream             *)
(* resourceVersion; whether its status has to be written is remembered in  *)
(* dirtyStatusKeys, beside the queue.                                      *)
(*                                                                         *)
(* An informer changes its cache first and calls the handlers later.       *)
(***************************************************************************)
EXTENDS Naturals, Sequences

CONSTANTS
    NoObject,
    MaxRV,      \* bound: downstream resourceVersions
    MaxEvents,  \* bound: events of the environment in one behaviour
    Events      \* the kinds of environment events that may happen

EventKinds == {"edit", "status", "terminate", "namespace", "user", "error", "restart"}

ASSUME Constants ==
    /\ MaxRV \in Nat \ {0} /\ MaxEvents \in Nat
    /\ Events \subseteq EventKinds

VARIABLES
    down,       \* the object on the cluster
    rv,         \* the last resourceVersion of the cluster
    downSeen,   \* the object in the downstream cache
    notices,    \* calls of the downstream handlers to come: is the status dirty?
    ns, nsSeen, \* the downstream namespace, and in the cache
    nsNotice,   \* the handler of its deletion is to be called
    up,         \* the object in the workspace
    upSeen,     \* ... in the upstream cache
    gone,       \* the one in the cache is deleted, and this is to be seen
    queue,      \* the controllers that have the key queued
    dirty,      \* dirtyStatusKeys has the key
    step,       \* [c]: the request its worker is at
    copy,       \* what the upsyncer works on
    fresh,      \* the controllers whose resourceVersion of up is the latest
    events

downVars == <<down, rv, ns>>
upVars == <<up, fresh, gone>>
caches == <<downSeen, nsSeen, upSeen>>
calls == <<notices, nsNotice>>
vars == <<down, rv, downSeen, notices, ns, nsSeen, nsNotice, up, upSeen, gone, queue,
          dirty, step, copy, fresh, events>>

Controllers == {"upsync", "cleanup"}
RVs == 0 .. MaxRV

(* spec and status: the resourceVersion of their last change, 0: no status. *)
Downstream == [rv : RVs, spec : RVs, status : RVs, del : BOOLEAN]
Upstream == [rv : RVs, spec : RVs, status : RVs, fin : BOOLEAN, del : BOOLEAN]
Copies == [obj : Downstream \cup {NoObject}, dirty : BOOLEAN, rv : RVs]
Steps == {"idle", "create", "get", "update", "status", "annotate", "delete",
          "getOrphan", "removeFinalizers", "deleteOrphan"}

ASSUME NoObjectIsNone == NoObject \notin Downstream \cup Upstream

-----------------------------------------------------------------------------
(* Requests *)

Goto(c, s) == step' = [step EXCEPT ![c] = s]

(* The key is done with, and queued again if so wanted.                     *)
Finish(c, again) ==
    /\ Goto(c, "idle")
    /\ queue' = IF again THEN queue \cup {c} ELSE queue
    /\ UNCHANGED dirty

(* processNextWorkItem and resetDirty on an error.                          *)
Fail(c) ==
    /\ Goto(c, "idle")
    /\ queue' = queue \cup {c}
    /\ dirty' = (dirty \/ (c = "upsync" /\ copy.dirty))

(* A write of up by c: the others' resourceVersions are old now.            *)
Write(c, obj) ==
    /\ up' = obj /\ fresh' = {c}
    /\ gone' = (gone \/ (obj = NoObject /\ upSeen # NoObject))

(* A deletion waits for the finalizers.                                     *)
Deleted(obj) == IF obj.fin THEN [obj EXCEPT !.del = TRUE] ELSE NoObject

WithoutFinalizers(obj) == IF obj.del THEN NoObject ELSE [obj EXCEPT !.fin = FALSE]

(* Mutant: only the annotation of what is there is changed.                 *)
PreparedStatusOnly(obj, r) == [obj EXCEPT !.rv = r, !.fin = TRUE]

(* prepareResourceForUpstream over what is there, with the annotation r.    *)
Prepared(obj, r) == [obj EXCEPT !.rv = r, !.spec = copy.obj.spec, !.fin = TRUE]

-----------------------------------------------------------------------------
(* The upsyncer *)

(* Mutant: an object in deletion is taken for one that is gone.             *)
DownstreamResourceUnmarked ==
    IF nsSeen /\ downSeen # NoObject /\ ~downSeen.del THEN downSeen ELSE NoObject

(* No namespace in the cache: no object.                                    *)
DownstreamResource == IF nsSeen THEN downSeen ELSE NoObject

NextRequest(o) ==
    CASE o = NoObject -> "getOrphan"
      [] o # NoObject /\ upSeen = NoObject -> IF o.del THEN "idle" ELSE "create"
      [] o # NoObject /\ upSeen # NoObject ->
           IF upSeen.rv # o.rv THEN "get" ELSE IF o.del THEN "delete" ELSE "idle"

Process ==
    /\ "upsync" \in queue /\ step["upsync"] = "idle"
    /\ queue' = queue \ {"upsync"}
    /\ dirty' = FALSE
    /\ Goto("upsync", NextRequest(DownstreamResource))
    /\ copy' = [obj |-> DownstreamResource, dirty |-> dirty,
                rv |-> IF upSeen = NoObject THEN 0 ELSE upSeen.rv]
    /\ UNCHANGED <<downVars, caches, calls, upVars, events>>

(* The annotation comes with the object only if no status has to follow.    *)
Create ==
    /\ step["upsync"] = "create"
    /\ IF up # NoObject THEN Fail("upsync") /\ UNCHANGED upVars
       ELSE /\ Write("upsync", [rv |-> IF copy.dirty THEN 0 ELSE copy.obj.rv,
                                spec |-> copy.obj.spec, status |-> 0, fin |-> TRUE, del |-> FALSE])
            /\ IF copy.dirty THEN Goto("upsync", "status") /\ UNCHANGED <<queue, dirty>>
               ELSE Finish("upsync", FALSE)
    /\ UNCHANGED <<downVars, caches, calls, copy, events>>

Get ==
    /\ step["upsync"] = "get"
    /\ IF up = NoObject THEN Fail("upsync") /\ UNCHANGED fresh
       ELSE /\ fresh' = fresh \cup {"upsync"}
            /\ Goto("upsync", "update") /\ UNCHANGED <<queue, dirty>>
    /\ UNCHANGED <<downVars, caches, calls, up, gone, copy, events>>

(* With a status to follow the annotation stays what it was in the cache.   *)
Update ==
    /\ step["upsync"] = "update"
    /\ IF "upsync" \notin fresh THEN Fail("upsync") /\ UNCHANGED upVars
       ELSE /\ Write("upsync", Prepared(up, IF copy.dirty THEN copy.rv ELSE copy.obj.rv))
            /\ IF copy.dirty THEN Goto("upsync", "status") /\ UNCHANGED <<queue, dirty>>
               ELSE Finish("upsync", copy.obj.del)
    /\ UNCHANGED <<downVars, caches, calls, copy, events>>

UpdateStatus ==
    /\ step["upsync"] = "status"
    /\ IF "upsync" \notin fresh THEN Fail("upsync") /\ UNCHANGED upVars
       ELSE /\ Write("upsync", [up EXCEPT !.status = copy.obj.status])
            /\ Goto("upsync", "annotate") /\ UNCHANGED <<queue, dirty>>
    /\ UNCHANGED <<downVars, caches, calls, copy, events>>

Annotate ==
    /\ step["upsync"] = "annotate"
    /\ IF "upsync" \notin fresh THEN Fail("upsync") /\ UNCHANGED upVars
       ELSE Write("upsync", Prepared(up, copy.obj.rv)) /\ Finish("upsync", copy.obj.del)
    /\ UNCHANGED <<downVars, caches, calls, copy, events>>

Delete ==
    /\ step["upsync"] = "delete"
    /\ IF up = NoObject THEN UNCHANGED upVars ELSE Write("upsync", Deleted(up))
    /\ Finish("upsync", FALSE)
    /\ UNCHANGED <<downVars, caches, calls, copy, events>>

-----------------------------------------------------------------------------
(* Orphans, in both controllers *)

Cleanup ==
    /\ "cleanup" \in queue /\ step["cleanup"] = "idle"
    /\ queue' = queue \ {"cleanup"}
    /\ Goto("cleanup", IF DownstreamResource = NoObject THEN "getOrphan" ELSE "idle")
    /\ UNCHANGED <<downVars, caches, calls, upVars, dirty, copy, events>>

GetOrphan(c) ==
    /\ step[c] = "getOrphan"
    /\ IF up = NoObject THEN Finish(c, FALSE) /\ UNCHANGED fresh
       ELSE /\ fresh' = fresh \cup {c}
            /\ Goto(c, IF up.fin THEN "removeFinalizers" ELSE "deleteOrphan")
            /\ UNCHANGED <<queue, dirty>>
    /\ UNCHANGED <<downVars, caches, calls, up, gone, copy, events>>

RemoveUpstreamResourceFinalizers(c) ==
    /\ step[c] = "removeFinalizers"
    /\ IF c \notin fresh THEN Fail(c) /\ UNCHANGED upVars
       ELSE /\ Write(c, WithoutFinalizers(up))
            /\ Goto(c, "deleteOrphan") /\ UNCHANGED <<queue, dirty>>
    /\ UNCHANGED <<downVars, caches, calls, copy, events>>

DeleteOrphan(c) ==
    /\ step[c] = "deleteOrphan"
    /\ IF up = NoObject THEN UNCHANGED upVars ELSE Write(c, Deleted(up))
    /\ Finish(c, FALSE)
    /\ UNCHANGED <<downVars, caches, calls, copy, events>>

-----------------------------------------------------------------------------
(* Informers *)

StatusOf(o) == IF o = NoObject THEN 0 ELSE o.status

DirtyStatus(old, new) == StatusOf(new) # 0 /\ StatusOf(new) # StatusOf(old)

DeliverDownstream ==
    /\ downSeen # down
    /\ downSeen' = down
    /\ notices' = Append(notices, DirtyStatus(downSeen, down))
    /\ UNCHANGED <<downVars, nsSeen, upSeen, nsNotice, upVars, queue, dirty, step, copy, events>>

(* enqueueDownstream: lost if the namespace is not in the cache.  The       *)
(* status is marked before the key is added.                                *)
EnqueueDownstream ==
    /\ notices # <<>>
    /\ notices' = Tail(notices)
    /\ IF nsSeen THEN /\ dirty' = (dirty \/ Head(notices))
                      /\ queue' = queue \cup {"upsync"}
       ELSE UNCHANGED <<dirty, queue>>
    /\ UNCHANGED <<downVars, caches, nsNotice, upVars, step, copy, events>>

DeliverNamespace ==
    /\ nsSeen # ns
    /\ nsSeen' = ns
    /\ nsNotice' = TRUE
    /\ UNCHANGED <<downVars, downSeen, upSeen, notices, upVars, queue, dirty, step, copy, events>>

(* Mutant: the deletion of a namespace is not handled.                      *)
IgnoreDeletedDownstreamNamespace ==
    /\ nsNotice
    /\ nsNotice' = FALSE
    /\ UNCHANGED <<downVars, caches, notices, upVars, queue, dirty, step, copy, events>>

(* Everything the upstream cache has of the namespace.                      *)
EnqueueDeletedDownstreamNamespace ==
    /\ nsNotice
    /\ nsNotice' = FALSE
    /\ queue' = IF upSeen # NoObject THEN queue \cup {"upsync"} ELSE queue
    /\ UNCHANGED <<downVars, caches, notices, upVars, dirty, step, copy, events>>

(* The deletion of the object in the cache is seen before another one.      *)
SeenUpstream == upSeen' = (IF gone THEN NoObject ELSE up) /\ gone' = FALSE

(* Only additions are handled, by the clean-up controller.                  *)
DeliverUpstream ==
    /\ upSeen # up \/ gone
    /\ SeenUpstream
    /\ queue' = IF upSeen = NoObject /\ upSeen' # NoObject THEN queue \cup {"cleanup"} ELSE queue
    /\ UNCHANGED <<downVars, downSeen, nsSeen, calls, up, fresh, dirty, step, copy, events>>

-----------------------------------------------------------------------------
(* The environment *)

Event(kind) ==
    /\ kind \in Events
    /\ events < MaxEvents
    /\ events' = events + 1

Unseen == UNCHANGED <<caches, calls, upVars, queue, dirty, step, copy>>

DownstreamChanges(kind, obj) ==
    /\ Event(kind)
    /\ rv < MaxRV
    /\ rv' = rv + 1 /\ down' = obj
    /\ UNCHANGED ns /\ Unseen

Edit == down # NoObject /\ DownstreamChanges("edit", [down EXCEPT !.rv = rv + 1, !.spec = rv + 1])

StatusChanges ==
    down # NoObject /\ DownstreamChanges("status", [down EXCEPT !.rv = rv + 1, !.status = rv + 1])

Terminate == down # NoObject /\ ~down.del
             /\ DownstreamChanges("terminate", [down EXCEPT !.rv = rv + 1, !.del = TRUE])

(* An object that is marked, or whose namespace goes, goes.                 *)
Gone ==
    /\ down # NoObject /\ down.del
    /\ down' = NoObject
    /\ UNCHANGED <<rv, ns, events>> /\ Unseen

NamespaceGoes ==
    /\ Event("namespace")
    /\ ns /\ ns' = FALSE
    /\ down' = NoObject
    /\ UNCHANGED rv /\ Unseen

(* A user of the workspace deletes the upsynced object.                     *)
UserDeletes ==
    /\ Event("user")
    /\ up # NoObject /\ ~up.del
    /\ Write("user", Deleted(up))
    /\ UNCHANGED <<downVars, caches, calls, queue, dirty, step, copy>>

RequestFails(c) ==
    /\ Event("error")
    /\ step[c] # "idle"
    /\ Fail(c)
    /\ UNCHANGED <<downVars, caches, calls, upVars, copy>>

(* The caches are filled anew and every object is added.                    *)
Restart ==
    /\ Event("restart")
    /\ downSeen' = down /\ nsSeen' = ns /\ upSeen' = up
    /\ notices' = IF down = NoObject THEN <<>> ELSE <<down.status # 0>>
    /\ nsNotice' = FALSE
    /\ queue' = IF up = NoObject THEN {} ELSE {"cleanup"}
    /\ dirty' = FALSE
    /\ step' = [c \in Controllers |-> "idle"] /\ fresh' = {} /\ gone' = FALSE
    /\ UNCHANGED <<downVars, up, copy>>

-----------------------------------------------------------------------------
Init ==
    /\ down \in {NoObject, [rv |-> 1, spec |-> 1, status |-> 0, del |-> FALSE],
                 [rv |-> 1, spec |-> 1, status |-> 1, del |-> FALSE]}
    /\ rv = 1 /\ ns = TRUE /\ nsSeen = TRUE
    /\ downSeen = NoObject /\ notices = <<>> /\ nsNotice = FALSE
    /\ up = NoObject /\ upSeen = NoObject
    /\ queue = {} /\ dirty = FALSE
    /\ step = [c \in Controllers |-> "idle"]
    /\ copy = [obj |-> NoObject, dirty |-> FALSE, rv |-> 0]
    /\ fresh = {} /\ gone = FALSE
    /\ events = 0

Upsyncer == Process \/ Create \/ Get \/ Update \/ UpdateStatus \/ Annotate \/ Delete

Orphan(c) == GetOrphan(c) \/ RemoveUpstreamResourceFinalizers(c) \/ DeleteOrphan(c)

Handlers == EnqueueDownstream \/ EnqueueDeletedDownstreamNamespace

Environment ==
    \/ Edit \/ StatusChanges \/ Terminate \/ NamespaceGoes \/ UserDeletes
    \/ Restart \/ \E c \in Controllers : RequestFails(c)

Next ==
    \/ Upsyncer \/ Cleanup \/ \E c \in Controllers : Orphan(c)
    \/ DeliverDownstream \/ DeliverNamespace \/ DeliverUpstream \/ Handlers
    \/ Gone \/ Environment

Spec == Init /\ [][Next]_vars

(* Workers, informers and handlers are goroutines that loop for ever; the   *)
(* cluster completes a deletion.                                            *)
Fairness ==
    /\ WF_vars(Upsyncer \/ Orphan("upsync")) /\ WF_vars(Cleanup \/ Orphan("cleanup"))
    /\ WF_vars(DeliverDownstream) /\ WF_vars(DeliverNamespace) /\ WF_vars(DeliverUpstream)
    /\ WF_vars(EnqueueDownstream) /\ WF_vars(EnqueueDeletedDownstreamNamespace)
    /\ WF_vars(Gone)

FairSpec == Spec /\ Fairness

-----------------------------------------------------------------------------
(* Properties *)

(* Types.                                                                   *)
TypeOK ==
    /\ down \in Downstream \cup {NoObject} /\ downSeen \in Downstream \cup {NoObject}
    /\ rv \in RVs /\ notices \in Seq(BOOLEAN) /\ nsNotice \in BOOLEAN
    /\ ns \in BOOLEAN /\ nsSeen \in BOOLEAN
    /\ up \in Upstream \cup {NoObject} /\ upSeen \in Upstream \cup {NoObject}
    /\ queue \subseteq Controllers /\ dirty \in BOOLEAN
    /\ step \in [Controllers -> Steps] /\ copy \in Copies
    /\ fresh \subseteq Controllers \cup {"user"} /\ gone \in BOOLEAN
    /\ events \in Nat

(* Every handler has run.                                                   *)
Quiet ==
    /\ downSeen = down /\ nsSeen = ns /\ upSeen = up /\ ~gone
    /\ notices = <<>> /\ ~nsNotice /\ queue = {}
    /\ \A c \in Controllers : step[c] = "idle"
    /\ down = NoObject \/ ~down.del

(* "It is used to check easily, without having to compare the resource      *)
(* contents, whether an upsynced upstream resource is up-to-date": the main *)
(* content is.                                                              *)
AnnotatedIsUpToDate ==
    up # NoObject /\ down # NoObject /\ up.rv = down.rv => up.spec = down.spec

(* ... and so is the status, once every handler has run.                    *)
AnnotatedStatusIsUpToDate ==
    Quiet /\ up # NoObject /\ down # NoObject /\ up.rv = down.rv => up.status = down.status

Content(o) == IF o = NoObject THEN 0 ELSE o.spec

M == INSTANCE Mirror WITH source <- Content(down), latest <- rv, copy <- Content(up)

(* Every step is one of the abstract copy or changes nothing of it: the     *)
(* upstream object does not go while there is a downstream one, although    *)
(* two controllers delete it on the word of caches that lag behind, and its *)
(* content never goes back, although every update is decided on an object   *)
(* read earlier.                                                            *)
ImplementsMirror == M!MirrorSpec

(* An object that is gone from the cluster goes from the workspace, and one *)
(* that stays arrives.                                                      *)
GoneFromWorkspace == <>[](down = NoObject) => <>[](up = NoObject)
ArrivesInWorkspace ==
    <>[](down # NoObject /\ ~down.del) => <>[](up # NoObject /\ down # NoObject /\ up.spec = down.spec)

-----------------------------------------------------------------------------
(* Why: an inductive invariant *)

(* o is a version of p or an earlier one, as far as both exist.             *)
Behind(o, p) ==
    o # NoObject /\ p # NoObject =>
        o.rv <= p.rv /\ o.spec <= p.spec /\ (o.rv = p.rv => o.spec = p.spec)

Pushing == step["upsync"] \in {"create", "get", "update", "status", "annotate"}
Removing(c) == step[c] \in {"getOrphan", "removeFinalizers", "deleteOrphan"}

(* Contents were given out by the cluster.                                  *)
Numbered ==
    /\ \A o \in {down, downSeen} : o # NoObject => o.spec \in 1 .. rv /\ o.rv <= rv
    /\ up # NoObject => up.spec \in 1 .. rv
    /\ Pushing => copy.obj # NoObject /\ copy.obj.spec \in 1 .. rv

(* Content flows from the cluster to its cache, to the copy that the        *)
(* upsyncer pushes, and to the workspace: each lags behind the one before.  *)
Flow ==
    /\ Behind(downSeen, down)
    /\ Behind(up, downSeen)
    /\ upSeen # NoObject /\ downSeen # NoObject => upSeen.rv <= downSeen.rv
    /\ Pushing => Behind(copy.obj, downSeen) /\ Behind(up, copy.obj)
    /\ step["upsync"] \in {"get", "update"} => copy.rv < copy.obj.rv

(* An object that no cache has seen has had no effect.                      *)
UnseenIsNew ==
    down # NoObject /\ downSeen = NoObject =>
        /\ up = NoObject /\ upSeen = NoObject
        /\ notices = <<>> /\ queue = {}
        /\ \A c \in Controllers : step[c] = "idle"

NamespaceHolds == (~nsSeen => ~ns) /\ (~ns => down = NoObject)

(* While there is an object on the cluster nobody removes the one in the    *)
(* workspace, which is held by its finalizer.                               *)
OnlyOrphansGo ==
    down # NoObject => /\ \A c \in Controllers : ~Removing(c)
                       /\ up # NoObject => up.fin

(* Who may write an object has one.                                         *)
FreshExists ==
    \A c \in Controllers :
        c \in fresh /\ step[c] \in {"update", "status", "annotate", "removeFinalizers"}
            => up # NoObject

IInv == TypeOK /\ Numbered /\ Flow /\ UnseenIsNew /\ NamespaceHolds /\ OnlyOrphansGo /\ FreshExists
=============================================================================
