---------------------------- MODULE WorkspaceDNS ----------------------------
(***************************************************************************)
(* The DNS server of a workspace in the physical cluster.  The workers of  *)
(* the spec syncer create it in passing, each before the object that it    *)
(* syncs; deployments wait until it is ready and get its address.  Workers *)
(* work from listers that lag behind, and a syncer of another version      *)
(* finds the server of the last one and brings in its own image.           *)
(***************************************************************************)
EXTENDS Naturals, Sequences, SequencesExt

CONSTANTS
    Synced,       \* objects to sync, each by a worker of its own
    Deployments,  \* the objects that are deployments
    Images,       \* images of the DNS server
    Fallible,     \* the resources whose creation may fail
    DNSBound      \* bound: events of the environment in one behaviour

(* In the order in which they are created.                                     *)
Steps == <<"serviceaccount", "role", "rolebinding", "deployment", "service", "networkpolicy">>

VARIABLES
    exists,       \* the resources of the DNS server in the cluster
    known,        \* the resources that the listers know
    image,        \* of the deployment of the DNS server
    dnsEndpoints, \* "none", "empty" or "ready"
    epSeen,       \* the endpoints as the lister knows them
    dnsImage,     \* the image of this syncer
    initialized,  \* this syncer has looked at the deployment of the last one
    token,        \* the informer of secrets knows a token of the service account
    at,           \* [o]: how far the worker of o is: "queued", "check", a step, "apply" or "done"
    dnsEvents

dnsVars == <<exists, known, image, dnsEndpoints, epSeen, dnsImage, initialized, token, at, dnsEvents>>

Ready == epSeen = "ready"

-----------------------------------------------------------------------------
(* The spec syncer *)

(* What comes after the DNS server of the workspace has been seen to.  A       *)
(* deployment is queued again until there are ready endpoints.                 *)
Returned(o, ready) ==
    at' = [at EXCEPT ![o] = IF ~ready /\ o \in Deployments THEN "queued" ELSE "apply"]

(* After an error the object is queued again.                                  *)
Error(o) == at' = [at EXCEPT ![o] = "queued"]

(* Mutant: initialized is set whether or not the update succeeds.              *)
InitializedOnFailure == TRUE

InitializedAfterFailure == initialized

NeedsUpdate == "deployment" \in known /\ image # dnsImage

(* Once per process, under a lock: the image of the last syncer is replaced.   *)
LockMayUpdate(o) ==
    /\ at[o] = "queued"
    /\ initialized' = TRUE
    /\ IF ~initialized /\ NeedsUpdate
       THEN image' = dnsImage /\ Returned(o, FALSE)
       ELSE at' = [at EXCEPT ![o] = "check"] /\ UNCHANGED image
    /\ UNCHANGED <<exists, known, dnsEndpoints, epSeen, dnsImage, token, dnsEvents>>

UpdateFails(o) ==
    /\ at[o] = "queued" /\ ~initialized /\ NeedsUpdate
    /\ dnsEvents < DNSBound /\ dnsEvents' = dnsEvents + 1
    /\ initialized' = InitializedAfterFailure
    /\ Error(o)
    /\ UNCHANGED <<exists, known, image, dnsEndpoints, epSeen, dnsImage, token>>

(* Only if there are no endpoints is anything created.                         *)
EnsureDNSUpAndReady(o) ==
    /\ at[o] = "check"
    /\ IF epSeen = "none" THEN at' = [at EXCEPT ![o] = Steps[1]] ELSE Returned(o, Ready)
    /\ UNCHANGED <<exists, known, image, dnsEndpoints, epSeen, dnsImage, initialized, token, dnsEvents>>

(* The next resource, or the end: the server is not ready yet.                 *)
Advance(o) ==
    LET n == CHOOSE i \in DOMAIN Steps : Steps[i] = at[o]
    IN  IF n = Len(Steps) THEN Returned(o, FALSE) ELSE at' = [at EXCEPT ![o] = Steps[n + 1]]

(* One that the lister does not know is created; that it exists is no error.   *)
ProcessResource(o) ==
    /\ at[o] \in ToSet(Steps)
    /\ exists' = exists \cup ({at[o]} \ known)
    /\ image' = IF at[o] = "deployment" /\ "deployment" \notin exists \cup known THEN dnsImage ELSE image
    /\ Advance(o)
    /\ UNCHANGED <<known, dnsEndpoints, epSeen, dnsImage, initialized, token, dnsEvents>>

ProcessResourceFails(o) ==
    /\ at[o] \in ToSet(Steps) \cap Fallible /\ at[o] \notin known
    /\ dnsEvents < DNSBound /\ dnsEvents' = dnsEvents + 1
    /\ Error(o)
    /\ UNCHANGED <<exists, known, image, dnsEndpoints, epSeen, dnsImage, initialized, token>>

(* The address of the service, if the lister knows it.                         *)
GetDNSIPForWorkspace == "service" \in known

(* The pods of a deployment get a token of their service account, from kcp,    *)
(* and the address of the DNS server; it is an error that either is missing.   *)
Mutate(o) == o \in Deployments => token /\ GetDNSIPForWorkspace

ApplyToDownstream(o) ==
    /\ at[o] = "apply"
    /\ at' = [at EXCEPT ![o] = IF Mutate(o) THEN "done" ELSE "queued"]
    /\ UNCHANGED <<exists, known, image, dnsEndpoints, epSeen, dnsImage, initialized, token, dnsEvents>>

-----------------------------------------------------------------------------
(* The physical cluster *)

UpdateEndpoints ==
    /\ "service" \in exists
    /\ dnsEndpoints' = IF "deployment" \in exists THEN "ready" ELSE "empty"
    /\ dnsEndpoints' # dnsEndpoints
    /\ UNCHANGED <<exists, known, image, epSeen, dnsImage, initialized, token, at, dnsEvents>>

DeliverResource ==
    /\ \E r \in exists \ known : known' = known \cup {r}
    /\ UNCHANGED <<exists, image, dnsEndpoints, epSeen, dnsImage, initialized, token, at, dnsEvents>>

DeliverEndpoints ==
    /\ epSeen # dnsEndpoints /\ epSeen' = dnsEndpoints
    /\ UNCHANGED <<exists, known, image, dnsEndpoints, dnsImage, initialized, token, at, dnsEvents>>

DeliverToken ==
    /\ ~token /\ token' = TRUE
    /\ UNCHANGED <<exists, known, image, dnsEndpoints, epSeen, dnsImage, initialized, at, dnsEvents>>

(* The syncer restarts with another image.  Its informers begin with what      *)
(* exists, but for that of the secrets upstream, and all objects are new.      *)
Upgrade ==
    /\ dnsEvents < DNSBound /\ dnsEvents' = dnsEvents + 1
    /\ dnsImage' \in Images \ {dnsImage}
    /\ initialized' = FALSE /\ token' = FALSE /\ known' = exists /\ epSeen' = dnsEndpoints
    /\ at' = [o \in Synced |-> "queued"]
    /\ UNCHANGED <<exists, image, dnsEndpoints>>

-----------------------------------------------------------------------------
(* Specification *)

DNSInit ==
    /\ exists = {} /\ known = {} /\ dnsEndpoints = "none" /\ epSeen = "none"
    /\ dnsImage \in Images /\ image = dnsImage /\ initialized = FALSE /\ token = FALSE
    /\ at = [o \in Synced |-> "queued"] /\ dnsEvents = 0

Worker(o) == LockMayUpdate(o) \/ EnsureDNSUpAndReady(o) \/ ProcessResource(o) \/ ApplyToDownstream(o)

DNSNext ==
    \/ \E o \in Synced : Worker(o) \/ UpdateFails(o) \/ ProcessResourceFails(o)
    \/ UpdateEndpoints \/ DeliverResource \/ DeliverEndpoints \/ DeliverToken \/ Upgrade

(* Workers retry what failed; the cluster and the informers make progress.     *)
DNSFairness ==
    /\ \A o \in Synced : WF_dnsVars(Worker(o))
    /\ WF_dnsVars(UpdateEndpoints) /\ WF_dnsVars(DeliverResource) /\ WF_dnsVars(DeliverEndpoints)
    /\ WF_dnsVars(DeliverToken)

DNSSpec == DNSInit /\ [][DNSNext]_dnsVars /\ DNSFairness

-----------------------------------------------------------------------------
(* Properties *)

(* Whatever fails on the way, in the end every object is synced, deployments   *)
(* included, and the DNS server has the image of the syncer that runs:         *)
(* deployments wait for endpoints, which wait for what the workers create,     *)
(* and only the first pass of a process replaces an image.                     *)
DNSComesUp == <>[](/\ \A o \in Synced : at[o] = "done"
                   /\ dnsEndpoints = "ready" /\ image = dnsImage)

(* All resources of the DNS server are created in the end.  The code does not  *)
(* keep this: the README tells how.                                            *)
AllCreated == <>[](exists = ToSet(Steps))
=============================================================================
