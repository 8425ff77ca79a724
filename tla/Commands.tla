------------------------------ MODULE Commands ------------------------------
(***************************************************************************)
(* The command line plugins: workload sync, which prepares a SyncTarget    *)
(* for its syncer, bind compute, which prepares a workspace for the use of *)
(* a location, bind apiexport, and cordon, uncordon and drain.             *)
(*                                                                         *)
(* A run of a command is a sequence of requests without retries: it ends   *)
(* with an error at the first one that fails, and it may be interrupted.   *)
(* Users run a command again then, or twice at the same time.  The objects *)
(* that belong to a SyncTarget carry its UID in their name.                *)
(***************************************************************************)
EXTENDS Naturals, FiniteSets

CONSTANTS
    Runs,      \* runs of commands that overlap
    Offers,    \* sets of commands: users run those of one of them
    UIDs,      \* of the SyncTargets of this name, one after the other: 1, 2, ...
    Flags,     \* the APIExports, and the resources, that workload sync may be called with
    Exports,   \* the APIExports that bind compute is called with
    None,
    CmdBound   \* bound: events of the environment in one behaviour

VARIABLES
    offer,      \* the commands of this behaviour
    cmd,        \* [r]: the command, where it is and what it knows
    spoiled,    \* history: a run failed or an object was deleted since somebody began alone
    target,     \* the SyncTarget, or None
    lastUID,
    localExport,\* the resources that the APIExport of the workspace lists, or None
    account,    \* the UIDs that have a service account,
    role,       \* a cluster role,
    binding,    \* a binding of the one to the other
    token,      \* and a token
    apiBinding, \* [e]: None, "binding" or "bound"
    placement,  \* None, "pending" or "ready"
    cmdEvents

owned == <<account, role, binding, token>>
bound == <<apiBinding, placement>>
cmdVars == <<offer, cmd, spoiled, target, lastUID, localExport, owned, bound, cmdEvents>>

Idle == [name |-> None, at |-> "idle", flags |-> None, seen |-> None, uid |-> None,
         listed |-> {}, named |-> FALSE, todo |-> {}, made |-> {}]

UIDOf(t) == IF t = None THEN None ELSE t.uid

Running == {r \in Runs : cmd[r].at \notin {"idle", "done", "failed"}}

At(r, step) == cmd[r].at = step

Goto(r, step) == cmd' = [cmd EXCEPT ![r].at = step]

-----------------------------------------------------------------------------
(* workload sync *)

(* The resources to sync are listed in an APIExport of the workspace, which    *)
(* may have to be created first.                                               *)
GetLocalExport(r) ==
    /\ At(r, "export")
    /\ \/ localExport = None /\ Goto(r, "createExport")
       \/ localExport # None /\ cmd[r].flags \in localExport /\ Goto(r, "target")
       \/ /\ localExport # None /\ cmd[r].flags \notin localExport
          /\ cmd' = [cmd EXCEPT ![r].listed = localExport, ![r].at = "updateExport"]
    /\ UNCHANGED <<offer, spoiled, target, lastUID, localExport, owned, bound, cmdEvents>>

(* Resources are added to the list and never taken from it.                    *)
MergeLatestResourceSchema(listed, resource) == listed \cup {resource}

(* If somebody has been faster their list is left as it is, without error.     *)
CreateLocalExport(r) ==
    /\ At(r, "createExport")
    /\ localExport' = IF localExport = None THEN MergeLatestResourceSchema({}, cmd[r].flags)
                      ELSE localExport
    /\ Goto(r, "target")
    /\ UNCHANGED <<offer, spoiled, target, lastUID, owned, bound, cmdEvents>>

(* An update has the resourceVersion of what was read.                         *)
UpdateLocalExport(r) ==
    /\ At(r, "updateExport") /\ localExport = cmd[r].listed
    /\ localExport' = MergeLatestResourceSchema(localExport, cmd[r].flags)
    /\ cmd' = [cmd EXCEPT ![r].listed = {}, ![r].at = "target"]
    /\ UNCHANGED <<offer, spoiled, target, lastUID, owned, bound, cmdEvents>>

(* The SyncTarget is created, or patched if it differs.                        *)
GetSyncTarget(r) ==
    /\ At(r, "target")
    /\ cmd' = [cmd EXCEPT ![r].seen = target,
                          ![r].uid = UIDOf(target),
                          ![r].at = IF target = None THEN "createTarget"
                                    ELSE IF target.exports = cmd[r].flags THEN "account"
                                    ELSE "patchTarget"]
    /\ UNCHANGED <<offer, spoiled, target, lastUID, localExport, owned, bound, cmdEvents>>

(* If somebody has been faster, theirs is patched, without a precondition.     *)
CreateSyncTarget(r) ==
    /\ At(r, "createTarget")
    /\ IF target = None
       THEN /\ lastUID + 1 \in UIDs /\ lastUID' = lastUID + 1
            /\ target' = [uid |-> lastUID', exports |-> cmd[r].flags, unschedulable |-> FALSE, evict |-> FALSE]
            /\ cmd' = [cmd EXCEPT ![r].uid = lastUID', ![r].at = "account"]
       ELSE Goto(r, "patchTarget") /\ UNCHANGED <<target, lastUID>>
    /\ UNCHANGED <<offer, spoiled, localExport, owned, bound, cmdEvents>>

PatchSyncTarget(r) ==
    /\ At(r, "patchTarget") /\ target # None /\ cmd[r].seen \in {None, target}
    /\ target' = [target EXCEPT !.exports = cmd[r].flags]
    /\ cmd' = [cmd EXCEPT ![r].uid = target.uid, ![r].at = "account"]
    /\ UNCHANGED <<offer, spoiled, lastUID, localExport, owned, bound, cmdEvents>>

(* The objects of a SyncTarget have it among their owners.                     *)
MergeOwnerReference(owners, uid) == owners \cup {uid}

GetServiceAccount(r) ==
    /\ At(r, "account")
    /\ Goto(r, IF cmd[r].uid \in account THEN "patchAccount" ELSE "createAccount")
    /\ UNCHANGED <<offer, spoiled, target, lastUID, localExport, owned, bound, cmdEvents>>

(* The answer to a create of what exists is an object without a name, and the  *)
(* name is needed later.                                                       *)
CreateServiceAccount(r) ==
    /\ At(r, "createAccount")
    /\ account' = MergeOwnerReference(account, cmd[r].uid)
    /\ cmd' = [cmd EXCEPT ![r].at = "role", ![r].named = cmd[r].uid \notin account]
    /\ UNCHANGED <<offer, spoiled, target, lastUID, localExport, role, binding, token, bound, cmdEvents>>

(* The owner is already among those of the account.                            *)
PatchServiceAccount(r) ==
    /\ At(r, "patchAccount") /\ cmd[r].uid \in account
    /\ cmd' = [cmd EXCEPT ![r].at = "role", ![r].named = TRUE]
    /\ UNCHANGED <<offer, spoiled, target, lastUID, localExport, owned, bound, cmdEvents>>

GetClusterRole(r) ==
    /\ At(r, "role")
    /\ Goto(r, IF cmd[r].uid \in role THEN "patchRole" ELSE "createRole")
    /\ UNCHANGED <<offer, spoiled, target, lastUID, localExport, owned, bound, cmdEvents>>

ApplyClusterRole(r) ==
    /\ At(r, "createRole") \/ (At(r, "patchRole") /\ cmd[r].uid \in role)
    /\ role' = MergeOwnerReference(role, cmd[r].uid)
    /\ Goto(r, "binding")
    /\ UNCHANGED <<offer, spoiled, target, lastUID, localExport, account, binding, token, bound, cmdEvents>>

(* A binding that exists is deleted and made anew.                             *)
GetClusterRoleBinding(r) ==
    /\ At(r, "binding")
    /\ Goto(r, IF cmd[r].uid \in binding THEN "deleteBinding" ELSE "createBinding")
    /\ UNCHANGED <<offer, spoiled, target, lastUID, localExport, owned, bound, cmdEvents>>

(* Mutant: the binding is taken for updated.                                   *)
AfterDelete == "token"

AfterDeletion == "createBinding"

DeleteClusterRoleBinding(r) ==
    /\ At(r, "deleteBinding") /\ cmd[r].uid \in binding
    /\ binding' = binding \ {cmd[r].uid}
    /\ Goto(r, AfterDeletion)
    /\ UNCHANGED <<offer, spoiled, target, lastUID, localExport, account, role, token, bound, cmdEvents>>

CreateClusterRoleBinding(r) ==
    /\ At(r, "createBinding")
    /\ binding' = MergeOwnerReference(binding, cmd[r].uid)
    /\ Goto(r, "token")
    /\ UNCHANGED <<offer, spoiled, target, lastUID, localExport, account, role, token, bound, cmdEvents>>

(* The token is waited for, then the SyncTarget's resources to sync.           *)
WaitForToken(r) ==
    /\ At(r, "token") /\ cmd[r].named /\ cmd[r].uid \in token
    /\ Goto(r, "resources")
    /\ UNCHANGED <<offer, spoiled, target, lastUID, localExport, owned, bound, cmdEvents>>

GetResourcesForPermission(r) ==
    /\ At(r, "resources") /\ target # None
    /\ Goto(r, "render")
    /\ UNCHANGED <<offer, spoiled, target, lastUID, localExport, owned, bound, cmdEvents>>

(* What the manifest of the syncer says, which is written at last: the         *)
(* SyncTarget and the resources that the syncer may use.                       *)
Manifest(r) == [uid |-> cmd[r].uid, resources |-> {cmd[r].flags, "secrets", "configmaps"}]

RenderSyncerResources(r) ==
    /\ At(r, "render") /\ Goto(r, "done")
    /\ UNCHANGED <<offer, spoiled, target, lastUID, localExport, owned, bound, cmdEvents>>

-----------------------------------------------------------------------------
(* bind compute *)

(* The exports without an APIBinding, in whatever phase that is.               *)
ListAPIBindings(r) ==
    /\ At(r, "list")
    /\ cmd' = [cmd EXCEPT ![r].at = "apply", ![r].todo = {e \in Exports : apiBinding[e] = None}]
    /\ UNCHANGED <<offer, spoiled, target, lastUID, localExport, owned, bound, cmdEvents>>

(* One that exists by now is as nameless as above, and cannot be waited for.   *)
ApplyAPIBinding(r, e) ==
    /\ At(r, "apply") /\ e \in cmd[r].todo
    /\ apiBinding' = IF apiBinding[e] = None THEN [apiBinding EXCEPT ![e] = "binding"] ELSE apiBinding
    /\ cmd' = [cmd EXCEPT ![r].todo = @ \ {e},
                          ![r].made = @ \cup {IF apiBinding[e] = None THEN e ELSE None}]
    /\ UNCHANGED <<offer, spoiled, target, lastUID, localExport, owned, placement, cmdEvents>>

(* Only the APIBindings that this run has made are waited for.                 *)
BindingsReady(r) == \A e \in cmd[r].made : e # None /\ apiBinding[e] = "bound"

WaitForBindings(r) ==
    /\ At(r, "apply") /\ cmd[r].todo = {} /\ BindingsReady(r)
    /\ Goto(r, "placement")
    /\ UNCHANGED <<offer, spoiled, target, lastUID, localExport, owned, bound, cmdEvents>>

(* A placement of this name is as good as a new one.                           *)
ApplyPlacement(r) ==
    /\ At(r, "placement")
    /\ placement' = IF placement = None THEN "pending" ELSE placement
    /\ Goto(r, "waitPlacement")
    /\ UNCHANGED <<offer, spoiled, target, lastUID, localExport, owned, apiBinding, cmdEvents>>

PlacementReadyAndScheduled(r) ==
    /\ At(r, "waitPlacement") /\ placement = "ready"
    /\ Goto(r, "done")
    /\ UNCHANGED <<offer, spoiled, target, lastUID, localExport, owned, bound, cmdEvents>>

-----------------------------------------------------------------------------
(* bind apiexport *)

(* It is an error that the APIBinding exists.                                  *)
CreateAPIBinding(r, e) ==
    /\ At(r, "create") /\ apiBinding[e] = None
    /\ apiBinding' = [apiBinding EXCEPT ![e] = "binding"]
    /\ cmd' = [cmd EXCEPT ![r].at = "waitBound", ![r].made = {e}]
    /\ UNCHANGED <<offer, spoiled, target, lastUID, localExport, owned, placement, cmdEvents>>

WaitUntilBound(r) ==
    /\ At(r, "waitBound") /\ BindingsReady(r)
    /\ Goto(r, "done")
    /\ UNCHANGED <<offer, spoiled, target, lastUID, localExport, owned, bound, cmdEvents>>

-----------------------------------------------------------------------------
(* cordon, uncordon and drain *)

Cordoned(t, name) ==
    CASE name = "cordon" -> t.unschedulable
      [] name = "uncordon" -> ~t.unschedulable
      [] name = "drain" -> t.unschedulable /\ t.evict

(* Nothing is done if the SyncTarget is already so.                            *)
GetForCordon(r) ==
    /\ At(r, "look") /\ target # None
    /\ cmd' = [cmd EXCEPT ![r].seen = target,
                          ![r].at = IF Cordoned(target, cmd[r].name) THEN "done" ELSE "patch"]
    /\ UNCHANGED <<offer, spoiled, target, lastUID, localExport, owned, bound, cmdEvents>>

(* The patch has no precondition.  That of uncordon takes evictAfter away if   *)
(* it was there, and fails if it is not there any more.                        *)
PatchForCordon(r) ==
    /\ At(r, "patch") /\ target # None
    /\ cmd[r].name = "uncordon" /\ cmd[r].seen.evict => target.evict
    /\ target' = [target EXCEPT
         !.unschedulable = cmd[r].name # "uncordon",
         !.evict = CASE cmd[r].name = "cordon" -> @
                     [] cmd[r].name = "drain" -> TRUE
                     [] cmd[r].name = "uncordon" -> @ /\ ~cmd[r].seen.evict]
    /\ Goto(r, "done")
    /\ UNCHANGED <<offer, spoiled, lastUID, localExport, owned, bound, cmdEvents>>

-----------------------------------------------------------------------------
(* Environment *)

FirstStep(name) ==
    CASE name = "sync" -> "export" [] name = "bind" -> "list"
      [] name = "apiexport" -> "create" [] OTHER -> "look"

Event == cmdEvents < CmdBound /\ cmdEvents' = cmdEvents + 1

(* A user runs a command.                                                      *)
Begin(r) ==
    /\ r \notin Running /\ Event
    /\ \E name \in offer, f \in Flags :
         LET others == IF Running = {} THEN [q \in Runs |-> Idle] ELSE cmd
         IN  cmd' = [others EXCEPT ![r] = [Idle EXCEPT !.name = name, !.at = FirstStep(name), !.flags = f]]
    /\ spoiled' = (spoiled /\ Running # {})
    /\ UNCHANGED <<offer, target, lastUID, localExport, owned, bound>>

(* A request fails, a wait times out or the user interrupts the run.           *)
Fails(r) ==
    /\ r \in Running
    /\ Goto(r, "failed") /\ spoiled' = TRUE
    /\ UNCHANGED <<offer, target, lastUID, localExport, owned, bound, cmdEvents>>

(* The controller of tokens, the garbage collector, and those of kcp that bind *)
(* exports and schedule placements.                                            *)
TokenComes ==
    /\ \E u \in account \ token : token' = token \cup {u}
    /\ UNCHANGED <<offer, cmd, spoiled, target, lastUID, localExport, account, role, binding, bound, cmdEvents>>

CollectGarbage ==
    /\ \E u \in (account \cup role \cup binding \cup token) :
         /\ u # UIDOf(target)
         /\ account' = account \ {u} /\ role' = role \ {u}
         /\ binding' = binding \ {u} /\ token' = token \ {u}
    /\ UNCHANGED <<offer, cmd, spoiled, target, lastUID, localExport, bound, cmdEvents>>

BindExport ==
    /\ \E e \in Exports : apiBinding[e] = "binding" /\ apiBinding' = [apiBinding EXCEPT ![e] = "bound"]
    /\ UNCHANGED <<offer, cmd, spoiled, target, lastUID, localExport, owned, placement, cmdEvents>>

PlacementBecomesReady ==
    /\ placement = "pending" /\ placement' = "ready"
    /\ UNCHANGED <<offer, cmd, spoiled, target, lastUID, localExport, owned, apiBinding, cmdEvents>>

DeleteSyncTarget ==
    /\ Event /\ "sync" \in offer /\ target # None /\ target' = None /\ spoiled' = TRUE
    /\ UNCHANGED <<offer, cmd, lastUID, localExport, owned, bound>>

DeleteBound ==
    /\ Event
    /\ \/ \E e \in Exports : /\ apiBinding[e] # None /\ apiBinding' = [apiBinding EXCEPT ![e] = None]
                             /\ UNCHANGED placement
       \/ placement # None /\ placement' = None /\ UNCHANGED apiBinding
    /\ spoiled' = TRUE
    /\ UNCHANGED <<offer, cmd, target, lastUID, localExport, owned>>

-----------------------------------------------------------------------------
(* Specification *)

(* Targets to be cordoned are there.                                           *)
CmdInit ==
    /\ offer \in Offers /\ cmd = [r \in Runs |-> Idle] /\ spoiled = FALSE
    /\ target \in IF "cordon" \in offer
                  THEN [uid : {0}, exports : Flags, unschedulable : BOOLEAN, evict : {FALSE}]
                  ELSE {None}
    /\ lastUID = 0 /\ localExport = None /\ account = {} /\ role = {} /\ binding = {} /\ token = {}
    /\ apiBinding = [e \in Exports |-> None] /\ placement = None /\ cmdEvents = 0

Sync(r) ==
    \/ GetLocalExport(r) \/ CreateLocalExport(r) \/ UpdateLocalExport(r)
    \/ GetSyncTarget(r) \/ CreateSyncTarget(r) \/ PatchSyncTarget(r)
    \/ GetServiceAccount(r) \/ CreateServiceAccount(r) \/ PatchServiceAccount(r)
    \/ GetClusterRole(r) \/ ApplyClusterRole(r)
    \/ GetClusterRoleBinding(r) \/ DeleteClusterRoleBinding(r) \/ CreateClusterRoleBinding(r)
    \/ WaitForToken(r) \/ GetResourcesForPermission(r) \/ RenderSyncerResources(r)

Bind(r) ==
    \/ ListAPIBindings(r) \/ WaitForBindings(r) \/ ApplyPlacement(r) \/ PlacementReadyAndScheduled(r)
    \/ WaitUntilBound(r)
    \/ \E e \in Exports : ApplyAPIBinding(r, e) \/ CreateAPIBinding(r, e)

CmdNext ==
    \/ \E r \in Runs : Sync(r) \/ Bind(r) \/ GetForCordon(r) \/ PatchForCordon(r) \/ Begin(r) \/ Fails(r)
    \/ TokenComes \/ CollectGarbage \/ BindExport \/ PlacementBecomesReady
    \/ DeleteSyncTarget \/ DeleteBound

CmdSpec == CmdInit /\ [][CmdNext]_cmdVars

-----------------------------------------------------------------------------
(* Properties *)

Done(name) == {r \in Runs : cmd[r].name = name /\ At(r, "done")}

Succeeded == Running = {} /\ ~spoiled

(* When runs that overlapped, or one run alone, have all reported success, the *)
(* SyncTarget is there as one of them wants it and its syncer can log in and   *)
(* has its permissions, whatever interrupted runs before them left behind;     *)
(* the runs delete and create the same objects with requests that interleave.  *)
(* Every manifest that they have written is about this SyncTarget.  The        *)
(* workspace exports the resources of one of them at least: those of the other *)
(* are lost, without an error, when both find no APIExport.                    *)
SyncEnables ==
    Succeeded /\ Done("sync") # {} =>
        /\ target # None /\ \E r \in Done("sync") : target.exports = cmd[r].flags
        /\ target.uid \in account \cap role \cap binding \cap token
        /\ \A r \in Done("sync") : Manifest(r).uid = target.uid
        /\ \E r \in Done("sync") : cmd[r].flags \in localExport \cap Manifest(r).resources

(* In the same way, bind compute leaves an APIBinding for every export and a   *)
(* placement that is ready.                                                    *)
BindBinds ==
    Succeeded /\ Done("bind") # {} =>
        /\ \A e \in Exports : apiBinding[e] # None
        /\ placement = "ready"

(* And bind apiexport leaves an APIBinding that is bound, as does every other  *)
(* run at that time.                                                           *)
ExportIsBound ==
    Succeeded => \A r \in Done("apiexport") : \A e \in cmd[r].made : apiBinding[e] = "bound"
-----------------------------------------------------------------------------
(* What the proofs need: the types, and what is known at any time *)

CmdNames == {"sync", "bind", "apiexport", "cordon", "uncordon", "drain"}

SyncTarget == [uid : Nat, exports : Flags, unschedulable : BOOLEAN, evict : BOOLEAN]

(* Who runs workload sync runs nothing else meanwhile.                         *)
Constants ==
    /\ Offers \subseteq SUBSET CmdNames /\ \A o \in Offers : "sync" \in o => o = {"sync"}
    /\ UIDs \subseteq Nat /\ CmdBound \in Nat
    /\ None \notin SyncTarget /\ (\A f \in SUBSET Flags : f # None) /\ None \notin CmdNames
    /\ None \notin {"binding", "bound", "pending", "ready"}

(* Where a run of workload sync is: at the APIExport, at the SyncTarget, and   *)
(* past each of the objects that it makes.                                     *)
AtExport == {"export", "createExport", "updateExport"}
AtTarget == {"target", "createTarget", "patchTarget"}
PastToken == {"resources", "render", "done"}
PastBinding == PastToken \cup {"token"}
PastRole == PastBinding \cup {"binding", "deleteBinding", "createBinding"}
PastAccount == PastRole \cup {"role", "createRole", "patchRole"}
PastTarget == PastAccount \cup {"account", "createAccount", "patchAccount"}
PastExport == PastTarget \cup AtTarget

StepsOf(name) ==
    CASE name = "sync" -> AtExport \cup PastExport
      [] name = "bind" -> {"list", "apply", "placement", "waitPlacement", "done"}
      [] name = "apiexport" -> {"create", "waitBound", "done"}
      [] OTHER -> {"look", "patch", "done"}

Steps == AtExport \cup PastExport \cup {"list", "apply", "placement", "waitPlacement", "create",
                                         "waitBound", "look", "patch", "idle", "failed"}

Run == [name : CmdNames \cup {None}, at : Steps, flags : Flags \cup {None},
        seen : SyncTarget \cup {None}, uid : Nat \cup {None}, listed : SUBSET Flags,
        named : BOOLEAN, todo : SUBSET Exports, made : SUBSET (Exports \cup {None})]

IsOffered(r) ==
    /\ cmd[r].name \in offer \cup {None}
    /\ cmd[r].at # "idle" => /\ cmd[r].name \in offer /\ cmd[r].flags \in Flags
                            /\ cmd[r].at \in StepsOf(cmd[r].name) \cup {"failed"}

CmdTypeOK ==
    /\ offer \in Offers /\ cmd \in [Runs -> Run] /\ spoiled \in BOOLEAN
    /\ target \in SyncTarget \cup {None} /\ lastUID \in Nat
    /\ localExport \in (SUBSET Flags) \cup {None}
    /\ apiBinding \in [Exports -> {None, "binding", "bound"}]
    /\ placement \in {None, "pending", "ready"} /\ cmdEvents \in Nat
    /\ \A r \in Runs : IsOffered(r)

Syncing(steps) == {r \in Runs : cmd[r].name = "sync" /\ cmd[r].at \in steps}

(* The SyncTarget is as one of the runs that are past it wants it, unless      *)
(* somebody may still patch it.                                                *)
TargetIsTheirs ==
    /\ \A r \in Syncing(PastTarget) : target # None /\ cmd[r].uid = target.uid
    /\ Syncing(PastTarget) # {} /\ Syncing(AtExport \cup AtTarget) = {} =>
         \E r \in Syncing(PastTarget) : cmd[r].flags = target.exports

(* Who has deleted the binding is about to make it.                            *)
ObjectsAreThere ==
    /\ \A r \in Syncing(PastAccount) : cmd[r].uid \in account
    /\ \A r \in Syncing(PastRole) : cmd[r].uid \in role
    /\ \A r \in Syncing(PastBinding) : cmd[r].uid \in binding \/ Syncing({"createBinding"}) # {}
    /\ \A r \in Syncing(PastToken) : cmd[r].uid \in token

ExportIsListed ==
    /\ Syncing(PastExport) # {} => localExport # None
    /\ Syncing(PastExport \cup {"createExport"}) # {} /\ localExport # None =>
         \/ \E r \in Syncing(PastExport) : cmd[r].flags \in localExport
         \/ Syncing({"export", "updateExport"}) # {}

(* What a run of bind compute or bind apiexport has made or found so far.      *)
FoundBound(r) ==
    /\ At(r, "apply") => \A e \in Exports \ cmd[r].todo : apiBinding[e] # None
    /\ At(r, "placement") \/ At(r, "waitPlacement") \/ r \in Done("bind") =>
         \A e \in Exports : apiBinding[e] # None
    /\ At(r, "waitPlacement") => placement # None
    /\ r \in Done("bind") => placement = "ready"
    /\ r \in Done("apiexport") => BindingsReady(r)

BindingsAreThere == \A r \in Runs : FoundBound(r)

CmdIInv ==
    /\ CmdTypeOK
    /\ ~spoiled => TargetIsTheirs /\ ObjectsAreThere /\ ExportIsListed /\ BindingsAreThere
=============================================================================
