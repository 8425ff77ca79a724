-------------------------------- MODULE MCKcp --------------------------------
(***************************************************************************)
(* Small instances, for TLC, of what runs beside kcp or against it: the    *)
(* controllers of SyncTargets and Locations, the coordination of the       *)
(* copies of an object, the objects that follow a workspace or a syncer,   *)
(* the commands of users, the informer factories and the start of the      *)
(* servers.  A behaviour is one of these, chosen at its beginning; the     *)
(* others do not move.                                                     *)
(***************************************************************************)
EXTENDS SyncTargets, InformerFactory, WorkspaceResources

CONSTANTS
    CopyTargets, Kinds, Replicas, Counts, Promoted, CopyBound,          \* of Coordination
    Runs, Offers, UIDs, Flags, Exports, CmdBound,                       \* of Commands
    Servers, StartBound                                                 \* of ServerStart

VARIABLES
    part,
    kind, obj, objSeen, changed, toSplit, toSum, wrote, rescued, copyEvents,
    offer, cmd, spoiled, cmdTarget, lastUID, localExport, account, role, binding, token, apiBinding,
    placement, cmdEvents,
    crd, boot, versioned, phase, started, deleted, startEvents

copyVars == <<kind, obj, objSeen, changed, toSplit, toSum, wrote, rescued, copyEvents>>
cmdVars == <<offer, cmd, spoiled, cmdTarget, lastUID, localExport, account, role, binding, token,
             apiBinding, placement, cmdEvents>>
startVars == <<crd, boot, versioned, phase, started, deleted, startEvents>>

all == <<part, vars, copyVars, cmdVars, startVars, factoryVars, wsVars>>

Copies == INSTANCE Coordination WITH
              up <- obj, seen <- objSeen, events <- copyEvents,
              Targets <- CopyTargets, MaxEvents <- CopyBound
Cmd == INSTANCE Commands WITH target <- cmdTarget
Boot == INSTANCE ServerStart

ASSUME CopyConstants == Copies!Constants
ASSUME CmdConstants == Cmd!Constants

-----------------------------------------------------------------------------
(* A part that does not move begins in one way only.                        *)
AnyInit ==
    /\ part \in {"targets", "copies", "commands", "start", "factory", "workspace"}
    /\ Init /\ Copies!Init /\ Cmd!CmdInit /\ Boot!StartInit
    /\ NewSharedInformerFactory /\ WsInit
    /\ part # "copies" => /\ kind = CHOOSE k \in Kinds : TRUE
                          /\ obj.replicas = CHOOSE r \in Replicas : TRUE
    /\ part # "commands" => offer = CHOOSE o \in Offers : "cordon" \notin o
    /\ part # "factory" => scope = "cluster"
    /\ part # "workspace" => wsKind = "scoped"

AnyNext ==
    /\ UNCHANGED part
    /\ \/ part = "targets" /\ Next /\ UNCHANGED <<copyVars, cmdVars, startVars, factoryVars, wsVars>>
       \/ part = "copies" /\ Copies!Next /\ UNCHANGED <<vars, cmdVars, startVars, factoryVars, wsVars>>
       \/ part = "commands" /\ Cmd!CmdNext /\ UNCHANGED <<vars, copyVars, startVars, factoryVars, wsVars>>
       \/ part = "start" /\ Boot!StartNext /\ UNCHANGED <<vars, copyVars, cmdVars, factoryVars, wsVars>>
       \/ part = "factory" /\ FactoryNext /\ UNCHANGED <<vars, copyVars, cmdVars, startVars, wsVars>>
       \/ part = "workspace" /\ WsNext /\ UNCHANGED <<vars, copyVars, cmdVars, startVars, factoryVars>>

AnySpec == AnyInit /\ [][AnyNext]_all

(* The fairness of the two parts with a property that needs it.             *)
TargetsFairness ==
    /\ WF_vars(part = "targets" /\ Tick) /\ WF_vars(part = "targets" /\ Informers)
    /\ WF_vars(part = "targets" /\ Locations)
    /\ \A t \in Targets : WF_vars(part = "targets" /\ HeartbeatProcess(t))

StartFairness ==
    /\ \A s \in Servers : WF_startVars(part = "start" /\ Boot!Hook(s))
    /\ \A i \in DOMAIN Boot!CRDs : WF_startVars(part = "start" /\ Boot!Establish(Boot!CRDs[i]))

-----------------------------------------------------------------------------
(* Properties.  Each that needs fairness assumes that of its own part.      *)

(* When the syncers stop for good the targets become and stay not ready     *)
(* and the location ends up with nothing available.                         *)
StopsAreNoticed == part = "targets" /\ TargetsFairness => StaleIsNoticed

(* The view of a syncer that stays shows the status that it wrote last, or  *)
(* showed when it was told to stay.                                         *)
OwnStatus == part = "copies" => Copies!OwnStatus

(* Replicas and status of a deployment add up over its targets when         *)
(* everybody is done.                                                       *)
QuietMeansCoordinated == part = "copies" => Copies!QuietMeansCoordinated

(* When all runs of workload sync, bind compute or bind apiexport report    *)
(* success, what they promise is there.                                     *)
CommandsKeepTheirWord ==
    part = "commands" => Cmd!SyncEnables /\ Cmd!BindBinds /\ Cmd!ExportIsBound

(* In the end every server runs all its controllers.                        *)
ServersStart == part = "start" /\ StartFairness => Boot!ServersStart
=============================================================================
