------------------------------ MODULE MCSyncer ------------------------------
(***************************************************************************)
(* Small instances, for TLC, of what the syncer does besides syncing to    *)
(* the physical cluster: it upsyncs, it starts and stops its controllers   *)
(* as the SyncTarget changes, and it keeps a tunnel open to kcp.  A        *)
(* behaviour is one of these, chosen at its beginning; the others do not   *)
(* move.                                                                   *)
(***************************************************************************)
EXTENDS Upsync

CONSTANTS
    None,
    Shards, Resources, RequiredGVRs, ProcessBound, ProcessEvents,  \* of SyncerProcess
    Conns, Clients, Overlap, TunnelBound, TunnelEvents             \* of Tunnel

VARIABLES
    part,
    target, targetSeen, on, queued, committing, allowed, discovered, gvrs, notified,
    informers, made, resync, endpoints, returned, controllers, starting, alive, started, runs,
    overtaken, tunnels, processEvents,
    conn, pool, ready, failed, listener, client, tunnelEvents

processVars == <<target, targetSeen, on, queued, committing, allowed, discovered, gvrs, notified,
                 informers, made, resync, endpoints, returned, controllers, starting, alive, started, runs,
                 overtaken, tunnels, processEvents>>
tunnelVars == <<conn, pool, ready, failed, listener, client, tunnelEvents>>

all == <<part, vars, processVars, tunnelVars>>

P == INSTANCE SyncerProcess WITH
         events <- processEvents, MaxEvents <- ProcessBound, Events <- ProcessEvents
T == INSTANCE Tunnel WITH
         events <- tunnelEvents, MaxEvents <- TunnelBound, Events <- TunnelEvents

ASSUME ProcessConstants == P!Constants

-----------------------------------------------------------------------------
AnyInit ==
    /\ part \in {"upsync", "process", "tunnel"}
    /\ Init /\ (part # "upsync" => down = NoObject) /\ P!Init /\ T!Init

AnyNext ==
    /\ UNCHANGED part
    /\ \/ part = "upsync" /\ Next /\ UNCHANGED <<processVars, tunnelVars>>
       \/ part = "process" /\ P!Next /\ UNCHANGED <<vars, tunnelVars>>
       \/ part = "tunnel" /\ T!Next /\ UNCHANGED <<vars, processVars>>

UpsyncFairness ==
    /\ WF_vars(part = "upsync" /\ (Upsyncer \/ Orphan("upsync")))
    /\ WF_vars(part = "upsync" /\ (Cleanup \/ Orphan("cleanup")))
    /\ WF_vars(part = "upsync" /\ DeliverDownstream)
    /\ WF_vars(part = "upsync" /\ DeliverNamespace)
    /\ WF_vars(part = "upsync" /\ DeliverUpstream)
    /\ WF_vars(part = "upsync" /\ EnqueueDownstream)
    /\ WF_vars(part = "upsync" /\ EnqueueDeletedDownstreamNamespace)
    /\ WF_vars(part = "upsync" /\ Gone)

ProcessFairness ==
    /\ WF_processVars(part = "process" /\ P!StartSyncer)
    /\ WF_processVars(part = "process" /\ P!Heartbeat)
    /\ WF_processVars(part = "process" /\ P!Process)
    /\ WF_processVars(part = "process" /\ P!Commit)
    /\ WF_processVars(part = "process" /\ P!SeeTarget)
    /\ WF_processVars(part = "process" /\ P!UpdateInformers)
    /\ WF_processVars(part = "process" /\ P!ManagerProcess)
    /\ WF_processVars(part = "process" /\ \E x \in starting, ok \in BOOLEAN : P!StartReturns(x, ok))
    /\ \A r \in Resources : WF_processVars(part = "process" /\ P!InformerSyncs(r))

TunnelFairness ==
    /\ WF_tunnelVars(part = "tunnel" /\ T!StartTunneler)
    /\ WF_tunnelVars(part = "tunnel" /\ T!GrabConn)
    /\ \A c \in Conns : WF_tunnelVars(part = "tunnel" /\ T!OfConn(c))
    /\ \A k \in Clients : WF_tunnelVars(part = "tunnel" /\ T!OfClient(k))

AnySpec == AnyInit /\ [][AnyNext]_all

-----------------------------------------------------------------------------
(* Properties.  Each that needs fairness assumes that of its own part.      *)

(* An object that is gone from the cluster goes from the workspace, and one *)
(* that stays arrives with its content, in the end.                         *)
FollowsCluster == part = "upsync" /\ UpsyncFairness => GoneFromWorkspace /\ ArrivesInWorkspace

(* The controllers of exactly the shards of the SyncTarget run, once each,  *)
(* and the informers are those of the resources watched, when everybody is  *)
(* done, but for what was removed or came back too early.                   *)
QuietMeansRunning == part = "process" => P!QuietMeansRunning

(* The resources that are accepted, served and allowed, and no others that  *)
(* are not allowed, are watched again and again.                            *)
AcceptedIsWatched == part = "process" /\ ProcessFairness => P!AcceptedIsWatched

(* The tunnel comes back after whatever happens to the syncer, and dialing  *)
(* through it ends.                                                         *)
TunnelServes == part = "tunnel" /\ TunnelFairness => T!TunnelComesBack /\ T!DialEnds
=============================================================================
