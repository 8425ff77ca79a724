---------------------------- MODULE ServerStart ----------------------------
(***************************************************************************)
(* How the TMC server starts.  Its post-start hooks run at the same time:  *)
(* one creates or updates the CRDs (phase 1), one then starts the          *)
(* informers (phase 2), and the hook of every controller waits for that.   *)
(* Two servers may start against the same storage, and either may end and  *)
(* start again.  Another server's update makes a copy of a CRD stale.      *)
(***************************************************************************)
EXTENDS Naturals, Sequences, SequencesExt

CONSTANTS
    Servers,      \* servers with the same storage
    StartBound    \* bound: events of the environment in one behaviour

VARIABLES
    crd,         \* [c]: "none", "new" or "established"
    boot,        \* [s]: what the hook that creates the CRDs is doing
    versioned,   \* [s]: the CRDs in memory that carry a resourceVersion
    phase,       \* [s]: the phases that are over: 0, 1 or 2
    started,     \* [s]: the hooks that are through
    deleted,     \* history: somebody has deleted a CRD
    startEvents

startVars == <<crd, boot, versioned, phase, started, deleted, startEvents>>

(* In the order in which they are created.                                     *)
CRDs == <<"synctargets", "placements">>

Beginning == [at |-> "get", n |-> 1, fresh |-> FALSE]

Current(s) == CRDs[boot[s].n]

-----------------------------------------------------------------------------
(* Phase 1 *)

(* Mutant: an error ends the hook.                                             *)
GiveUp == [at |-> "failed", n |-> 1, fresh |-> FALSE]

(* After an error all CRDs are gone through again.                             *)
TryAgain == Beginning

(* A write: the copies that others have are stale from now on.                 *)
Goto(s, step) == boot' = [boot EXCEPT ![s].at = step]

Wrote(s, c) ==
    boot' = [t \in Servers |->
        IF t = s THEN [boot[s] EXCEPT !.at = "wait"]
        ELSE IF Current(t) = c THEN [boot[t] EXCEPT !.fresh = FALSE] ELSE boot[t]]

Failed(s) == boot' = [boot EXCEPT ![s] = TryAgain]

GetCRD(s) ==
    /\ boot[s].at = "get"
    /\ boot' = IF crd[Current(s)] = "none" THEN [boot EXCEPT ![s].at = "create"]
               ELSE [boot EXCEPT ![s].at = "update", ![s].fresh = TRUE]
    /\ UNCHANGED <<crd, versioned, phase, started, deleted, startEvents>>

(* Somebody else may be faster.  An object with a resourceVersion cannot be    *)
(* created.                                                                    *)
CreateCRD(s) ==
    /\ boot[s].at = "create"
    /\ \/ /\ crd[Current(s)] = "none" /\ Current(s) \notin versioned[s]
          /\ crd' = [crd EXCEPT ![Current(s)] = "new"] /\ Wrote(s, Current(s))
       \/ /\ Current(s) \in versioned[s]
          /\ Failed(s) /\ UNCHANGED crd
       \/ /\ crd[Current(s)] # "none" /\ Current(s) \notin versioned[s]
          /\ Goto(s, "reget") /\ UNCHANGED crd
    /\ UNCHANGED <<versioned, phase, started, deleted, startEvents>>

GetAgain(s) ==
    /\ boot[s].at = "reget"
    /\ IF crd[Current(s)] = "none" THEN Failed(s)
       ELSE boot' = [boot EXCEPT ![s].at = "update", ![s].fresh = TRUE]
    /\ UNCHANGED <<crd, versioned, phase, started, deleted, startEvents>>

(* The resourceVersion is put into the object that the next attempt uses too.  *)
UpdateCRD(s) ==
    /\ boot[s].at = "update"
    /\ versioned' = [versioned EXCEPT ![s] = @ \cup {Current(s)}]
    /\ IF boot[s].fresh THEN Wrote(s, Current(s)) ELSE Failed(s)
    /\ UNCHANGED <<crd, phase, started, deleted, startEvents>>

(* The last CRD closes the channel of phase 1.                                 *)
WaitUntilEstablished(s) ==
    /\ boot[s].at = "wait" /\ crd[Current(s)] # "new"
    /\ \/ /\ crd[Current(s)] = "none" /\ Failed(s) /\ UNCHANGED phase
       \/ /\ crd[Current(s)] # "none" /\ boot[s].n < Len(CRDs)
          /\ boot' = [boot EXCEPT ![s].at = "get", ![s].n = @ + 1]
          /\ UNCHANGED phase
       \/ /\ crd[Current(s)] # "none" /\ boot[s].n = Len(CRDs)
          /\ Goto(s, "done") /\ phase' = [phase EXCEPT ![s] = 1]
    /\ UNCHANGED <<crd, versioned, started, deleted, startEvents>>

-----------------------------------------------------------------------------
(* Phase 2 and the controllers *)

(* The informers are synced when they could list their resources.              *)
StartInformers(s) ==
    /\ phase[s] = 1 /\ \A c \in ToSet(CRDs) : crd[c] = "established"
    /\ phase' = [phase EXCEPT ![s] = 2]
    /\ UNCHANGED <<crd, boot, versioned, started, deleted, startEvents>>

(* Those who wait for a phase get on when its channel is closed.               *)
WaitForSyncPhase(s, n) == phase[s] >= n

(* The phase that a hook waits for: the informers for every controller, the    *)
(* CRDs for the assets of the root workspace.                                  *)
HookPhase == [controllers |-> 2, apiresource |-> 2, root |-> 1]

StartControllers(s) ==
    /\ "controllers" \notin started[s] /\ WaitForSyncPhase(s, HookPhase.controllers)
    /\ started' = [started EXCEPT ![s] = @ \cup {"controllers"}]
    /\ UNCHANGED <<crd, boot, versioned, phase, deleted, startEvents>>

(* The controller of API resources has informers of its own.                   *)
StartAPIResource(s) ==
    /\ "apiresource" \notin started[s] /\ WaitForSyncPhase(s, HookPhase.apiresource)
    /\ \A c \in ToSet(CRDs) : crd[c] = "established"
    /\ started' = [started EXCEPT ![s] = @ \cup {"apiresource"}]
    /\ UNCHANGED <<crd, boot, versioned, phase, deleted, startEvents>>

(* The assets of the root workspace need the CRDs.                             *)
BootstrapRoot(s) ==
    /\ "root" \notin started[s] /\ WaitForSyncPhase(s, HookPhase.root)
    /\ started' = [started EXCEPT ![s] = @ \cup {"root"}]
    /\ UNCHANGED <<crd, boot, versioned, phase, deleted, startEvents>>

-----------------------------------------------------------------------------
(* Environment *)

Event == startEvents < StartBound /\ startEvents' = startEvents + 1

(* A new CRD becomes established, which is a write too.                        *)
Establish(c) ==
    /\ crd[c] = "new" /\ crd' = [crd EXCEPT ![c] = "established"]
    /\ boot' = [t \in Servers |-> IF Current(t) = c THEN [boot[t] EXCEPT !.fresh = FALSE] ELSE boot[t]]
    /\ UNCHANGED <<versioned, phase, started, deleted, startEvents>>

RequestFails(s) ==
    /\ Event /\ boot[s].at \notin {"done", "failed"} /\ Failed(s)
    /\ UNCHANGED <<crd, versioned, phase, started, deleted>>

Restart(s) ==
    /\ Event
    /\ boot' = [boot EXCEPT ![s] = Beginning] /\ versioned' = [versioned EXCEPT ![s] = {}]
    /\ phase' = [phase EXCEPT ![s] = 0] /\ started' = [started EXCEPT ![s] = {}]
    /\ UNCHANGED <<crd, deleted>>

DeleteCRD(c) ==
    /\ Event /\ crd[c] # "none"
    /\ crd' = [crd EXCEPT ![c] = "none"] /\ deleted' = TRUE
    /\ boot' = [t \in Servers |-> IF Current(t) = c THEN [boot[t] EXCEPT !.fresh = FALSE] ELSE boot[t]]
    /\ UNCHANGED <<versioned, phase, started>>

-----------------------------------------------------------------------------
(* Specification *)

StartInit ==
    /\ crd = [c \in ToSet(CRDs) |-> "none"]
    /\ boot = [s \in Servers |-> Beginning] /\ versioned = [s \in Servers |-> {}]
    /\ phase = [s \in Servers |-> 0] /\ started = [s \in Servers |-> {}]
    /\ deleted = FALSE /\ startEvents = 0

Hook(s) ==
    \/ GetCRD(s) \/ CreateCRD(s) \/ GetAgain(s) \/ UpdateCRD(s) \/ WaitUntilEstablished(s)
    \/ StartInformers(s) \/ StartAPIResource(s) \/ StartControllers(s) \/ BootstrapRoot(s)

StartNext ==
    \/ \E s \in Servers : Hook(s) \/ RequestFails(s) \/ Restart(s)
    \/ \E c \in ToSet(CRDs) : Establish(c) \/ DeleteCRD(c)

(* Every hook runs on, in a goroutine of its own.                              *)
StartFairness ==
    /\ \A s \in Servers : WF_startVars(Hook(s))
    /\ \A c \in ToSet(CRDs) : WF_startVars(Establish(c))

StartSpec == StartInit /\ [][StartNext]_startVars /\ StartFairness

-----------------------------------------------------------------------------
(* Properties *)

AllStarted == \A s \in Servers : started[s] = DOMAIN HookPhase

(* In the end every server runs all its controllers: servers that start        *)
(* together make each other's updates of the CRDs fail, hooks wait for one     *)
(* another, and nothing but a channel that is closed once tells them to go on. *)
(* This is so as long as nobody deletes a CRD.                                 *)
ServersStart == <>[](deleted \/ AllStarted)
=============================================================================
