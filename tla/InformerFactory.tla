--------------------------- MODULE InformerFactory ---------------------------
(***************************************************************************)
(* The factories of shared informers that the server and the syncer start  *)
(* their controllers with.  Controllers ask for informers, hooks start     *)
(* those that were asked for and wait until they are synced, and whoever   *)
(* ends the process shuts the factory down.  All do so at the same time,   *)
(* and every critical section of the lock is one step here.                *)
(*                                                                         *)
(* The factory for all workspaces ("cluster") can be shut down.  The one   *)
(* for a single workspace ("scoped") cannot, and does not count its        *)
(* goroutines.                                                             *)
(***************************************************************************)
EXTENDS Integers

CONSTANTS
    Types,    \* types of objects
    Callers   \* goroutines that use the factory, each with a stop channel

VARIABLES
    scope,             \* the kind of the factory
    informers,         \* the types that were asked for
    startedInformers,  \* those that were started
    runs,              \* [t]: how often the informer of t was run
    running,           \* the <<t, c>> with c's stop channel that run
    wg,                \* the goroutines that are counted
    shuttingDown,
    synced,            \* the informers that have synced
    stopped,           \* the callers whose stop channel is closed
    at,                \* [c]: what c is doing
    waiting            \* [c]: the informers c waits for

goroutines == <<runs, running, wg>>
factoryVars == <<scope, informers, startedInformers, goroutines, shuttingDown, synced, stopped, at,
                 waiting>>

States == {"idle", "syncing", "synced", "unsynced", "shutdown", "down"}

(* A caller makes one call at a time.                                       *)
Free(c) == at[c] \notin {"syncing", "shutdown"}

-----------------------------------------------------------------------------
(* Asking for an informer *)

(* The informer of a type is made once, whoever asks.                       *)
Ask(c, t) ==
    /\ Free(c)
    /\ informers' = informers \cup {t}
    /\ UNCHANGED <<scope, startedInformers, goroutines, shuttingDown, synced, stopped, at, waiting>>

InformerFor(c, t) == scope = "cluster" /\ Ask(c, t)

InformerForScoped(c, t) == scope = "scoped" /\ Ask(c, t)

(* By the name of the resource, or by the accessor of a type.               *)
ForResource(c, t) == InformerFor(c, t) \/ InformerForScoped(c, t)

-----------------------------------------------------------------------------
(* Starting *)

Unstarted == informers \ startedInformers

(* A goroutine for each, with the stop channel of the caller.               *)
Run(c, new) ==
    /\ runs' = [t \in Types |-> IF t \in new THEN runs[t] + 1 ELSE runs[t]]
    /\ running' = running \cup (new \X {c})

(* Mutant: what is shutting down is started.                                *)
StartAnyway(c) ==
    /\ Free(c) /\ scope = "cluster"
    /\ Run(c, Unstarted) /\ wg' = wg \cup (Unstarted \X {c})
    /\ startedInformers' = informers
    /\ UNCHANGED <<scope, informers, shuttingDown, synced, stopped, at, waiting>>

(* Start does nothing once the factory is shutting down.                    *)
Start(c) ==
    /\ Free(c) /\ scope = "cluster" /\ ~shuttingDown
    /\ Run(c, Unstarted) /\ wg' = wg \cup (Unstarted \X {c})
    /\ startedInformers' = startedInformers \cup informers
    /\ UNCHANGED <<scope, informers, shuttingDown, synced, stopped, at, waiting>>

StartScoped(c) ==
    /\ Free(c) /\ scope = "scoped"
    /\ Run(c, Unstarted)
    /\ startedInformers' = startedInformers \cup informers
    /\ UNCHANGED <<scope, informers, wg, shuttingDown, synced, stopped, at, waiting>>

(* An informer runs until its stop channel is closed; then its goroutine    *)
(* says that it is done.                                                    *)
RunReturns(t, c) ==
    /\ <<t, c>> \in running /\ c \in stopped
    /\ running' = running \ {<<t, c>>}
    /\ UNCHANGED <<scope, informers, startedInformers, runs, wg, shuttingDown, synced, stopped, at,
                   waiting>>

Done(t, c) ==
    /\ <<t, c>> \in wg \ running
    /\ wg' = wg \ {<<t, c>>}
    /\ UNCHANGED <<scope, informers, startedInformers, runs, running, shuttingDown, synced, stopped,
                   at, waiting>>

-----------------------------------------------------------------------------
(* Waiting *)

(* The started informers are looked up under the lock ...                   *)
WaitForCacheSync(c) ==
    /\ Free(c)
    /\ at' = [at EXCEPT ![c] = "syncing"]
    /\ waiting' = [waiting EXCEPT ![c] = startedInformers \cap informers]
    /\ UNCHANGED <<scope, informers, startedInformers, goroutines, shuttingDown, synced, stopped>>

(* ... and waited for without it, unless the caller is told to stop.        *)
CachesSynced(c) ==
    /\ at[c] = "syncing" /\ (waiting[c] \subseteq synced \/ c \in stopped)
    /\ at' = [at EXCEPT ![c] = IF waiting[c] \subseteq synced THEN "synced" ELSE "unsynced"]
    /\ UNCHANGED <<scope, informers, startedInformers, goroutines, shuttingDown, synced, stopped,
                   waiting>>

(* Shutdown marks the factory under the lock ...                            *)
Shutdown(c) ==
    /\ Free(c) /\ scope = "cluster"
    /\ shuttingDown' = TRUE
    /\ at' = [at EXCEPT ![c] = "shutdown"]
    /\ UNCHANGED <<scope, informers, startedInformers, goroutines, synced, stopped, waiting>>

(* ... and waits for the goroutines without it.                             *)
ShutdownReturns(c) ==
    /\ at[c] = "shutdown" /\ wg = {}
    /\ at' = [at EXCEPT ![c] = "down"]
    /\ UNCHANGED <<scope, informers, startedInformers, goroutines, shuttingDown, synced, stopped,
                   waiting>>

-----------------------------------------------------------------------------
(* Environment *)

InformerSyncs(t) ==
    /\ t \notin synced /\ \E c \in Callers : <<t, c>> \in running
    /\ synced' = synced \cup {t}
    /\ UNCHANGED <<scope, informers, startedInformers, goroutines, shuttingDown, stopped, at, waiting>>

Stop(c) ==
    /\ c \notin stopped /\ stopped' = stopped \cup {c}
    /\ UNCHANGED <<scope, informers, startedInformers, goroutines, shuttingDown, synced, at, waiting>>

-----------------------------------------------------------------------------
(* Specification *)

NewSharedInformerFactory ==
    /\ scope \in {"cluster", "scoped"}
    /\ informers = {} /\ startedInformers = {} /\ shuttingDown = FALSE
    /\ runs = [t \in Types |-> 0] /\ running = {} /\ wg = {}
    /\ synced = {} /\ stopped = {}
    /\ at = [c \in Callers |-> "idle"] /\ waiting = [c \in Callers |-> {}]

FactoryNext ==
    \/ \E c \in Callers :
          \/ Start(c) \/ StartScoped(c) \/ WaitForCacheSync(c) \/ CachesSynced(c)
          \/ Shutdown(c) \/ ShutdownReturns(c) \/ Stop(c)
    \/ \E c \in Callers, t \in Types : ForResource(c, t) \/ RunReturns(t, c) \/ Done(t, c)
    \/ \E t \in Types : InformerSyncs(t)

FactorySpec == NewSharedInformerFactory /\ [][FactoryNext]_factoryVars

-----------------------------------------------------------------------------
(* Properties *)

(* Every variable has its type.                                             *)
FactoryTypeOK ==
    /\ scope \in {"cluster", "scoped"}
    /\ informers \subseteq Types /\ startedInformers \subseteq Types /\ synced \subseteq Types
    /\ runs \in [Types -> Nat]
    /\ running \subseteq Types \X Callers /\ wg \subseteq Types \X Callers
    /\ shuttingDown \in BOOLEAN /\ stopped \subseteq Callers
    /\ at \in [Callers -> States] /\ waiting \in [Callers -> SUBSET Types]

(* "This allows Start() to be called multiple times safely": an informer is *)
(* run once, although several callers start what the others asked for.      *)
RunOnce == \A t \in Types : runs[t] <= 1

(* When Shutdown has returned to anybody no goroutine of the factory runs,  *)
(* and as this is an invariant none ever will, whoever calls Start later or *)
(* called it while Shutdown was waiting.                                    *)
ShutdownIsFinal == (\E c \in Callers : at[c] = "down") => running = {} /\ wg = {}

(* Who was told that the caches are synced, by WaitForCacheSync, finds all  *)
(* the informers synced that were started when it asked.                    *)
SyncedIsSynced == \A c \in Callers : at[c] = "synced" => waiting[c] \subseteq synced

(* What the users of a factory rely on.                                     *)
FactoryKeepsItsWord == RunOnce /\ ShutdownIsFinal /\ SyncedIsSynced

(* The rule of sync.WaitGroup: nothing is added to an empty group while     *)
(* somebody waits for it.  Start adds and Shutdown waits without a common   *)
(* lock.                                                                    *)
NothingAddedWhileWaiting ==
    [][(\E c \in Callers : at[c] = "shutdown") => wg' \subseteq wg]_factoryVars

-----------------------------------------------------------------------------
(* The inductive invariant behind the theorems of Kcp_proofs.               *)

(* The goroutines that run are those of the informers that were started,    *)
(* counted if the factory can be shut down, and nobody shuts down a factory *)
(* that is not marked.                                                      *)
FactoryIInv ==
    /\ FactoryTypeOK
    /\ startedInformers \subseteq informers
    /\ \A t \in Types : runs[t] = IF t \in startedInformers THEN 1 ELSE 0
    /\ scope = "cluster" => running \subseteq wg
    /\ \A c \in Callers : at[c] \in {"shutdown", "down"} => scope = "cluster" /\ shuttingDown
    /\ (\E c \in Callers : at[c] = "down") => wg = {}
    /\ SyncedIsSynced
=============================================================================
