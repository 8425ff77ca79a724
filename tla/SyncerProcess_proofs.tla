------------------------ MODULE SyncerProcess_proofs ------------------------
(***************************************************************************)
(* The syncer process runs what its SyncTarget asks for, for any shards,   *)
(* resources, failures and numbers of events.                              *)
(*                                                                         *)
(* ProcessIInv says at any time what is known of the work under way: the   *)
(* goroutines that start controllers are those of the entries that are not *)
(* ready, unless their shard was overtaken, a pass that has not done       *)
(* everything is due again, and the endpoints controller listens to        *)
(* informers of this moment or is about to be stopped, unless a resource   *)
(* came back too early.                                                    *)
(***************************************************************************)
EXTENDS MCSyncer, FiniteSetTheorems, TLAPS

-----------------------------------------------------------------------------
(* Parts of the process *)

(* A step that leaves the shard manager alone.                               *)
LEMMA ShardsStay ==
    ASSUME P!ManagedAreAlive, UNCHANGED <<controllers, starting, alive, started, runs, overtaken>>
    PROVE  P!ManagedAreAlive'
  BY DEF P!ManagedAreAlive, P!ShardIsKnown, P!Managed, P!EntryOf

(* A step that leaves the controllers and tunnels alone, and a pass due.     *)
LEMMA PassStays ==
    ASSUME P!RequiredAreManaged, UNCHANGED <<controllers, overtaken, tunnels, targetSeen>>,
           P!PassIsDue => P!PassIsDue'
    PROVE  P!RequiredAreManaged'
  BY DEF P!RequiredAreManaged, P!Managed, P!RequiredShards, P!Served

(* A step that leaves the informers alone.                                   *)
LEMMA InformersStay ==
    ASSUME P!WatchedHaveInformers, UNCHANGED <<notified, gvrs, informers>>
    PROVE  P!WatchedHaveInformers'
  BY DEF P!WatchedHaveInformers

(* A step that leaves the controller manager alone.                          *)
LEMMA EndpointsStay ==
    ASSUME P!EndpointsListen, UNCHANGED <<resync, informers, endpoints, returned>>
    PROVE  P!EndpointsListen'
  BY DEF P!EndpointsListen, P!Missing

(* A pass is queued, and will see to the rest.                               *)
LEMMA DuePasses ==
    ASSUME queued'
    PROVE  P!RequiredAreManaged'
  BY DEF P!RequiredAreManaged, P!PassIsDue

(* Nothing is left of a process that ends.                                   *)
LEMMA OffKeeps ==
    ASSUME P!Off, target' \in P!SyncTarget \cup {None}
    PROVE  P!ProcessIInv'
  <1>1. /\ on' = FALSE /\ queued' = FALSE /\ committing' = None /\ targetSeen' = None
        /\ gvrs' = {} /\ notified' = FALSE
        /\ informers' = P!NoInformers /\ made' = 0 /\ resync' = FALSE /\ endpoints' = None /\ returned' = FALSE
        /\ controllers' = P!NoControllers /\ starting' = {} /\ alive' = {} /\ started' = {} /\ runs' = 0
        /\ overtaken' = {} /\ tunnels' = {}
    BY DEF P!Off
  <1>2. P!ProcessTypeOK'
    BY <1>1 DEF P!ProcessTypeOK, P!NoInformers, P!NoControllers
  <1>3. P!Managed' = {}
    BY <1>1 DEF P!Managed, P!NoControllers
  <1>4. P!ManagedAreAlive' BY <1>1, <1>3 DEF P!ManagedAreAlive, P!ShardIsKnown
  <1>5. P!RequiredAreManaged'
    BY <1>1, <1>3 DEF P!RequiredAreManaged, P!RequiredShards, P!Served
  <1>6. \A r \in Resources : informers'[r] = None BY <1>1 DEF P!NoInformers
  <1>7. P!WatchedHaveInformers' BY <1>1, <1>6 DEF P!WatchedHaveInformers
  <1>8. P!EndpointsListen'
    <2>1. \E r \in RequiredGVRs : informers'[r] = None BY <1>6, ProcessConstants DEF P!Constants
    <2>2. P!Missing' # {} BY <2>1 DEF P!Missing
    <2> QED BY <1>1, <2>1, <2>2 DEF P!EndpointsListen
  <1> QED BY <1>2, <1>4, <1>5, <1>7, <1>8 DEF P!ProcessIInv

(* The process starts, the event handler of the SyncTarget and the heartbeat *)
(* queue it.                                                                 *)
LEMMA QueueKeeps ==
    ASSUME P!ProcessIInv, P!StartSyncer \/ P!SeeTarget \/ P!Heartbeat
    PROVE  P!ProcessIInv'
  <1>1. /\ on' = TRUE /\ queued' = TRUE /\ targetSeen' \in {target, targetSeen}
        /\ UNCHANGED <<target, committing, allowed, discovered, gvrs, notified, informers, made, resync, endpoints,
                       returned, controllers, starting, alive, started, runs, overtaken, tunnels>>
    BY DEF P!ProcessIInv, P!ProcessTypeOK, P!StartSyncer, P!SeeTarget, P!Heartbeat, P!status, P!cluster, P!watching,
           P!managed, P!shards
  <1>2. P!ProcessTypeOK' BY <1>1 DEF P!ProcessIInv, P!ProcessTypeOK
  <1> QED BY <1>1, <1>2, ShardsStay, InformersStay, EndpointsStay, DuePasses DEF P!ProcessIInv

(* The end of a pass: it is queued again if the pass was not the last one.   *)
LEMMA CommitKeeps ==
    ASSUME P!ProcessIInv, P!Commit
    PROVE  P!ProcessIInv'
  <1> DEFINE same == committing.old = None \/ committing.old.unauthorized = committing.unauthorized
  <1>1. /\ on /\ committing # None /\ committing' = None
        /\ target' = IF ~same /\ target = committing.old
                     THEN [target EXCEPT !.unauthorized = committing.unauthorized] ELSE target
        /\ queued' = (queued \/ committing.again \/ (~same /\ target # committing.old))
        /\ UNCHANGED <<targetSeen, on, allowed, discovered, gvrs, notified, informers, made,
                       resync, endpoints, returned, controllers, starting, alive, started, runs, overtaken, tunnels>>
    BY DEF P!Commit, P!cluster, P!watching, P!managed, P!shards
  <1>2. P!ProcessTypeOK BY DEF P!ProcessIInv
  <1>3. committing \in P!Pass BY <1>1, <1>2 DEF P!ProcessTypeOK
  <1>4. committing.unauthorized \in SUBSET Resources BY <1>3 DEF P!Pass
  <1>5. target' \in P!SyncTarget \cup {None}
    <2>1. target = committing.old /\ ~same => target # None OBVIOUS
    <2>2. \A t \in P!SyncTarget, u \in SUBSET Resources : [t EXCEPT !.unauthorized = u] \in P!SyncTarget
      BY DEF P!SyncTarget
    <2> QED BY <1>1, <1>2, <1>4, <2>1, <2>2 DEF P!ProcessTypeOK
  <1>6. queued' \in BOOLEAN BY <1>1
  <1>7. P!ProcessTypeOK' BY <1>1, <1>2, <1>5, <1>6 DEF P!ProcessTypeOK
  <1>8. P!PassIsDue => P!PassIsDue' BY <1>1 DEF P!PassIsDue
  <1> QED BY <1>1, <1>7, <1>8, ShardsStay, InformersStay, EndpointsStay, PassStays DEF P!ProcessIInv

(* What is done to the SyncTarget, to what the cluster serves and to what it *)
(* allows, and a crash.                                                      *)
LEMMA EnvironmentKeeps ==
    ASSUME P!ProcessIInv,
           \/ P!SetShards \/ P!SetAccepted \/ P!ReplaceTarget \/ P!CreateTarget \/ P!Permissions \/ P!Discovery
           \/ P!Crash
    PROVE  P!ProcessIInv'
  <1>1. P!ProcessTypeOK /\ target \in P!SyncTarget \cup {None} BY DEF P!ProcessIInv, P!ProcessTypeOK
  <1>2. ASSUME target' \in P!SyncTarget \cup {None},
               UNCHANGED <<targetSeen, on, queued, committing, gvrs, notified, informers, made,
                       resync, endpoints, returned, controllers, starting, alive, started, runs, overtaken, tunnels>>
        PROVE  P!ProcessIInv'
    <2>1. P!ProcessTypeOK' BY <1>1, <1>2 DEF P!ProcessTypeOK
    <2>2. P!PassIsDue => P!PassIsDue' BY <1>2 DEF P!PassIsDue
    <2> QED BY <1>2, <2>1, <2>2, ShardsStay, InformersStay, EndpointsStay, PassStays DEF P!ProcessIInv
  <1>3. CASE P!SetShards \/ P!SetAccepted
    <2>1. UNCHANGED <<targetSeen, on, queued, committing, allowed, gvrs, notified, informers, made,
                       resync, endpoints, returned, controllers, starting, alive, started, runs, overtaken, tunnels>>
      BY <1>3 DEF P!SetShards, P!SetAccepted, P!cluster, P!watching, P!managed, P!shards
    <2>2. \A t \in P!SyncTarget, u \in SUBSET Shards : [t EXCEPT !.shards = u] \in P!SyncTarget
      BY DEF P!SyncTarget
    <2>3. \A t \in P!SyncTarget, u \in SUBSET Resources : [t EXCEPT !.accepted = u] \in P!SyncTarget
      BY DEF P!SyncTarget
    <2>4. target' \in P!SyncTarget BY <1>1, <1>3, <2>2, <2>3 DEF P!SetShards, P!SetAccepted
    <2> QED BY <1>2, <2>1, <2>4
  <1>4. CASE P!ReplaceTarget \/ P!CreateTarget
    <2>1. UNCHANGED <<targetSeen, on, queued, committing, allowed, gvrs, notified, informers, made,
                       resync, endpoints, returned, controllers, starting, alive, started, runs, overtaken, tunnels>>
      BY <1>4 DEF P!ReplaceTarget, P!CreateTarget, P!cluster, P!watching, P!managed, P!shards
    <2>2. [uid |-> P!Uid + 1, shards |-> Shards, accepted |-> Resources, unauthorized |-> {}] \in P!SyncTarget
      BY DEF P!SyncTarget, P!Uid
    <2>3. target' \in P!SyncTarget \cup {None}
      BY <1>1, <1>4, <2>2 DEF P!ReplaceTarget, P!CreateTarget
    <2> QED BY <1>2, <2>1, <2>3
  <1>5. CASE P!Discovery
    BY <1>1, <1>2, <1>5 DEF P!Discovery, P!status, P!watching, P!managed, P!shards
  <1>6. CASE P!Permissions
    BY <1>1, <1>2, <1>6 DEF P!Permissions, P!status, P!watching, P!managed, P!shards
  <1>7. CASE P!Crash
    BY <1>1, <1>7, OffKeeps DEF P!Crash
  <1> QED BY <1>3, <1>4, <1>5, <1>6, <1>7

-----------------------------------------------------------------------------
(* Informers and goroutines *)

(* The informer factory makes the missing informers and stops the others     *)
(* (UpdateInformers).                                                        *)
LEMMA UpdateKeeps ==
    ASSUME P!ProcessIInv, P!UpdateInformers
    PROVE  P!ProcessIInv'
  <1>1. /\ on /\ notified' = FALSE /\ resync' = TRUE
        /\ informers' = [r \in Resources |->
                           IF r \notin gvrs THEN None
                           ELSE IF informers[r] # None THEN informers[r]
                           ELSE [made |-> made + 1, synced |-> FALSE]]
        /\ made' = IF \E r \in gvrs : informers[r] = None THEN made + 1 ELSE made
        /\ returned' = (returned \/ (endpoints # None /\ \E r \in RequiredGVRs \cap gvrs : informers[r] = None))
        /\ UNCHANGED <<target, targetSeen, on, queued, committing, allowed, discovered, gvrs, endpoints,
                       controllers, starting, alive, started, runs, overtaken, tunnels>>
    BY DEF P!UpdateInformers, P!status, P!cluster, P!shards
  <1>2. /\ P!ProcessTypeOK /\ made \in Nat /\ informers \in [Resources -> P!Informer \cup {None}]
        /\ P!ManagedAreAlive /\ P!RequiredAreManaged /\ P!WatchedHaveInformers /\ P!EndpointsListen
    BY DEF P!ProcessIInv, P!ProcessTypeOK
  <1>3. None \notin P!Informer /\ RequiredGVRs \subseteq Resources BY ProcessConstants DEF P!Constants
  <1>4. [made |-> made + 1, synced |-> FALSE] \in P!Informer BY <1>2 DEF P!Informer
  <1>5. P!ProcessTypeOK'
    <2>1. informers' \in [Resources -> P!Informer \cup {None}] BY <1>1, <1>2, <1>4
    <2>2. made' \in Nat BY <1>1, <1>2
    <2> QED BY <1>1, <1>2, <2>1, <2>2 DEF P!ProcessTypeOK
  <1>6. \A r \in Resources : /\ informers'[r] # None <=> r \in gvrs
                             /\ r \in gvrs /\ informers[r] # None => informers'[r] = informers[r]
    BY <1>1, <1>3, <1>4
  <1>7. P!WatchedHaveInformers' BY <1>1, <1>6 DEF P!WatchedHaveInformers
  <1>8. P!EndpointsListen'
    <2>1. returned => endpoints # None BY <1>2 DEF P!EndpointsListen
    <2> SUFFICES ASSUME ~returned', endpoints # None, NEW r \in RequiredGVRs
                 PROVE  informers'[r] = None \/ (informers'[r].made = endpoints[r] /\ informers'[r].synced)
      BY <1>1, <2>1 DEF P!EndpointsListen
    <2>2. informers[r] = None \/ (informers[r].made = endpoints[r] /\ informers[r].synced)
      BY <1>1, <1>2 DEF P!EndpointsListen
    <2>3. r \in gvrs => informers[r] # None BY <1>1
    <2> QED BY <1>3, <1>6, <2>2, <2>3
  <1>9. P!PassIsDue => P!PassIsDue' BY <1>1 DEF P!PassIsDue
  <1> QED BY <1>1, <1>2, <1>5, <1>7, <1>8, <1>9, ShardsStay, PassStays DEF P!ProcessIInv

(* An informer has synced.                                                   *)
LEMMA SyncsKeeps ==
    ASSUME P!ProcessIInv, NEW r \in Resources, P!InformerSyncs(r)
    PROVE  P!ProcessIInv'
  <1>1. /\ on /\ informers[r] # None /\ informers' = [informers EXCEPT ![r].synced = TRUE] /\ ~informers[r].synced
        /\ UNCHANGED <<target, targetSeen, on, queued, committing, allowed, discovered, gvrs, notified, made, resync,
                       endpoints, returned, controllers, starting, alive, started, runs, overtaken, tunnels>>
    BY DEF P!InformerSyncs, P!status, P!cluster, P!watching, P!shards
  <1>2. /\ P!ProcessTypeOK /\ informers \in [Resources -> P!Informer \cup {None}]
        /\ P!ManagedAreAlive /\ P!RequiredAreManaged /\ P!WatchedHaveInformers /\ P!EndpointsListen
    BY DEF P!ProcessIInv, P!ProcessTypeOK
  <1>3. None \notin P!Informer /\ RequiredGVRs \subseteq Resources BY ProcessConstants DEF P!Constants
  <1>4. /\ informers' \in [Resources -> P!Informer \cup {None}]
        /\ \A x \in Resources : x # r => informers'[x] = informers[x]
        /\ informers'[r] # None /\ informers'[r].made = informers[r].made
    <2>1. informers[r] \in P!Informer BY <1>1, <1>2
    <2>2. \A i \in P!Informer : [i EXCEPT !.synced = TRUE] \in P!Informer /\ [i EXCEPT !.synced = TRUE].made = i.made
      BY DEF P!Informer
    <2> DEFINE new == [informers[r] EXCEPT !.synced = TRUE]
    <2>3. informers' = [informers EXCEPT ![r] = new] BY <1>1
    <2>4. new \in P!Informer /\ new.made = informers[r].made BY <2>1, <2>2
    <2> HIDE DEF new
    <2> QED BY <1>2, <1>3, <2>3, <2>4
  <1>5. P!ProcessTypeOK' BY <1>1, <1>2, <1>4 DEF P!ProcessTypeOK
  <1>6. \A x \in Resources : informers'[x] = None <=> informers[x] = None BY <1>1, <1>4
  <1>7. P!WatchedHaveInformers'
    BY <1>1, <1>2, <1>6 DEF P!WatchedHaveInformers
  <1>8. P!EndpointsListen'
    <2>1. P!Missing = {} => P!Missing' = {}
      <3> SUFFICES ASSUME P!Missing = {}, NEW x \in RequiredGVRs
                   PROVE  informers'[x] # None /\ informers'[x].synced
        BY DEF P!Missing
      <3>1. informers[x] # None /\ informers[x].synced BY DEF P!Missing
      <3>2. x # r BY <1>1, <3>1
      <3> QED BY <1>3, <1>4, <3>1, <3>2
    <2>2. (\E x \in RequiredGVRs : informers[x] = None) => P!Missing' # {} /\ \E x \in RequiredGVRs : informers'[x] = None
      BY <1>3, <1>6 DEF P!Missing
    <2>3. \A x \in RequiredGVRs : informers[x] # None /\ informers[x].synced => informers'[x] = informers[x]
      BY <1>1, <1>3, <1>4
    <2>4. ~returned /\ ~resync => IF P!Missing' = {} THEN endpoints # None
                                  ELSE endpoints = None /\ \E x \in RequiredGVRs : informers'[x] = None
      BY <1>2, <2>1, <2>2 DEF P!EndpointsListen
    <2>5. ~returned /\ endpoints # None =>
            \A x \in RequiredGVRs : informers'[x] = None \/ (informers'[x].made = endpoints[x] /\ informers'[x].synced)
      BY <1>2, <1>3, <1>6, <2>3 DEF P!EndpointsListen
    <2> QED BY <1>1, <1>2, <2>4, <2>5 DEF P!EndpointsListen
  <1>9. P!PassIsDue => P!PassIsDue' BY <1>1 DEF P!PassIsDue
  <1> QED BY <1>1, <1>2, <1>5, <1>7, <1>8, <1>9, ShardsStay, PassStays DEF P!ProcessIInv

(* The controller manager starts or stops the endpoints controller           *)
(* (ManagerProcess).                                                         *)
LEMMA ManagerKeeps ==
    ASSUME P!ProcessIInv, P!ManagerProcess
    PROVE  P!ProcessIInv'
  <1>1. /\ on /\ UNCHANGED <<target, targetSeen, on, queued, committing, allowed, discovered, gvrs, notified, informers,
                       made, controllers, starting, alive, started, runs, overtaken, tunnels>>
    BY DEF P!ManagerProcess, P!status, P!cluster, P!watching, P!shards
  <1>2. /\ P!ProcessTypeOK /\ informers \in [Resources -> P!Informer \cup {None}]
        /\ P!ManagedAreAlive /\ P!RequiredAreManaged /\ P!WatchedHaveInformers /\ P!EndpointsListen
    BY DEF P!ProcessIInv, P!ProcessTypeOK
  <1>3. None \notin [RequiredGVRs -> Nat] /\ RequiredGVRs \subseteq Resources BY ProcessConstants DEF P!Constants
  <1>4. P!ProcessTypeOK' /\ P!EndpointsListen'
    <2>0. P!Missing' = P!Missing BY <1>1 DEF P!Missing
    <2>1. CASE P!Missing = {}
      <3> DEFINE listened == [r \in RequiredGVRs |-> informers[r].made]
      <3>1. resync' = FALSE /\ returned' = returned /\ endpoints' = IF endpoints # None THEN endpoints ELSE listened
        BY <2>1 DEF P!ManagerProcess
      <3>2. \A r \in RequiredGVRs : informers[r] # None /\ informers[r].synced BY <2>1 DEF P!Missing
      <3>3. listened \in [RequiredGVRs -> Nat]
        BY <1>2, <1>3, <3>2 DEF P!Informer
      <3>4. endpoints' \in [RequiredGVRs -> Nat] BY <1>2, <3>1, <3>3 DEF P!ProcessTypeOK
      <3>5. endpoints' # None BY <1>3, <3>4
      <3>6. ~returned => \A r \in RequiredGVRs : informers[r].made = endpoints'[r]
        BY <1>2, <3>1, <3>2 DEF P!EndpointsListen
      <3> HIDE DEF listened
      <3>7. P!ProcessTypeOK' BY <1>1, <1>2, <3>1, <3>4 DEF P!ProcessTypeOK
      <3> QED BY <1>1, <2>0, <2>1, <3>1, <3>2, <3>5, <3>6, <3>7 DEF P!EndpointsListen
    <2>2. CASE P!Missing # {}
      <3>1. endpoints' = None /\ returned' = FALSE /\ \E r \in P!Missing : resync' = (informers[r] # None)
        BY <2>2 DEF P!ManagerProcess, P!ResyncFor
      <3>2. resync' \in BOOLEAN BY <3>1
      <3>3. ~resync' => \E r \in RequiredGVRs : informers[r] = None BY <3>1 DEF P!Missing
      <3> QED BY <1>1, <1>2, <2>0, <2>2, <3>1, <3>2, <3>3 DEF P!ProcessTypeOK, P!EndpointsListen
    <2> QED BY <2>1, <2>2
  <1>5. P!PassIsDue => P!PassIsDue' BY <1>1 DEF P!PassIsDue
  <1> QED BY <1>1, <1>2, <1>4, <1>5, ShardsStay, InformersStay, PassStays DEF P!ProcessIInv

(* A goroutine has started the controllers of a shard, which is still managed *)
(* unless it was overtaken.                                                  *)
LEMMA ReturnKeeps ==
    ASSUME P!ProcessIInv, NEW x \in starting, NEW ok \in BOOLEAN, P!StartReturns(x, ok)
    PROVE  P!ProcessIInv'
  <1> DEFINE s == x.shard
  <1>1. /\ starting' = starting \ {x} /\ (ok \/ x \notin alive)
        /\ UNCHANGED <<target, targetSeen, on, queued, committing, allowed, discovered, gvrs, notified, informers,
                       made, resync, endpoints, returned, alive, runs, overtaken, tunnels>>
    BY DEF P!StartReturns, P!status, P!cluster, P!watching, P!managed
  <1>2. /\ P!ProcessTypeOK /\ controllers \in [Shards -> P!Entry \cup {None}] /\ runs \in Nat
        /\ P!ManagedAreAlive /\ P!RequiredAreManaged /\ P!WatchedHaveInformers /\ P!EndpointsListen
    BY DEF P!ProcessIInv, P!ProcessTypeOK
  <1>3. /\ x \in P!Starter /\ alive \subseteq P!Starter /\ starting \subseteq P!Starter
        /\ started \subseteq P!Starter /\ overtaken \subseteq Shards /\ \A y \in started \cup starting : y.run <= runs
    BY <1>2 DEF P!ManagedAreAlive
  <1>4. s \in Shards /\ x = [shard |-> s, run |-> x.run] BY <1>3 DEF P!Starter
  <1>5. /\ \/ ok /\ started' = started \cup {x}
              /\ controllers' = [controllers EXCEPT ![s] = IF controllers[s] = None THEN P!Zombie
                                                           ELSE [controllers[s] EXCEPT !.ready = TRUE]]
           \/ ~ok /\ started' = started /\ controllers' = [controllers EXCEPT ![s] = None]
    BY <1>2, <1>4 DEF P!StartReturns
  <1>6. \A e \in P!Entry : /\ [e EXCEPT !.ready = TRUE] \in P!Entry /\ [e EXCEPT !.ready = TRUE].run = e.run
                           /\ [e EXCEPT !.ready = TRUE].ready = TRUE
    BY DEF P!Entry
  <1>7. /\ controllers' \in [Shards -> P!Entry \cup {None}]
        /\ \A u \in Shards : u # s => controllers'[u] = controllers[u]
    <2>1. P!Zombie \in P!Entry BY DEF P!Zombie, P!Entry
    <2>2. PICK e \in P!Entry \cup {None} : controllers' = [controllers EXCEPT ![s] = e]
      <3>1. controllers[s] # None => [controllers[s] EXCEPT !.ready = TRUE] \in P!Entry BY <1>2, <1>4, <1>6
      <3> QED BY <1>5, <2>1, <3>1
    <2> QED BY <1>2, <1>4, <2>2
  <1>8. P!ProcessTypeOK' BY <1>1, <1>2, <1>7 DEF P!ProcessTypeOK
  <1>9. ASSUME s \notin overtaken
        PROVE  /\ s \in P!Managed /\ x = P!EntryOf(s) /\ controllers[s].run \in 1..runs /\ x \in alive
               /\ controllers'[s] # None /\ controllers'[s].run = controllers[s].run /\ controllers'[s].ready
               /\ started' = started \cup {x}
    <2>1. P!ShardIsKnown(s) BY <1>2, <1>4, <1>9 DEF P!ManagedAreAlive
    <2>2. s \in P!Managed /\ x.run = controllers[s].run BY <2>1 DEF P!ShardIsKnown
    <2>3. x = P!EntryOf(s) BY <1>4, <2>2 DEF P!EntryOf
    <2>4. x \in alive /\ controllers[s].run \in 1..runs BY <2>1, <2>2, <2>3 DEF P!ShardIsKnown
    <2>5. controllers[s] # None /\ controllers[s] \in P!Entry BY <1>2, <1>4, <2>2 DEF P!Managed
    <2> DEFINE e == [controllers[s] EXCEPT !.ready = TRUE]
    <2>6. controllers' = [controllers EXCEPT ![s] = e] /\ started' = started \cup {x} BY <1>1, <1>5, <2>4, <2>5
    <2>7. e \in P!Entry /\ e.run = controllers[s].run /\ e.ready = TRUE BY <1>6, <2>5
    <2> HIDE DEF e
    <2>8. controllers'[s] = e BY <1>2, <1>4, <2>6
    <2>9. e # None BY <2>7, ProcessConstants DEF P!Constants
    <2> QED BY <2>2, <2>3, <2>4, <2>6, <2>7, <2>8, <2>9
  <1> HIDE DEF s
  <1>10. ASSUME NEW u \in Shards \ overtaken
         PROVE  P!ShardIsKnown(u)' /\ (u \in P!Managed' <=> u \in P!Managed)
    <2>1. P!ShardIsKnown(u) BY <1>2 DEF P!ManagedAreAlive
    <2>2. CASE u = s
      <3>1. u \in P!Managed' /\ P!EntryOf(u)' = P!EntryOf(u) /\ P!EntryOf(u) = x
        BY <1>9, <2>2 DEF P!Managed, P!EntryOf
      <3>2. \A y \in alive' \cup starting' : y.shard = u => y.run = controllers'[u].run
        BY <1>1, <1>9, <2>1, <2>2 DEF P!ShardIsKnown
      <3>3. controllers'[u].run \in 1..runs' /\ P!EntryOf(u)' \in alive' /\ controllers'[u].ready
        BY <1>1, <1>9, <2>2, <3>1
      <3>4. P!EntryOf(u)' \in started' /\ P!EntryOf(u)' \notin starting'
        BY <1>1, <1>9, <2>2, <3>1
      <3>5. u \in P!Managed BY <1>9, <2>2
      <3> QED BY <3>1, <3>2, <3>3, <3>4, <3>5 DEF P!ShardIsKnown
    <2>3. CASE u # s
      <3>1. controllers'[u] = controllers[u] BY <1>7, <2>3
      <3>2. (u \in P!Managed' <=> u \in P!Managed) /\ P!EntryOf(u)' = P!EntryOf(u)
        BY <3>1 DEF P!Managed, P!EntryOf
      <3>3. P!EntryOf(u) # x BY <2>3 DEF P!EntryOf, s
      <3>4. /\ P!EntryOf(u) \in started' <=> P!EntryOf(u) \in started
            /\ P!EntryOf(u) \in starting' <=> P!EntryOf(u) \in starting
        BY <1>1, <1>5, <3>3
      <3> QED BY <1>1, <2>1, <3>1, <3>2, <3>4 DEF P!ShardIsKnown
    <2> QED BY <2>2, <2>3
  <1>11. P!ManagedAreAlive'
    <2>1. \A y \in started' \cup starting' : y.run <= runs BY <1>1, <1>3, <1>5
    <2>2. started' \subseteq P!Starter BY <1>3, <1>5
    <2> QED BY <1>1, <1>3, <1>10, <2>1, <2>2 DEF P!ManagedAreAlive
  <1>12. P!RequiredAreManaged'
    BY <1>1, <1>2, <1>10 DEF P!RequiredAreManaged, P!PassIsDue, P!RequiredShards, P!Served
  <1> QED BY <1>1, <1>2, <1>8, <1>11, <1>12, InformersStay, EndpointsStay DEF P!ProcessIInv

-----------------------------------------------------------------------------
(* A pass *)

(* The operators of the instance are those of the library.                   *)
LEMMA SameCardinality == \A S : P!Cardinality(S) = Cardinality(S)
  BY DEF P!Cardinality, Cardinality

(* Finite sets, too.                                                         *)
LEMMA SameFinite == \A S : P!IsFiniteSet(S) <=> IsFiniteSet(S)
  BY DEF P!IsFiniteSet, IsFiniteSet

(* New controllers have numbers.                                             *)
LEMMA Numbering ==
    ASSUME NEW new, IsFiniteSet(new), NEW n \in Nat
    PROVE  \E f \in [new -> n + 1 .. n + Cardinality(new)] : \A s, u \in new : s # u => f[s] # f[u]
  <1>1. Cardinality(new) \in Nat /\ \E g \in [1..Cardinality(new) -> new] :
                   \A s \in new : \E i \in 1..Cardinality(new) : g[i] = s
    BY FS_CardinalityType DEF ExistsBijection, Bijection, Injection, Surjection
  <1>2. PICK g \in [1..Cardinality(new) -> new] : \A s \in new : \E i \in 1..Cardinality(new) : g[i] = s
    BY <1>1
  <1> DEFINE f == [s \in new |-> n + CHOOSE i \in 1..Cardinality(new) : g[i] = s]
  <1>3. \A s \in new : (CHOOSE i \in 1..Cardinality(new) : g[i] = s) \in 1..Cardinality(new)
                       /\ g[CHOOSE i \in 1..Cardinality(new) : g[i] = s] = s
    BY <1>2
  <1>4. f \in [new -> n + 1 .. n + Cardinality(new)] BY <1>1, <1>3
  <1>5. \A s, u \in new : s # u => f[s] # f[u]
    <2> SUFFICES ASSUME NEW s \in new, NEW u \in new, f[s] = f[u] PROVE s = u OBVIOUS
    <2> DEFINE i(x) == CHOOSE i \in 1..Cardinality(new) : g[i] = x
    <2>1. i(s) \in Nat /\ i(u) \in Nat /\ n + i(s) = n + i(u) BY <1>1, <1>3
    <2>2. g[i(s)] = s /\ g[i(u)] = u BY <1>3
    <2>3. i(s) = i(u)
      <3> HIDE DEF i
      <3> QED BY <2>1
    <2> QED BY <2>2, <2>3
  <1> QED BY <1>4, <1>5

(* Obsolete controllers are stopped, missing ones are created                *)
(* (ReconcileShards).                                                        *)
LEMMA ShardsReconciled ==
    ASSUME P!ProcessIInv, NEW required \in SUBSET Shards, NEW broken \in SUBSET required,
           P!ReconcileShards(required, broken)
    PROVE  /\ controllers' \in [Shards -> P!Entry \cup {None}] /\ runs' \in Nat
           /\ P!ManagedAreAlive' /\ (broken = {} => P!Managed' = required)
  <1> DEFINE new == {s \in required \ broken : controllers[s] = None}
             Numbers(f) == \A s, u \in new : s # u => f[s] # f[u]
             number == CHOOSE f \in [new -> runs + 1 .. runs + P!Cardinality(new)] : Numbers(f)
             added == {[shard |-> s, run |-> number[s]] : s \in new}
  <1>0. P!Cardinality(new) = Cardinality(new) BY SameCardinality
  <1>1. /\ controllers' = [s \in Shards |-> IF s \in new THEN [run |-> number[s], ready |-> FALSE]
                                 ELSE IF s \in required THEN controllers[s] ELSE None]
        /\ alive' = {x \in alive : x.shard \in required \/ controllers[x.shard] = None
                                        \/ controllers[x.shard].run # x.run} \cup added
        /\ starting' = starting \cup added
        /\ runs' = runs + P!Cardinality(new) /\ started' = started
        /\ overtaken' = overtaken \cup {x.shard : x \in {y \in starting : y.shard \notin required}}
    BY DEF P!ReconcileShards
  <1>2. /\ P!ManagedAreAlive /\ controllers \in [Shards -> P!Entry \cup {None}] /\ runs \in Nat
        /\ None \notin P!Entry /\ IsFiniteSet(Shards)
    BY ProcessConstants, SameFinite DEF P!ProcessIInv, P!ProcessTypeOK, P!Constants
  <1>3. IsFiniteSet(new) /\ Cardinality(new) \in Nat
    <2>1. new \subseteq Shards OBVIOUS
    <2> QED BY <1>2, <2>1, FS_Subset, FS_CardinalityType
  <1>4. number \in [new -> runs + 1 .. runs + Cardinality(new)]
    <2>1. \E f \in [new -> runs + 1 .. runs + Cardinality(new)] : Numbers(f)
      <3>1. \E f \in [new -> runs + 1 .. runs + Cardinality(new)] : \A s, u \in new : s # u => f[s] # f[u]
        <4> HIDE DEF new
        <4> QED BY <1>2, <1>3, Numbering
      <3> QED BY <3>1
    <2> HIDE DEF Numbers, new
    <2> QED BY <1>0, <2>1
  <1> DEFINE limit == runs + Cardinality(new)
  <1>5. \A s \in new : number[s] \in Nat /\ number[s] > runs /\ number[s] <= limit
    <2> HIDE DEF new, number
    <2> QED BY <1>2, <1>3, <1>4
  <1>6. limit \in Nat /\ runs <= limit /\ runs' = limit
    <2>1. runs' = runs + Cardinality(new) BY <1>0, <1>1
    <2> HIDE DEF new
    <2> QED BY <1>2, <1>3, <2>1
  <1>7. new \subseteq required /\ new \subseteq Shards /\ \A s \in new : controllers[s] = None
    OBVIOUS
  <1>8. required = new \cup {s \in required : controllers[s] # None} \/ broken # {}
    OBVIOUS
  <1> HIDE DEF new, number, limit
  <1>9. /\ \A s \in new : controllers'[s].run = number[s] /\ ~controllers'[s].ready /\ controllers'[s] # None
        /\ \A s \in required \ new : controllers'[s] = controllers[s]
        /\ \A s \in Shards \ required : controllers'[s] = None
        /\ controllers' \in [Shards -> P!Entry \cup {None}]
    <2>1. \A s \in new : [run |-> number[s], ready |-> FALSE] \in P!Entry BY <1>5 DEF P!Entry
    <2>2. \A s \in new : controllers'[s] = [run |-> number[s], ready |-> FALSE]
      BY <1>1, <1>7
    <2>3. \A s \in new : controllers'[s].run = number[s] /\ ~controllers'[s].ready
      <3>1. \A n : [run |-> n, ready |-> FALSE].run = n /\ ~[run |-> n, ready |-> FALSE].ready OBVIOUS
      <3> QED BY <2>2, <3>1, Zenon
    <2> QED BY <1>1, <1>2, <1>7, <2>1, <2>2, <2>3
  <1>10. P!Managed' = {s \in required : controllers[s] # None} \cup new
    BY <1>7, <1>9 DEF P!Managed
  <1>11. /\ alive \subseteq P!Starter /\ starting \subseteq P!Starter /\ started \subseteq P!Starter
         /\ overtaken \subseteq Shards /\ \A x \in started \cup starting : x.run <= runs
    BY <1>2 DEF P!ManagedAreAlive
  <1>12. /\ \A x \in added : x \in P!Starter /\ x.shard \in new /\ x.run = number[x.shard]
         /\ \A s \in new : [shard |-> s, run |-> number[s]] \in added
    BY <1>5, <1>7 DEF P!Starter
  <1> HIDE DEF added
  <1>13. ASSUME NEW s \in Shards \ overtaken' PROVE P!ShardIsKnown(s)'
    <2>0. s \notin overtaken /\ (s \notin required => \A x \in starting : x.shard # s) BY <1>1
    <2>1. P!ShardIsKnown(s) BY <1>2, <2>0 DEF P!ManagedAreAlive
    <2>2. CASE s \in new
      <3>1. s \notin P!Managed BY <1>7, <2>2 DEF P!Managed
      <3>2. \A x \in alive \cup starting : x.shard # s BY <2>1, <3>1 DEF P!ShardIsKnown
      <3>3. \A x \in alive' \cup starting' : x.shard = s => x.run = number[s]
        BY <1>1, <1>12, <3>2
      <3>4. controllers'[s].run = number[s] /\ ~controllers'[s].ready /\ s \in P!Managed'
        BY <1>9, <2>2 DEF P!Managed
      <3>5. P!EntryOf(s)' = [shard |-> s, run |-> number[s]] BY <3>4 DEF P!EntryOf
      <3>6. P!EntryOf(s)' \in alive' /\ P!EntryOf(s)' \in starting' BY <1>1, <1>12, <2>2, <3>5
      <3>7. P!EntryOf(s)' \notin started'
        <4>1. P!EntryOf(s)'.run = number[s] BY <3>5
        <4>2. ~(number[s] <= runs) BY <1>2, <1>5, <2>2
        <4> QED BY <1>1, <1>11, <4>1, <4>2
      <3>8. number[s] \in 1..runs' BY <1>2, <1>5, <1>6, <2>2
      <3> QED BY <3>3, <3>4, <3>6, <3>7, <3>8 DEF P!ShardIsKnown
    <2>3. CASE s \in required \ new
      <3>1. controllers'[s] = controllers[s] BY <1>9, <2>3
      <3>2. (s \in P!Managed' <=> s \in P!Managed) /\ P!EntryOf(s)' = P!EntryOf(s) /\ P!EntryOf(s).shard = s
        BY <3>1 DEF P!Managed, P!EntryOf
      <3>3. \A x : x.shard = s => (x \in alive' <=> x \in alive) /\ (x \in starting' <=> x \in starting)
        BY <1>1, <1>12, <2>3
      <3>4. s \in P!Managed => controllers[s].run \in 1..runs'
        <4>1. s \in P!Managed => controllers[s].run \in 1..runs BY <2>1 DEF P!ShardIsKnown
        <4> QED BY <1>2, <1>6, <4>1
      <3> QED BY <1>1, <2>1, <3>1, <3>2, <3>3, <3>4 DEF P!ShardIsKnown
    <2>4. CASE s \notin required
      <3>1. s \notin P!Managed' BY <1>9, <2>4 DEF P!Managed
      <3>2. \A x \in alive : x.shard = s => controllers[s] # None /\ controllers[s].run = x.run
        BY <2>1 DEF P!ShardIsKnown, P!Managed
      <3>3. \A x \in alive' : x.shard # s BY <1>1, <1>7, <1>12, <2>4, <3>2
      <3>4. \A x \in starting' : x.shard # s BY <1>1, <1>7, <1>12, <2>0, <2>4
      <3> QED BY <3>1, <3>3, <3>4 DEF P!ShardIsKnown
    <2> QED BY <2>2, <2>3, <2>4
  <1>14. P!ManagedAreAlive'
    <2>1. alive' \subseteq P!Starter /\ starting' \subseteq P!Starter /\ started' \subseteq P!Starter
      BY <1>1, <1>11, <1>12
    <2>2. overtaken' \subseteq Shards BY <1>1, <1>11 DEF P!Starter
    <2>3. \A x \in started' \cup starting' : x.run <= runs'
      <3>1. ASSUME NEW x \in started \cup starting PROVE x.run <= runs'
        <4>1. x.run \in Nat BY <1>11 DEF P!Starter
        <4> QED BY <1>2, <1>6, <1>11, <4>1
      <3>2. \A x \in added : x.run <= runs' BY <1>5, <1>6, <1>12
      <3> QED BY <1>1, <3>1, <3>2
    <2> QED BY <1>13, <2>1, <2>2, <2>3 DEF P!ManagedAreAlive
  <1>15. broken = {} => P!Managed' = required BY <1>8, <1>10
  <1> QED BY <1>6, <1>9, <1>14, <1>15

(* Whoever follows the list of resources is told of a change                 *)
(* (ReconcileGVRs).                                                          *)
LEMMA GVRsReconciled ==
    ASSUME P!ProcessIInv, NEW required, NEW failing, P!ReconcileGVRs(required, failing), informers' = informers
    PROVE  P!WatchedHaveInformers' /\ notified' \in BOOLEAN
  <1>1. P!WatchedHaveInformers /\ notified \in BOOLEAN
    BY DEF P!ProcessIInv, P!ProcessTypeOK
  <1>2. notified' = (notified \/ gvrs' # gvrs)
    BY DEF P!ReconcileGVRs, P!NotifySubscribers
  <1> QED BY <1>1, <1>2 DEF P!WatchedHaveInformers

(* A pass of the SyncTarget controller, complete or not (Process).           *)
LEMMA ProcessKeeps ==
    ASSUME P!ProcessIInv, P!Process
    PROVE  P!ProcessIInv'
  <1> DEFINE t == P!Served(targetSeen)
  <1>1. /\ P!ProcessTypeOK /\ P!ManagedAreAlive /\ P!RequiredAreManaged
        /\ targetSeen \in P!SyncTarget \cup {None}
    BY DEF P!ProcessIInv, P!ProcessTypeOK
  <1>2. t \in P!SyncTarget \cup {None} BY <1>1 DEF P!Served
  <1>3. on /\ queued' = FALSE /\ target' = target /\ UNCHANGED <<allowed, discovered>>
    BY DEF P!Process, P!cluster
  <1>4. PICK failing \in SUBSET P!AllGVRs(t), broken \in SUBSET P!RequiredShards(t) :
          LET outcome == P!Unauthorized(P!AllGVRs(t), failing)
              stop == t # None /\ t.unauthorized # outcome
          IN  \/ P!Off
              \/ /\ P!ReconcileGVRs(P!AllGVRs(t), failing)
                 /\ IF stop THEN UNCHANGED <<P!shards, tunnels>>
                    ELSE P!ReconcileShards(P!RequiredShards(t), broken) /\ P!ReconcileTunnels(P!RequiredShards(t))
                 /\ committing' = [old |-> t, unauthorized |-> outcome,
                                   again |-> stop \/ P!GVRErrors(P!AllGVRs(t), failing) \/ broken # {}]
                 /\ UNCHANGED <<on, targetSeen, P!managed>>
    BY DEF P!Process
  <1> DEFINE outcome == P!Unauthorized(P!AllGVRs(t), failing)
             stop == t # None /\ t.unauthorized # outcome
             again == stop \/ P!GVRErrors(P!AllGVRs(t), failing) \/ broken # {}
  <1>5. CASE P!Off
    <2>1. target' \in P!SyncTarget \cup {None} BY <1>1, <1>3 DEF P!ProcessTypeOK
    <2> QED BY <1>5, <2>1, OffKeeps
  <1>6. CASE ~P!Off
    <2>1. /\ P!ReconcileGVRs(P!AllGVRs(t), failing)
          /\ IF stop THEN UNCHANGED <<P!shards, tunnels>>
             ELSE P!ReconcileShards(P!RequiredShards(t), broken) /\ P!ReconcileTunnels(P!RequiredShards(t))
          /\ committing' = [old |-> t, unauthorized |-> outcome, again |-> again]
          /\ UNCHANGED <<on, targetSeen, informers, made, resync, endpoints, returned>>
      BY <1>4, <1>6 DEF P!managed
    <2>2. outcome \in SUBSET Resources /\ again \in BOOLEAN
      <3>1. P!AllGVRs(t) \subseteq Resources BY <1>2 DEF P!AllGVRs, P!SyncTarget
      <3>2. failing \subseteq Resources BY <3>1
      <3>3. outcome \subseteq Resources BY <3>1, <3>2 DEF P!Unauthorized
      <3> HIDE DEF outcome
      <3> QED BY <3>3 DEF P!GVRErrors
    <2>3. P!RequiredShards(t) \in SUBSET Shards BY <1>2 DEF P!RequiredShards, P!SyncTarget
    <2>4. P!WatchedHaveInformers' /\ P!EndpointsListen' /\ notified' \in BOOLEAN
      BY <2>1, GVRsReconciled, EndpointsStay DEF P!ProcessIInv
    <2>5. stop => again OBVIOUS
    <2>6. broken # {} => again OBVIOUS
    <2> HIDE DEF outcome, stop, again
    <2>7. committing' \in P!Pass BY <1>2, <2>1, <2>2 DEF P!Pass
    <2>8. committing' # None /\ committing'.again = again
      BY <2>1, <2>7, ProcessConstants DEF P!Constants
    <2>9. /\ controllers' \in [Shards -> P!Entry \cup {None}] /\ runs' \in Nat /\ P!ManagedAreAlive'
          /\ ~again => P!Managed' = P!RequiredShards(t) /\ tunnels' = P!RequiredShards(t)
      <3>1. CASE stop
        <4>1. UNCHANGED <<controllers, starting, alive, started, runs, overtaken>>
          BY <2>1, <3>1 DEF P!shards
        <4>2. P!ManagedAreAlive' BY <1>1, <4>1, ShardsStay
        <4> QED BY <1>1, <2>5, <3>1, <4>1, <4>2 DEF P!ProcessTypeOK
      <3>2. CASE ~stop
        <4>1. P!ReconcileShards(P!RequiredShards(t), broken) /\ tunnels' = P!RequiredShards(t)
          BY <2>1, <3>2 DEF P!ReconcileTunnels
        <4> QED BY <2>3, <2>6, <4>1, ShardsReconciled
      <3> QED BY <3>1, <3>2
    <2>10. P!ProcessTypeOK'
      BY <1>1, <1>3, <2>1, <2>4, <2>7, <2>9 DEF P!ProcessTypeOK
    <2>11. P!RequiredAreManaged'
      <3>1. P!RequiredShards(P!Served(targetSeen))' = P!RequiredShards(t)
        BY <2>1 DEF P!RequiredShards, P!Served
      <3> QED BY <2>8, <2>9, <3>1 DEF P!RequiredAreManaged, P!PassIsDue
    <2> QED BY <1>3, <2>1, <2>4, <2>9, <2>10, <2>11 DEF P!ProcessIInv
  <1> QED BY <1>5, <1>6

-----------------------------------------------------------------------------
(* The theorem *)

(* In the beginning the process does not run.                                *)
LEMMA ProcessInit == P!Init => P!ProcessIInv
  <1> SUFFICES ASSUME P!Init PROVE P!ProcessIInv OBVIOUS
  <1>1. /\ target = [uid |-> P!Uid, shards |-> {}, accepted |-> {}, unauthorized |-> {}]
        /\ targetSeen = None /\ on = FALSE /\ queued = FALSE /\ committing = None
        /\ gvrs = {} /\ notified = FALSE
        /\ informers = P!NoInformers /\ made = 0 /\ resync = FALSE /\ endpoints = None /\ returned = FALSE
        /\ controllers = P!NoControllers /\ starting = {} /\ alive = {} /\ started = {} /\ runs = 0
        /\ overtaken = {} /\ tunnels = {}
    BY DEF P!Init
  <1>2. target \in P!SyncTarget BY <1>1 DEF P!SyncTarget, P!Uid
  <1>3. P!ProcessTypeOK
    BY <1>1, <1>2 DEF P!ProcessTypeOK, P!NoInformers, P!NoControllers
  <1>5. P!Managed = {} BY <1>1 DEF P!Managed, P!NoControllers
  <1>6. P!ManagedAreAlive BY <1>1, <1>5 DEF P!ManagedAreAlive, P!ShardIsKnown
  <1>7. P!RequiredAreManaged BY <1>1, <1>5 DEF P!RequiredAreManaged, P!RequiredShards, P!Served
  <1>8. \A r \in Resources : informers[r] = None BY <1>1 DEF P!NoInformers
  <1>9. P!WatchedHaveInformers BY <1>1, <1>8 DEF P!WatchedHaveInformers
  <1>10. P!EndpointsListen
    <2>1. \E r \in RequiredGVRs : informers[r] = None BY <1>8, ProcessConstants DEF P!Constants
    <2>2. P!Missing # {} BY <2>1 DEF P!Missing
    <2> QED BY <1>1, <2>1, <2>2 DEF P!EndpointsListen
  <1> QED BY <1>3, <1>6, <1>7, <1>9, <1>10 DEF P!ProcessIInv

(* Every step.                                                               *)
LEMMA ProcessStep ==
    ASSUME P!ProcessIInv, AnyNext \/ UNCHANGED all
    PROVE  P!ProcessIInv'
  <1>1. CASE P!Next
    <2>1. CASE P!StartSyncer \/ P!Heartbeat \/ P!Process \/ P!Commit \/ P!SeeTarget
      BY <2>1, QueueKeeps, ProcessKeeps, CommitKeeps
    <2>2. CASE \E x \in starting, ok \in BOOLEAN : P!StartReturns(x, ok)
      BY <2>2, ReturnKeeps
    <2>3. CASE P!UpdateInformers \/ P!ManagerProcess \/ \E r \in Resources : P!InformerSyncs(r)
      BY <2>3, UpdateKeeps, ManagerKeeps, SyncsKeeps
    <2>4. CASE \/ P!SetShards \/ P!SetAccepted \/ P!ReplaceTarget \/ P!CreateTarget \/ P!Permissions
               \/ P!Discovery \/ P!Crash
      BY <2>4, EnvironmentKeeps
    <2> QED BY <1>1, <2>1, <2>2, <2>3, <2>4 DEF P!Next, P!Works
  <1>2. CASE UNCHANGED processVars
    <2>1. UNCHANGED <<target, targetSeen, on, queued, committing, allowed, discovered, gvrs, notified,
                   informers, made, resync, endpoints, returned, controllers, starting, alive, started, runs, overtaken, tunnels>>
      BY <1>2 DEF processVars
    <2>2. P!ProcessTypeOK' BY <2>1 DEF P!ProcessIInv, P!ProcessTypeOK
    <2>3. P!PassIsDue => P!PassIsDue' BY <2>1 DEF P!PassIsDue
    <2> QED BY <2>1, <2>2, <2>3, ShardsStay, PassStays, InformersStay, EndpointsStay DEF P!ProcessIInv
  <1>3. P!Next \/ UNCHANGED processVars BY DEF AnyNext, all
  <1> QED BY <1>1, <1>2, <1>3

(* The invariant, whatever the other parts do.                               *)
LEMMA ProcessInvariant == AnySpec => []P!ProcessIInv
  <1>1. AnyInit => P!ProcessIInv BY ProcessInit DEF AnyInit
  <1>2. P!ProcessIInv /\ [AnyNext]_all => P!ProcessIInv' BY ProcessStep
  <1> QED BY <1>1, <1>2, PTL DEF AnySpec

(* When all is done, what is required is managed, and what is managed runs.  *)
LEMMA OnceQuiet ==
    ASSUME P!ProcessIInv
    PROVE  P!QuietMeansRunning
  <1> SUFFICES ASSUME P!Quiet
               PROVE  /\ \A s \in Shards \ overtaken :
                           LET mine == {x \in P!Running : x.shard = s}
                           IN  IF s \in P!RequiredShards(P!Served(target))
                               THEN /\ P!Cardinality(mine) = 1
                                    /\ \A x \in mine : controllers[s] = [run |-> x.run, ready |-> TRUE]
                               ELSE mine = {} /\ controllers[s] = None
                      /\ tunnels = P!RequiredShards(P!Served(target))
                      /\ \A r \in Resources : informers[r] # None <=> r \in gvrs
                      /\ ~returned => IF P!Missing = {} THEN endpoints = [r \in RequiredGVRs |-> informers[r].made]
                                      ELSE endpoints = None
    BY DEF P!QuietMeansRunning
  <1>1. /\ targetSeen = target /\ ~P!PassIsDue /\ starting = {} /\ ~notified /\ ~resync
    BY DEF P!Quiet, P!Settled, P!PassIsDue
  <1>2. /\ controllers \in [Shards -> P!Entry \cup {None}] /\ endpoints \in [RequiredGVRs -> Nat] \cup {None}
        /\ P!ManagedAreAlive /\ P!RequiredAreManaged /\ P!WatchedHaveInformers /\ P!EndpointsListen
    BY DEF P!ProcessIInv, P!ProcessTypeOK
  <1>3. /\ tunnels = P!RequiredShards(P!Served(target))
        /\ \A s \in Shards \ overtaken : s \in P!Managed <=> s \in P!RequiredShards(P!Served(target))
    BY <1>1, <1>2 DEF P!RequiredAreManaged
  <1>4. \A r \in Resources : informers[r] # None <=> r \in gvrs
    BY <1>1, <1>2 DEF P!WatchedHaveInformers
  <1>5. ASSUME ~returned
        PROVE  IF P!Missing = {} THEN endpoints = [r \in RequiredGVRs |-> informers[r].made] ELSE endpoints = None
    <2>1. CASE P!Missing = {}
      <3>1. endpoints # None BY <1>1, <1>2, <1>5, <2>1 DEF P!EndpointsListen
      <3>2. \A r \in RequiredGVRs : informers[r] # None BY <2>1 DEF P!Missing
      <3>3. \A r \in RequiredGVRs : informers[r].made = endpoints[r]
        BY <1>2, <1>5, <3>1, <3>2 DEF P!EndpointsListen
      <3> QED BY <1>2, <2>1, <3>1, <3>3
    <2>2. CASE P!Missing # {} BY <1>1, <1>2, <1>5, <2>2 DEF P!EndpointsListen
    <2> QED BY <2>1, <2>2
  <1>6. ASSUME NEW s \in Shards \ overtaken
        PROVE  LET mine == {x \in P!Running : x.shard = s}
               IN  IF s \in P!Managed
                   THEN /\ P!Cardinality(mine) = 1
                        /\ \A x \in mine : controllers[s] = [run |-> x.run, ready |-> TRUE]
                   ELSE mine = {} /\ controllers[s] = None
    <2> DEFINE mine == {x \in P!Running : x.shard = s}
    <2>1. P!ShardIsKnown(s) /\ alive \subseteq P!Starter BY <1>2 DEF P!ManagedAreAlive
    <2>2. \A x \in mine : x = P!EntryOf(s) /\ s \in P!Managed
      <3> TAKE x \in mine
      <3>1. x \in alive /\ x.shard = s /\ x \in P!Starter BY <2>1 DEF P!Running
      <3>2. s \in P!Managed /\ x.run = controllers[s].run BY <2>1, <3>1 DEF P!ShardIsKnown
      <3>3. x = [shard |-> x.shard, run |-> x.run] BY <3>1 DEF P!Starter
      <3> QED BY <3>1, <3>2, <3>3 DEF P!EntryOf
    <2>3. CASE s \notin P!Managed
      BY <2>2, <2>3 DEF P!Managed
    <2>4. CASE s \in P!Managed
      <3>0. controllers[s].ready /\ P!EntryOf(s).shard = s /\ P!EntryOf(s).run = controllers[s].run
        BY <1>1, <2>1, <2>4 DEF P!ShardIsKnown, P!EntryOf
      <3>1. P!EntryOf(s) \in P!Running BY <2>1, <2>4, <3>0 DEF P!ShardIsKnown, P!Running
      <3>2. mine = {P!EntryOf(s)} BY <2>2, <3>0, <3>1
      <3>3. P!Cardinality(mine) = 1 BY <3>2, FS_Singleton, SameCardinality
      <3>4. controllers[s] = [run |-> controllers[s].run, ready |-> TRUE]
        <4>1. controllers[s] \in P!Entry BY <1>2, <2>4 DEF P!Managed
        <4>2. \A e \in P!Entry : e.ready => e = [run |-> e.run, ready |-> TRUE] BY DEF P!Entry
        <4> QED BY <3>0, <4>1, <4>2
      <3> QED BY <2>4, <3>0, <3>2, <3>3, <3>4
    <2> QED BY <2>3, <2>4
  <1> QED BY <1>3, <1>4, <1>5, <1>6

(* With nothing left to do, the controllers of exactly the required shards   *)
(* run, once each and as the shard manager knows them, the tunnels are those *)
(* of the same shards, and the informers and the endpoints controller follow *)
(* the resources watched: for any shards and resources, any failures of      *)
(* checks and creations, conflicts, crashes and numbers of events (Process,  *)
(* StartReturns, UpdateInformers, ManagerProcess), but for a shard that went *)
(* before its start had returned, and for the endpoints controller after a   *)
(* resource came back before the manager had looked.                         *)
THEOREM ProcessRuns == AnySpec => []QuietMeansRunning
  <1>1. P!ProcessIInv => QuietMeansRunning BY OnceQuiet DEF QuietMeansRunning
  <1> QED BY <1>1, ProcessInvariant, PTL
=============================================================================
