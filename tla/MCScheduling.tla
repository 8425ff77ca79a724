---------------------------- MODULE MCScheduling ----------------------------
(* Small instances of Scheduling for TLC.                                   *)
EXTENDS Scheduling

CONSTANTS l1, l2, t1, t2

(* Every location has a target of its own.                                  *)
OneEach == [l \in Locations |-> IF l = l1 THEN {t1} ELSE {t2}]

(* The state the controllers settle in when all placements select l1: the   *)
(* runs that start here look at what later events do.                       *)
Settled ==
    /\ loc = [l \in Locations |-> "match"] /\ locSeen = loc
    /\ ready = Targets /\ readySeen = ready
    /\ evicted = {}
    /\ placement = [p \in Placements |->
                      [phase |-> "Bound", loc |-> l1, ready |-> "True",
                       target |-> t1, sched |-> "True"]]
    /\ placeSeen = placement
    /\ placeWatch = [p \in Placements |-> <<>>]
    /\ ns = [bound |-> TRUE, selects |-> Placements, label |-> {t1}, del |-> {},
             scheduled |-> "True"]
    /\ nsSeen = ns /\ nsWatch = <<>>
    /\ age = [t \in Targets |-> 0]
    /\ timer = 0
    /\ schedQueue = {} /\ workQueue = {} /\ nsQueue = FALSE
    /\ events = 0

SettledSpec == Settled /\ [][Next]_vars

(* From the beginning with the last event to come, or settled with all of   *)
(* them.                                                                    *)
StartOrSettled == (Start /\ events = MaxEvents - 1) \/ Settled
FairStartOrSettled == StartOrSettled /\ [][Next]_vars /\ Fairness
=============================================================================
