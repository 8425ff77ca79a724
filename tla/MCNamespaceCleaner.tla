------------------------- MODULE MCNamespaceCleaner -------------------------
(***************************************************************************)
(* The namespace cleaner from a state in which everything has been synced, *)
(* so that few events reach the interesting cases.                         *)
(***************************************************************************)
EXTENDS NamespaceCleaner

(* Every object is on the cluster and every handler has run.                *)
Running ==
    /\ view = [o \in Objects |-> "assigned"] /\ viewSeen = view
    /\ upstreamNs \in BOOLEAN
    /\ down = [o \in Objects |-> "present"]
    /\ downWatch = [o \in Objects |-> <<>>]
    /\ downSeen = Objects
    /\ dns = "present" /\ dnsWatch = <<>> /\ dnsSeen = "present"
    /\ queue = {}
    /\ step = [o \in Objects |-> "idle"] /\ copy = view
    /\ planned = FALSE /\ left = 0 /\ timer = 0
    /\ delayed = FALSE /\ deleting = FALSE /\ nsQueue = FALSE
    /\ events = 0

RunningFairSpec == Running /\ [][Next]_vars /\ Fairness
=============================================================================
