------------------------------- MODULE Tunnel -------------------------------
(***************************************************************************)
(* The reverse tunnel through which kcp reaches the pods of a cluster.     *)
(*                                                                         *)
(* The syncer dials kcp.  Its first request is the control connection; kcp *)
(* keeps a dialer for it in a pool.  To open a connection, a client of the *)
(* dialer has it send conn-ready; the syncer dials once more; the handler  *)
(* of kcp gives this connection to whichever client waits.  All requests   *)
(* look alike: what the handler takes one for depends on whether there is  *)
(* an open dialer when it looks, and the syncer does not learn what that   *)
(* was.  One SyncTarget and one shard.                                     *)
(***************************************************************************)
EXTENDS Naturals, FiniteSets

CONSTANTS
    Conns,      \* requests that may be open at the same time
    Clients,    \* clients of kcp that want a connection to a pod
    None,
    Overlap,    \* whether a handler may look amid the map accesses of another one
    MaxEvents,  \* bound: events of the environment in one behaviour
    Events      \* the kinds of environment events that may happen

VARIABLES
    conn,      \* [c]: the two ends of a request
    pool,      \* the control connection of the dialer in the pool
    ready,     \* [c]: conn-ready messages on their way to the syncer
    failed,    \* [c]: pickup-failed messages on their way back
    listener,  \* "down", "dialing" or "up"
    client,    \* [k]: what a client of the dialer does
    events

vars == <<conn, pool, ready, failed, listener, client, events>>

Idle == [at |-> "idle", dialer |-> None, conn |-> None]

(* A request that both ends have left is no more.                              *)
Keep(f) == [c \in Conns |-> IF f[c] # None /\ f[c].near = "closed" /\ f[c].far = "closed" THEN None ELSE f[c]]

(* An identifier is used again when nobody refers to it.                       *)
Free == {c \in Conns : /\ conn[c] = None /\ pool # c
                       /\ \A k \in Clients : c \notin {client[k].dialer, client[k].conn}
                       /\ \A b \in Conns : conn[b] # None => c \notin {conn[b].of, conn[b].dialer}}

NewConn == CHOOSE c \in Free : TRUE

Near(c, s) == conn[c] # None /\ conn[c].near = s
Far(c, s) == conn[c] # None /\ conn[c].far = s

(* A dialer is its control connection.                                         *)
Open(d) == d # None /\ Far(d, "control")

(* A request: what the syncer makes it for and which listener, how far its two *)
(* ends are, and the dialer whose clients it waits for.                        *)
Request(kind, of) == [kind |-> kind, of |-> of, near |-> "dialing", far |-> "sent", dialer |-> None]

(* The control connection of the listener, as far as the syncer knows.         *)
Control == {c \in Conns : Near(c, "reading")}

-----------------------------------------------------------------------------
(* The tunneler of the syncer *)

(* The loop of the tunneler: a new listener after the last one has closed.     *)
StartTunneler ==
    /\ listener = "down" /\ Free # {}
    /\ conn' = [conn EXCEPT ![NewConn] = Request("control", None)]
    /\ ready' = [ready EXCEPT ![NewConn] = 0] /\ failed' = [failed EXCEPT ![NewConn] = 0]
    /\ listener' = "dialing"
    /\ UNCHANGED <<pool, client, events>>

(* The listener closes its control connection and its server the ones that it  *)
(* serves.  Requests that are still being dialed are nobody's from now on.     *)
Closed ==
    [c \in Conns |->
        IF conn[c] = None THEN None
        ELSE IF conn[c].near \in {"reading", "serving"} THEN [conn[c] EXCEPT !.near = "closed"]
        ELSE IF conn[c].kind = "data" THEN [conn[c] EXCEPT !.of = None]
        ELSE conn[c]]

Close == conn' = Keep(Closed) /\ listener' = "down"

(* conn-ready: one more request.                                               *)
GrabConn ==
    /\ Free # {}
    /\ \E l \in Control :
         /\ ready[l] > 0
         /\ ready' = [ready EXCEPT ![l] = @ - 1, ![NewConn] = 0]
         /\ failed' = [failed EXCEPT ![NewConn] = 0]
         /\ conn' = [conn EXCEPT ![NewConn] = Request("data", l)]
    /\ UNCHANGED <<pool, listener, client, events>>

GrabConnFails ==
    /\ "fail" \in Events /\ events < MaxEvents /\ events' = events + 1
    /\ \E l \in Control :
         /\ ready[l] > 0
         /\ ready' = [ready EXCEPT ![l] = @ - 1]
         /\ failed' = [failed EXCEPT ![l] = @ + 1]
    /\ UNCHANGED <<conn, pool, listener, client>>

(* The answer begins with the first bytes that kcp writes: a keep-alive to a   *)
(* control connection, a request to the others.  A data connection of a        *)
(* listener that has closed is left as it is.                                  *)
DialReturns(c) ==
    /\ Near(c, "dialing") /\ conn[c].far \in {"control", "taken"}
    /\ IF conn[c].kind = "control"
       THEN conn' = [conn EXCEPT ![c].near = "reading"] /\ listener' = "up"
       ELSE /\ conn' = [conn EXCEPT ![c].near = IF conn[c].of = None THEN "dropped" ELSE "serving"]
            /\ UNCHANGED listener
    /\ UNCHANGED <<pool, ready, failed, client, events>>

DialFails(c) ==
    /\ Near(c, "dialing") /\ Far(c, "closed")
    /\ conn' = [conn EXCEPT ![c] = None]
    /\ listener' = IF conn[c].kind = "control" THEN "down" ELSE listener
    /\ failed' = IF conn[c].of = None THEN failed ELSE [failed EXCEPT ![conn[c].of] = @ + 1]
    /\ UNCHANGED <<pool, ready, client, events>>

(* The control connection ends, or a client writes to what is not one.         *)
ReadFails(c) ==
    /\ Near(c, "reading") /\ conn[c].far # "control"
    /\ Close
    /\ UNCHANGED <<pool, ready, failed, client, events>>

(* What a dialer writes is no HTTP request.                                    *)
ServeFails(c) ==
    /\ Near(c, "serving") /\ conn[c].far # "taken"
    /\ conn' = Keep([conn EXCEPT ![c].near = "closed"])
    /\ UNCHANGED <<pool, ready, failed, listener, client, events>>

(* The request of a client is answered, with what the pod says or with a       *)
(* refusal.                                                                    *)
Answer(c, k) ==
    /\ Near(c, "serving") /\ client[k].conn = c
    /\ conn' = [conn EXCEPT ![c] = None]
    /\ client' = [client EXCEPT ![k] = Idle]
    /\ UNCHANGED <<pool, ready, failed, listener, events>>

-----------------------------------------------------------------------------
(* The handler of kcp for requests of the syncer *)

(* Mutant: a dialer that has closed stays.                                     *)
PoolKept(c) == pool

(* A closed dialer is as good as none.                                         *)
PoolWithout(c) == IF pool = c THEN None ELSE pool

HandlerLooks(c) ==
    /\ Far(c, "sent")
    /\ Overlap \/ \A b \in Conns : ~Far(b, "fresh") /\ ~Far(b, "cleared")
    /\ conn' = IF pool = None THEN [conn EXCEPT ![c].far = "fresh"]
               ELSE [conn EXCEPT ![c].far = "waiting", ![c].dialer = pool]
    /\ UNCHANGED <<pool, ready, failed, listener, client, events>>

(* No open dialer was found: the one of the pool goes, whoever's it is by now. *)
DeleteDialer(c) ==
    /\ Far(c, "fresh")
    /\ pool' = None
    /\ conn' = [conn EXCEPT ![c].far = "cleared"]
    /\ UNCHANGED <<ready, failed, listener, client, events>>

(* If somebody has been faster the connection is forgotten.                    *)
CreateDialer(c) ==
    /\ Far(c, "cleared")
    /\ IF pool = None
       THEN /\ pool' = c
            /\ conn' = [conn EXCEPT ![c].far = "control"]
       ELSE /\ conn' = [conn EXCEPT ![c].far = "lost"]
            /\ UNCHANGED pool
    /\ UNCHANGED <<ready, failed, listener, client, events>>

(* The handler ends when the request does, but not while it waits.             *)
HandlerEnds(c) ==
    /\ Near(c, "closed") /\ conn[c].far \in {"control", "lost"}
    /\ pool' = PoolWithout(c)
    /\ conn' = Keep([conn EXCEPT ![c].far = "closed"])
    /\ UNCHANGED <<ready, failed, listener, client, events>>

(* A dialer that cannot write or that reads what is no message closes.         *)
DialerCloses(c) ==
    /\ Open(c) /\ Near(c, "serving")
    /\ pool' = PoolWithout(c)
    /\ conn' = Keep([conn EXCEPT ![c].far = "closed"])
    /\ UNCHANGED <<ready, failed, listener, client, events>>

TunnelClosed(c) ==
    /\ Far(c, "waiting") /\ ~Open(conn[c].dialer)
    /\ conn' = Keep([conn EXCEPT ![c].far = "closed", ![c].dialer = None])
    /\ UNCHANGED <<pool, ready, failed, listener, client, events>>

-----------------------------------------------------------------------------
(* Dial, for a client of kcp *)

(* Without an open dialer the client is told to come back.                     *)
Proxy(k) ==
    /\ "dial" \in Events /\ events < MaxEvents /\ events' = events + 1
    /\ client[k] = Idle /\ Open(pool)
    /\ client' = [client EXCEPT ![k] = [at |-> "want", dialer |-> pool, conn |-> None]]
    /\ UNCHANGED <<conn, pool, ready, failed, listener>>

Serve(k) ==
    /\ client[k].at = "want" /\ Open(client[k].dialer)
    /\ client' = [client EXCEPT ![k].at = "wait"]
    /\ ready' = [ready EXCEPT ![client[k].dialer] = @ + 1]
    /\ UNCHANGED <<conn, pool, failed, listener, events>>

PickUp(k, c) ==
    /\ client[k].at = "wait" /\ Far(c, "waiting") /\ conn[c].dialer = client[k].dialer
    /\ client' = [client EXCEPT ![k] = [at |-> "talk", dialer |-> None, conn |-> c]]
    /\ conn' = [conn EXCEPT ![c].far = "taken", ![c].dialer = None]
    /\ UNCHANGED <<pool, ready, failed, listener, events>>

PickUpFailed(k) ==
    /\ client[k].at = "wait" /\ Open(client[k].dialer) /\ failed[client[k].dialer] > 0
    /\ failed' = [failed EXCEPT ![client[k].dialer] = @ - 1]
    /\ client' = [client EXCEPT ![k] = Idle]
    /\ UNCHANGED <<conn, pool, ready, listener, events>>

(* Mutant: a client that waits does not look whether the dialer has closed.    *)
SeesDoneEarly(k) == client[k].at = "want"

SeesDone(k) == client[k].at \in {"want", "wait"}

DialerDone(k) ==
    /\ SeesDone(k) /\ ~Open(client[k].dialer)
    /\ client' = [client EXCEPT ![k] = Idle]
    /\ UNCHANGED <<conn, pool, ready, failed, listener, events>>

(* The connection of the client breaks.                                        *)
TalkFails(k) ==
    /\ client[k].at = "talk"
    /\ Near(client[k].conn, "closed")
    /\ conn' = [conn EXCEPT ![client[k].conn] = None]
    /\ client' = [client EXCEPT ![k] = Idle]
    /\ UNCHANGED <<pool, ready, failed, listener, events>>

-----------------------------------------------------------------------------
(* Environment *)

Event(e) == e \in Events /\ events < MaxEvents /\ events' = events + 1

(* The client goes away; what it asked for is still on its way.                *)
GiveUp(k) ==
    /\ Event("giveup") /\ client[k] # Idle
    /\ client' = [client EXCEPT ![k] = Idle]
    /\ conn' = IF client[k].conn = None THEN conn
               ELSE Keep([conn EXCEPT ![client[k].conn].far = "closed"])
    /\ UNCHANGED <<pool, ready, failed, listener>>

(* The syncer process ends and with it its end of every request.               *)
Crash ==
    /\ Event("crash")
    /\ conn' = Keep([c \in Conns |-> IF conn[c] = None THEN None ELSE [conn[c] EXCEPT !.near = "closed", !.of = None]])
    /\ listener' = "down"
    /\ UNCHANGED <<pool, ready, failed, client>>

(* The control connection breaks: the syncer notices, or kcp does.             *)
Break ==
    /\ Event("break")
    /\ \/ /\ listener = "up" /\ Close /\ UNCHANGED pool
       \/ /\ Open(pool)
          /\ conn' = Keep([conn EXCEPT ![pool].far = "closed"])
          /\ pool' = PoolWithout(pool)
          /\ UNCHANGED listener
    /\ UNCHANGED <<ready, failed, client>>

-----------------------------------------------------------------------------
(* Specification *)

Init ==
    /\ conn = [c \in Conns |-> None] /\ pool = None
    /\ ready = [c \in Conns |-> 0] /\ failed = ready
    /\ listener = "down" /\ client = [k \in Clients |-> Idle] /\ events = 0

OfConn(c) ==
    \/ DialReturns(c) \/ DialFails(c) \/ ReadFails(c) \/ ServeFails(c)
    \/ HandlerLooks(c) \/ DeleteDialer(c) \/ CreateDialer(c) \/ HandlerEnds(c) \/ DialerCloses(c)
    \/ TunnelClosed(c) \/ \E k \in Clients : Answer(c, k)

OfClient(k) ==
    Serve(k) \/ PickUpFailed(k) \/ DialerDone(k) \/ TalkFails(k) \/ \E c \in Conns : PickUp(k, c)

Next ==
    \/ StartTunneler \/ GrabConn \/ GrabConnFails \/ Crash
    \/ \E c \in Conns : OfConn(c)
    \/ \E k \in Clients : OfClient(k) \/ Proxy(k) \/ GiveUp(k)

Spec == Init /\ [][Next]_vars

(* Every goroutine goes on; dead connections are noticed by the keep-alives.   *)
Fairness ==
    /\ WF_vars(StartTunneler) /\ WF_vars(GrabConn)
    /\ \A c \in Conns : WF_vars(OfConn(c))
    /\ \A k \in Clients : WF_vars(OfClient(k))

FairSpec == Spec /\ Fairness

(* The same when a control connection may break while its process goes on.     *)
(* TunnelComesBack does not hold of it: the README tells why.                  *)
BreakingSpec == Init /\ [][Next \/ Break]_vars /\ Fairness

-----------------------------------------------------------------------------
(* Properties *)

TunnelIsUp == Open(pool) /\ Near(pool, "reading")

(* Whatever happens to the syncer, the tunnel comes back: the dialer of the    *)
(* pool has a control connection that the listener reads as one.  After a      *)
(* crash, requests of the new process arrive while the dialer of the old one   *)
(* is still taken for open, are kept as data connections and handed to         *)
(* clients; kcp has to find out and the syncer has to try again.               *)
TunnelComesBack == []<>TunnelIsUp

(* A client that dials gets a connection or an error: no answer, no failure    *)
(* and no end of a dialer is lost on it, although clients take one another's   *)
(* connections and failures, and some have gone away by then.                  *)
DialEnds == \A k \in Clients : client[k].at \in {"want", "wait"} ~> client[k].at \notin {"want", "wait"}
=============================================================================
