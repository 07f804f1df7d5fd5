------------------------ MODULE ConnectionPoolService ------------------------
(***************************************************************************)
(* api/src/network/connection-pool.service.ts: the pool and the queue as   *)
(* one service, which share nothing but the process.  The service outlives *)
(* the P2P node: with every identity loaded, another node is started and   *)
(* its events go to the same maps, while the earlier one stays connected.  *)
(***************************************************************************)
EXTENDS ConnectionPool, MessageQueue

vars == <<poolVars, queueVars>>

Init == PoolInit /\ QueueInit

(* peer:connect of a second node for a peer the first one is connected to: *)
(* the record is replaced, a ping keeps the one it was begun with.         *)
OtherNodeConnects(p) ==
  /\ connections[p] # "none"
  /\ connections' = [connections EXCEPT ![p] = "peer"]
  /\ identifying' = [identifying EXCEPT ![p] = TRUE]
  /\ pinging' = [pinging EXCEPT ![p] =
       IF @ # "current" THEN @
       ELSE IF connections[p] = "relay" THEN "stale relay" ELSE "stale peer"]
  /\ UNCHANGED <<running, relayNodes>>

Lifecycle == poolStart \/ poolStop

PeerEvents ==
  \E p \in Peers : onPeerConnect(p) \/ onPeerDisconnect(p) \/ OtherNodeConnects(p)

Identification == \E p \in Peers : Identified(p)

HealthCheck == \E p \in Peers : PingStale(p) \/ Pinged(p)

Scoring ==
  \E p \in Peers :
    \/ \E l \in Latencies : recordRelaySuccess(p, l)
    \/ recordRelayFailure(p)

Queueing == \E m \in Messages, n \in Priorities : enqueue(m, n)

(* The timer that fires, and what becomes of the handler awaited.          *)
Batching == processBatch \/ HandlerResolved \/ HandlerRejected

clearQueue == clear

Next ==
  \/ /\ Lifecycle \/ PeerEvents \/ Identification \/ HealthCheck \/ Scoring
     /\ UNCHANGED queueVars
  \/ /\ Queueing \/ Batching \/ clearQueue
     /\ UNCHANGED poolVars

(* A timer that is set fires, a handler settles.                           *)
Spec ==
  /\ Init /\ [][Next]_vars
  /\ WF_vars(processBatch /\ UNCHANGED poolVars)
  /\ WF_vars((HandlerResolved \/ HandlerRejected) /\ UNCHANGED poolVars)
=============================================================================
