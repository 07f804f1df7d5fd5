--------------------------- MODULE ConnectionPool ---------------------------
(***************************************************************************)
(* src/network/connection-pool.js, class ConnectionPool, and its twin in   *)
(* api/src/network/connection-pool.service.ts: which peers are connected,  *)
(* which of them are relays and how these score.  identify and ping are    *)
(* awaited, so peers come and go before the answer is used.  The timer of  *)
(* scheduleReconnect dials relayInfo.multiaddr, which nothing ever sets:   *)
(* it ends without an effect and is not state here.                        *)
(* Scores are integers: one point of the code is Point.  They are exact up *)
(* to five requests and rounded down beyond.                               *)
(***************************************************************************)
EXTENDS Integers, FiniteSets

CONSTANTS
  Peers,
  RelayPeers,          \* those that speak the storage protocol
  Latencies,           \* bound: the latencies measured, and their averages
  MaxRequests          \* bound: requests recorded of any two relays

ASSUME PoolAssumption ==
  /\ RelayPeers \subseteq Peers
  /\ Latencies \subseteq Nat
  /\ MaxRequests \in Nat

VARIABLES
  running,             \* isRunning
  connections,         \* peer -> "none", "peer" or "relay" (isRelay)
  identifying,         \* peer -> identify calls not yet answered
  pinging,             \* peer -> the connection info a ping was begun with
  relayNodes           \* peer -> RelayNodeInfo

poolVars == <<running, connections, identifying, pinging, relayNodes>>

Point == 600
Unmeasured == -1         \* averageLatency null
Unknown == [known |-> FALSE, succeeded |-> 0, failed |-> 0,
            averageLatency |-> Unmeasured, score |-> 0]
Discovered == [Unknown EXCEPT !.known = TRUE, !.score = 100 * Point]

PoolInit ==
  /\ running = FALSE
  /\ connections = [p \in Peers |-> "none"]
  /\ identifying = [p \in Peers |-> FALSE]
  /\ pinging = [p \in Peers |-> "none"]
  /\ relayNodes = [p \in Peers |-> Unknown]

-----------------------------------------------------------------------------
(* A second start only adds listeners that do the same again.              *)
poolStart ==
  /\ ~running
  /\ running' = TRUE
  /\ UNCHANGED <<connections, identifying, pinging, relayNodes>>

(* Listeners and pending answers live on.                                  *)
poolStop ==
  /\ running
  /\ running' = FALSE
  /\ UNCHANGED <<connections, identifying, pinging, relayNodes>>

(* The record is new, even if the peer was a known relay: identify decides *)
(* again.                                                                  *)
onPeerConnect(p) ==
  /\ connections[p] = "none"
  /\ connections' = [connections EXCEPT ![p] = "peer"]
  /\ identifying' = [identifying EXCEPT ![p] = TRUE]
  /\ UNCHANGED <<running, pinging, relayNodes>>

(* A ping under way keeps the record it was begun with.                    *)
onPeerDisconnect(p) ==
  /\ connections[p] # "none"
  /\ connections' = [connections EXCEPT ![p] = "none"]
  /\ pinging' = [pinging EXCEPT ![p] =
       IF @ # "current" THEN @
       ELSE IF connections[p] = "relay" THEN "stale relay" ELSE "stale peer"]
  /\ UNCHANGED <<running, identifying, relayNodes>>

(* Marks the connection of now, if there is one, and the relay.            *)
markAsRelay(p) ==
  /\ connections' = [connections EXCEPT ![p] =
                       IF @ = "none" THEN "none" ELSE "relay"]
  /\ relayNodes' = [relayNodes EXCEPT ![p] = IF @.known THEN @ ELSE Discovered]

(* checkIfRelay after its await; identify may fail.                        *)
Identified(p) ==
  /\ identifying[p]
  /\ identifying' = [identifying EXCEPT ![p] = FALSE]
  /\ \/ p \in RelayPeers /\ markAsRelay(p)
     \/ UNCHANGED <<connections, relayNodes>>
  /\ UNCHANGED <<running, pinging>>

(* 0.8 of the average and 0.2 of the latency, to the grid of Latencies.    *)
Averaged(average, latency) ==
  IF average = Unmeasured THEN {latency}
  ELSE {l \in Latencies : \/ average <= l /\ l <= latency
                          \/ latency <= l /\ l <= average}

LatencyScore(average) == IF average > 1000 THEN 0 ELSE 100 - (average \div 10)

Reliability(succeeded, failed) ==
  (100 * Point * succeeded) \div (succeeded + failed + 1)

Score(r) ==
  (2 * Point * LatencyScore(r.averageLatency)) \div 5
    + (3 * Reliability(r.succeeded, r.failed)) \div 5

updateRelayScore(p, r, latency) ==
  IF ~r.known THEN UNCHANGED relayNodes
  ELSE \E a \in Averaged(r.averageLatency, latency) :
         LET measured == [r EXCEPT !.averageLatency = a]
         IN  relayNodes' =
               [relayNodes EXCEPT ![p] =
                  [measured EXCEPT !.score = Score(measured)]]

(* healthCheck: a connection without recent activity is pinged.            *)
PingStale(p) ==
  /\ running
  /\ connections[p] # "none"
  /\ pinging[p] = "none"
  /\ pinging' = [pinging EXCEPT ![p] = "current"]
  /\ UNCHANGED <<running, connections, identifying, relayNodes>>

(* The answer goes to the record the ping was begun with, and to the score *)
(* if that record was a relay's; or the ping fails and is swallowed.       *)
Pinged(p) ==
  /\ pinging[p] # "none"
  /\ pinging' = [pinging EXCEPT ![p] = "none"]
  /\ \/ /\ \/ pinging[p] = "current" /\ connections[p] = "relay"
           \/ pinging[p] = "stale relay"
        /\ \E l \in Latencies : updateRelayScore(p, relayNodes[p], l)
     \/ UNCHANGED relayNodes
  /\ UNCHANGED <<running, connections, identifying>>

Recorded == [p \in Peers |-> relayNodes[p].succeeded + relayNodes[p].failed]

RequestsLeft ==
  \A p, q \in Peers :
    (IF p = q THEN Recorded[p] ELSE Recorded[p] + Recorded[q]) < MaxRequests

recordRelaySuccess(p, latency) ==
  /\ RequestsLeft
  /\ LET r == relayNodes[p]
     IN  updateRelayScore(p, [r EXCEPT !.succeeded =
                                IF r.known THEN @ + 1 ELSE @], latency)
  /\ UNCHANGED <<running, connections, identifying, pinging>>

(* Faulty variant: half the penalty.                                       *)
HalfPenalised(r) ==
  [r EXCEPT !.failed = @ + 1,
            !.score = IF @ < 5 * Point THEN 0 ELSE @ - 5 * Point]

Penalised(r) ==
  [r EXCEPT !.failed = @ + 1,
            !.score = IF @ < 10 * Point THEN 0 ELSE @ - 10 * Point]

recordRelayFailure(p) ==
  /\ RequestsLeft
  /\ relayNodes' = [relayNodes EXCEPT ![p] = IF @.known THEN Penalised(@) ELSE @]
  /\ UNCHANGED <<running, connections, identifying, pinging>>

-----------------------------------------------------------------------------
(* A relay that has answered never scores above what its answers and       *)
(* failures earn at the best latency: the flat penalty of a failure and    *)
(* the recomputation at the next answer or ping agree in every order.      *)
ScoreEarned ==
  \A p \in Peers :
    LET r == relayNodes[p]
    IN  r.averageLatency # Unmeasured =>
          r.score <= 40 * Point + (3 * Reliability(r.succeeded, r.failed)) \div 5
=============================================================================
