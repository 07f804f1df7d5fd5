CONSTANTS
  Peers = {p1}
  RelayPeers = {p1}
  Latencies = {0, 700}
  MaxRequests = 3
  Messages = {m1, m2, m3}
  Priorities = {0, 1}
  maxQueueSize = 3
  batchSize = 2
SPECIFICATION Spec
INVARIANTS ScoreEarned OneRun UrgentFirst
PROPERTIES Drains
CHECK_DEADLOCK FALSE
