---------------------------- MODULE MessageQueue ----------------------------
(***************************************************************************)
(* src/network/connection-pool.js, class MessageQueue, and the same queue  *)
(* in api/src/network/connection-pool.service.ts.  A batch is handed over  *)
(* in a timer, the handler is awaited, and messages are queued, or the     *)
(* queue cleared, meanwhile.                                               *)
(***************************************************************************)
EXTENDS Integers, Sequences, FiniteSets

CONSTANTS
  Messages,            \* bound: each is queued at most once
  Priorities,          \* 0 is the most urgent
  maxQueueSize,
  batchSize

ASSUME QueueAssumption ==
  /\ Priorities \subseteq Nat
  /\ maxQueueSize \in Nat \ {0}
  /\ batchSize \in Nat \ {0}

VARIABLES
  queue,               \* the queued messages, in order; enqueuedAt is the
                       \* number of messages queued before
  processing,
  timers,              \* processBatch timeouts that are set
  batches,             \* batches the handler has not settled
  gone,                \* messages taken out of the queue or cleared
  rejected             \* some call of the handler was rejected

queueVars == <<queue, processing, timers, batches, gone, rejected>>

QueueInit ==
  /\ queue = <<>>
  /\ processing = FALSE
  /\ timers = 0
  /\ batches = 0
  /\ gone = {}
  /\ rejected = FALSE

Queued == {queue[i].message : i \in DOMAIN queue}

-----------------------------------------------------------------------------
After(q, n, e) == SubSeq(q, 1, n) \o <<e>> \o SubSeq(q, n + 1, Len(q))

(* Faulty variant: a sort that puts the newest of equals first.            *)
UnstablyPlaced(q, e) ==
  After(q, Cardinality({i \in DOMAIN q : q[i].priority < e.priority}), e)

(* push and a stable sort by priority, of which the rest is sorted already: *)
(* behind those at least as urgent.                                        *)
Placed(q, e) ==
  After(q, Cardinality({i \in DOMAIN q : q[i].priority <= e.priority}), e)

(* Faulty variant: a timer for every message.                              *)
ScheduleAlways == processing' = TRUE /\ timers' = timers + 1

scheduleBatchProcess ==
  IF processing THEN UNCHANGED <<processing, timers>>
  ELSE processing' = TRUE /\ timers' = timers + 1

enqueue(m, priority) ==
  /\ m \notin Queued \cup gone
  /\ Len(queue) < maxQueueSize
  /\ queue' = Placed(queue, [message |-> m, priority |-> priority,
                             enqueuedAt |-> Cardinality(Queued \cup gone)])
  /\ scheduleBatchProcess
  /\ UNCHANGED <<batches, gone, rejected>>

Taken == IF Len(queue) < batchSize THEN Len(queue) ELSE batchSize

(* The timer fires: an empty queue ends the run, otherwise a batch leaves  *)
(* the queue and its handler is awaited.                                   *)
processBatch ==
  /\ timers > 0
  /\ timers' = timers - 1
  /\ IF queue = <<>>
     THEN /\ processing' = FALSE
          /\ UNCHANGED <<queue, batches, gone>>
     ELSE /\ queue' = SubSeq(queue, Taken + 1, Len(queue))
          /\ gone' = gone \cup {queue[i].message : i \in 1..Taken}
          /\ batches' = batches + 1
          /\ UNCHANGED processing
  /\ UNCHANGED rejected

(* Faulty variant: does not look at what was queued meanwhile.             *)
StopAfterBatch == processing' = FALSE /\ UNCHANGED timers

Continue ==
  IF queue # <<>>
  THEN timers' = timers + 1 /\ UNCHANGED processing
  ELSE processing' = FALSE /\ UNCHANGED timers

HandlerResolved ==
  /\ batches > 0
  /\ batches' = batches - 1
  /\ Continue
  /\ UNCHANGED <<queue, gone, rejected>>

(* processBatch rejects and processing stays TRUE.                         *)
HandlerRejected ==
  /\ batches > 0
  /\ batches' = batches - 1
  /\ rejected' = TRUE
  /\ UNCHANGED <<queue, processing, timers, gone>>

clear ==
  /\ queue # <<>>
  /\ gone' = gone \cup Queued
  /\ queue' = <<>>
  /\ UNCHANGED <<processing, timers, batches, rejected>>

-----------------------------------------------------------------------------
(* There is one run of the queue at most: a timer or a handler awaited,    *)
(* never two, so no two batches are in the handler's hands at once, and    *)
(* until a handler rejects, processing says exactly whether there is one.  *)
OneRun ==
  /\ timers + batches <= 1
  /\ timers + batches = 1 => processing
  /\ ~rejected /\ processing => timers + batches = 1

(* A batch never leaves a more urgent message behind, nor one of the same  *)
(* urgency that was queued earlier.                                        *)
UrgentFirst ==
  \A i, j \in DOMAIN queue :
    i < j => \/ queue[i].priority < queue[j].priority
             \/ /\ queue[i].priority = queue[j].priority
                /\ queue[i].enqueuedAt < queue[j].enqueuedAt

(* Every queued message is handed over or cleared, unless some handler     *)
(* rejects: then the queue may stand still for good.                       *)
Drains ==
  \A m \in Messages : m \in Queued ~> (m \in gone \/ rejected)
=============================================================================
