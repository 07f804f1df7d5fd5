------------------------------ MODULE RateLimiter ------------------------------
(***************************************************************************)
(* The spam protection of a relay: ReputationRateLimiter over RateLimiter  *)
(* and SizeLimiter, src/network/rate-limiter.js.  Relays call              *)
(* checkAndRecord for every pubsub message (relay-node.js); a call that is *)
(* refused changes nothing.  Reputations are in tenths of a point.         *)
(* globalRequests is left out: no check of a relay reads it.  An array of  *)
(* timestamps is the set of the messages they are of: what is read of it   *)
(* is how many are in the window.  The same limiter inside the API is      *)
(* RateLimiterService, which composes these actions.                       *)
(***************************************************************************)
EXTENDS Integers, FiniteSets, FiniteSetsExt

CONSTANTS
  Senders,
  Sizes,              \* the message sizes senders use
  Levels,             \* the scores markTrusted is called with, of low, medium,
                      \* high and verified
  maxRequests, windowMs,
  maxMessageSize, maxDailyStorage,
  DayLength,          \* ticks in a day of new Date().toDateString()
  MaxTime,            \* bound: the last value of the clock
  MaxAccepted         \* bound: messages accepted from one sender

ASSUME LimiterAssumption ==
  /\ Sizes \subseteq Nat /\ Levels \subseteq {250, 500, 750, 1000}
  /\ maxRequests \in Nat /\ windowMs \in Nat
  /\ maxMessageSize \in Nat /\ maxDailyStorage \in Nat
  /\ maxMessageSize <= maxDailyStorage
  /\ DayLength \in Nat \ {0} /\ MaxTime \in Nat
  /\ MaxAccepted \in Nat

VARIABLES
  now,
  requests,        \* sender -> the messages it has timestamps of
  dailyUsage,      \* sender -> bytes counted on a date; date = -1: no entry
  reputations,     \* sender -> score, Unrated: no entry
  log,             \* history: sender -> the messages accepted
  served,          \* history: sender -> day -> bytes accepted
  vouched          \* history: senders passed to markTrusted

limiterVars == <<now, requests, dailyUsage, reputations, log, served, vouched>>

Unrated == -1
NoUsage == [bytes |-> 0, date |-> -1]
today == now \div DayLength
Days == 0..(MaxTime \div DayLength)

(* Multipliers of the base limit by threshold, in halves.                  *)
thresholds == [t \in {0, 250, 500, 750, 1000} |->
                 IF t = 1000 THEN 6 ELSE t \div 250 + 1]

LimiterInit ==
  /\ now = 0
  /\ requests = [s \in Senders |-> {}]
  /\ dailyUsage = [s \in Senders |-> NoUsage]
  /\ reputations = [s \in Senders |-> Unrated]
  /\ log = [s \in Senders |-> {}]
  /\ served = [s \in Senders |-> [day \in Days |-> 0]]
  /\ vouched = {}

-----------------------------------------------------------------------------
InWindow(messages) == {m \in messages : m.time > now - windowMs}

Message(s) == [from |-> s, nr |-> Cardinality(log[s]), time |-> now]

(* reputations.get(sender) || 0                                            *)
getAdjustedLimit(s) ==
  LET reputation == IF reputations[s] = Unrated THEN 0 ELSE reputations[s]
      reached == {t \in DOMAIN thresholds : reputation >= t}
  IN  (maxRequests * thresholds[Max(reached)]) \div 2

getRate(s) == Cardinality(InWindow(requests[s]))

checkSize(size) == size <= maxMessageSize

checkDailyStorage(s, size) ==
  dailyUsage[s].date = today => dailyUsage[s].bytes + size <= maxDailyStorage

check(s, size) ==
  /\ size > 0 => checkSize(size) /\ checkDailyStorage(s, size)
  /\ getRate(s) < getAdjustedLimit(s)

(* Faulty variant: today's count starts over with every message.           *)
ForgetUsage(s, size) ==
  dailyUsage' = [dailyUsage EXCEPT ![s] = [bytes |-> size, date |-> today]]

recordStorage(s, size) ==
  dailyUsage' = [dailyUsage EXCEPT ![s] =
                   [bytes |-> IF @.date = today THEN @.bytes + size ELSE size,
                    date |-> today]]

(* reputations.get(sender) || 25: a score of 0 counts as none.             *)
adjustReputation(s, delta) ==
  LET current == IF reputations[s] \in {Unrated, 0} THEN 250 ELSE reputations[s]
  IN  reputations' = [reputations EXCEPT ![s] = Max({0, Min({1000, current + delta})})]

(* A timestamp is pushed; the message is in the history.                   *)
Record(s, size) ==
  /\ Cardinality(log[s]) < MaxAccepted
  /\ requests' = [requests EXCEPT ![s] = @ \cup {Message(s)}]
  /\ log' = [log EXCEPT ![s] = @ \cup {Message(s)}]
  /\ served' = [served EXCEPT ![s][today] = @ + size]

checkAndRecord(s, size) ==
  /\ check(s, size)
  /\ Record(s, size)
  /\ IF size > 0 THEN recordStorage(s, size) ELSE UNCHANGED dailyUsage
  /\ adjustReputation(s, 1)
  /\ UNCHANGED <<now, vouched>>

reportSpam(s) ==
  /\ adjustReputation(s, -250)
  /\ UNCHANGED <<now, requests, dailyUsage, log, served, vouched>>

markTrusted(s, score) ==
  /\ reputations' = [reputations EXCEPT ![s] = score]
  /\ vouched' = vouched \cup {s}
  /\ UNCHANGED <<now, requests, dailyUsage, log, served>>

(* Faulty variant: the window is cut from the wrong side.                  *)
ForgetRecent ==
  /\ requests' = [s \in Senders |-> {m \in requests[s] : m.time > now}]
  /\ UNCHANGED <<now, dailyUsage, reputations, log, served, vouched>>

(* The interval that drops what has left the window.                       *)
cleanup ==
  /\ requests' = [s \in Senders |-> InWindow(requests[s])]
  /\ UNCHANGED <<now, dailyUsage, reputations, log, served, vouched>>

Tick ==
  /\ now < MaxTime
  /\ now' = now + 1
  /\ UNCHANGED <<requests, dailyUsage, reputations, log, served, vouched>>

-----------------------------------------------------------------------------
(* The limit of the score that n accepted messages can earn: 25 and a      *)
(* tenth of a point each, 50 being passed after 250 messages.              *)
EarnedLimit(n) ==
  IF n <= 250 THEN maxRequests
  ELSE IF n <= 500 THEN (3 * maxRequests) \div 2
  ELSE IF n <= 750 THEN 2 * maxRequests
  ELSE 3 * maxRequests

(* What a sender may send in a window, by the trust it was given or earned *)
Trusted(s) ==
  IF s \in vouched THEN 3 * maxRequests ELSE EarnedLimit(Cardinality(log[s]))

(* No window of windowMs ticks holds more accepted messages than the       *)
(* sender's trust allows: up to three times the base limit for a sender    *)
(* passed to markTrusted, and for any other the base limit until it has    *)
(* had 250 messages accepted, then what one tenth of a point for each      *)
(* earns.  Whatever cleanup has forgotten, however the sender is reported  *)
(* and however it spaces its messages.                                     *)
RateBound ==
  \A s \in Senders : Cardinality(InWindow(log[s])) <= Trusted(s)

(* What was accepted from a sender on one day fits the daily storage, also *)
(* when the day turns between two messages.                                *)
DailyBound ==
  \A s \in Senders, day \in Days : served[s][day] <= maxDailyStorage
=============================================================================
