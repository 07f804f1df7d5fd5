------------------------- MODULE RateLimiterService -------------------------
(***************************************************************************)
(* api/src/network/rate-limiter.service.ts: the plain limiter, which the   *)
(* P2P node calls for every message it sends and which has a limit over    *)
(* all senders, and the limiter by reputation, in one object: both read    *)
(* and write the same timestamps.  reset() has no caller.                  *)
(***************************************************************************)
EXTENDS RateLimiter

CONSTANT globalMaxRequests

ASSUME GlobalAssumption == globalMaxRequests \in Nat

VARIABLES
  globalRequests,      \* timestamps, of all senders
  checked              \* history: messages the global limit let pass

serviceVars == <<globalRequests, checked>>

SharedInit == LimiterInit /\ globalRequests = {} /\ checked = {}

(* Faulty variant: the list starts over.                                   *)
PushAside(s, timestamps) == globalRequests' = {Message(s)}

Push(s, timestamps) == globalRequests' = timestamps \cup {Message(s)}

(* check: the global limit first, then the sender's; trust does not count. *)
Allowed(s) ==
  /\ Cardinality(InWindow(globalRequests)) < globalMaxRequests
  /\ getRate(s) < maxRequests

checkAndRecordPlain(s) ==
  /\ Allowed(s)
  /\ Record(s, 0)
  /\ Push(s, InWindow(globalRequests))
  /\ checked' = checked \cup {Message(s)}
  /\ UNCHANGED <<now, dailyUsage, reputations, vouched>>

(* checkAndRecordWithReputation: records in both lists, tests one.         *)
checkAndRecordWithReputation(s, size) ==
  /\ checkAndRecord(s, size)
  /\ Push(s, globalRequests)
  /\ UNCHANGED checked

(* A refused check, and getGlobalRate, keep what they filtered.            *)
FilterGlobal ==
  /\ globalRequests' = InWindow(globalRequests)
  /\ UNCHANGED <<limiterVars, checked>>

cleanupAll ==
  /\ cleanup
  /\ globalRequests' = InWindow(globalRequests)
  /\ UNCHANGED checked

Trust(s) == reportSpam(s) \/ \E score \in Levels : markTrusted(s, score)

SharedNext ==
  \/ \E s \in Senders :
       \/ checkAndRecordPlain(s)
       \/ \E size \in Sizes : checkAndRecordWithReputation(s, size)
       \/ Trust(s) /\ UNCHANGED serviceVars
  \/ FilterGlobal
  \/ cleanupAll
  \/ Tick /\ UNCHANGED serviceVars

SharedSpec == SharedInit /\ [][SharedNext]_<<limiterVars, serviceVars>>

-----------------------------------------------------------------------------
(* No window holds more messages that passed the global limit than that    *)
(* limit, whoever sent them, whatever was recorded beside it and whatever  *)
(* was filtered or cleaned up meanwhile.                                   *)
GlobalBound ==
  Cardinality(InWindow(checked)) <= globalMaxRequests
=============================================================================
