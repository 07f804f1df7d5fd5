------------------------------ MODULE MailNetwork ------------------------------
(***************************************************************************)
(* What relays and clients share: the envelopes, the clock, the messages   *)
(* in flight and the supply of random record ids.                          *)
(*                                                                         *)
(* An envelope is an opaque value with a sender and a recipient.  A sealed *)
(* envelope names its recipient only by the routing token, a plain one by  *)
(* its "to" field; relays file it under that key.                          *)
(***************************************************************************)
EXTENDS Integers, FiniteSets

CONSTANTS
  Clients, Relays, Envelopes,
  Sender, Recipient,    \* functions from Envelopes to Clients
  Sealed,               \* the envelopes of type 'sealed'
  TTL,                  \* MESSAGE_TTL_MS, in ticks
  MaxTime,              \* bound: the last value of the clock
  MaxRecords            \* bound: how many record ids are drawn

ASSUME NetworkAssumption ==
  /\ Sender \in [Envelopes -> Clients]
  /\ Recipient \in [Envelopes -> Clients]
  /\ Sealed \subseteq Envelopes
  /\ Clients \cap Relays = {}
  /\ TTL \in Nat /\ MaxTime \in Nat \ {0} /\ MaxRecords \in Nat

VARIABLES
  now,        \* Date.now()
  net,        \* pubsub messages and store requests in flight
  nextId      \* the next randomBytes(16) record id

netVars == <<now, net, nextId>>

(* The key under which relays file an envelope.                            *)
storageKey(e) ==
  <<IF e \in Sealed THEN "token" ELSE "address", Recipient[e]>>

(* The local id of an envelope: the same at every node, for every copy.    *)
getMessageId(e) == <<"message", e>>

(* Record ids are random, so two different draws differ.                   *)
recordId(n) == <<"record", n>>
NoId == <<"record", 0>>
FreshId == recordId(nextId)
TakeId == nextId <= MaxRecords /\ nextId' = nextId + 1

(* Messages that get lost (no gossip mesh yet, the peer is offline, the    *)
(* stream breaks, the relay's rate limiter refuses) are never put in net:  *)
(* a sender reaches any subset of the nodes it addresses, and whoever is   *)
(* in net arrives at any later time unless the addressee goes down first.  *)
Unaddressed(node) == {m \in net : m.to # node}

(* A stored record; expires = 0 stands for a field the sender left out.    *)
Record(id, e, expires) == [id |-> id, env |-> e, expires |-> expires]

Gossip(node, e) == [type |-> "gossip", to |-> node, env |-> e]
StoreRequest(relay, rec) == [type |-> "store", to |-> relay, record |-> rec]

RecordIds == {recordId(n) : n \in 1..MaxRecords}
Records == [id : RecordIds, env : Envelopes, expires : 1..(MaxTime + TTL + 1)]
Messages ==
  [type : {"gossip"}, to : Clients \cup Relays, env : Envelopes]
  \cup [type : {"store"}, to : Relays,
        record : Records \cup {Record(NoId, e, 0) : e \in Envelopes}]

NetInit == now = 1 /\ net = {} /\ nextId = 1

Tick ==
  /\ now < MaxTime
  /\ now' = now + 1
  /\ UNCHANGED <<net, nextId>>
=============================================================================
