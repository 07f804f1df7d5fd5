------------------------------- MODULE RelayNode -------------------------------
(***************************************************************************)
(* A relay: src/network/relay-node.js over its DHT storage,                *)
(* src/storage/dht-storage.js.  The LevelDB of stored records survives a   *)
(* crash; everything that is only awaited (the second half of              *)
(* storeWithReplication, the deletions of a cleanup or of a legacy fetch)  *)
(* does not.                                                               *)
(***************************************************************************)
EXTENDS MailNetwork

CONSTANT ReplicationFactor

ASSUME ReplicationAssumption == ReplicationFactor \in Nat

VARIABLES
  up,          \* the relays that are running
  store,       \* relay -> the records in its database
  replicating, \* relay -> envelopes stored once, replication still to run
  toDelete     \* relay -> record ids a running loop is about to delete

relayVars == <<up, store, replicating, toDelete>>

RelayTypeOK ==
  /\ up \subseteq Relays
  /\ store \in [Relays -> SUBSET Records]
  /\ replicating \in [Relays -> SUBSET Envelopes]
  /\ toDelete \in [Relays -> SUBSET RecordIds]

RelayInit ==
  /\ up = Relays
  /\ store = [r \in Relays |-> {}]
  /\ replicating = [r \in Relays |-> {}]
  /\ toDelete = [r \in Relays |-> {}]

-----------------------------------------------------------------------------
isExpired(rec) == now > rec.expires

(* db.put: the record replaces the one with the same key.                  *)
Put(records, rec) == {x \in records : x.id # rec.id} \cup {rec}

(* DHTMessageStorage.store: a new record with a new id.                    *)
StoreNew(r, e) ==
  /\ TakeId
  /\ store' = [store EXCEPT ![r] = Put(@, Record(FreshId, e, now + TTL))]

(* DHTMessageStorage.getMessages, for one key.                             *)
getMessages(r, key) ==
  {x \in store[r] : storageKey(x.env) = key /\ ~isExpired(x)}

(* pubsub delivers an envelope; handleMessage files it locally (the first  *)
(* half of storeWithReplication).  An envelope the rate limiter refuses is *)
(* never in net.                                                           *)
handleMessage(r, e) ==
  /\ r \in up
  /\ Gossip(r, e) \in net
  /\ net' = net \ {Gossip(r, e)}
  /\ StoreNew(r, e)
  /\ replicating' = [replicating EXCEPT ![r] = @ \cup {e}]
  /\ UNCHANGED <<now, up, toDelete>>

(* DHTCoordinator.storeWithReplication: files the envelope a second time,  *)
(* under another id, and offers that record to the storage nodes found.    *)
storeWithReplication(r, e, targets) ==
  /\ r \in up
  /\ e \in replicating[r]
  /\ targets \subseteq Relays \ {r}
  /\ Cardinality(targets) <= ReplicationFactor
  /\ StoreNew(r, e)
  /\ net' = net \cup {StoreRequest(t, Record(FreshId, e, now + TTL)) :
                        t \in targets}
  /\ replicating' = [replicating EXCEPT ![r] = @ \ {e}]
  /\ UNCHANGED <<now, up, toDelete>>

(* Faulty variant: the expiry of a replicated record is not kept.          *)
RestartTTL(r, m) ==
  /\ r \in up
  /\ m \in net /\ m.type = "store" /\ m.to = r
  /\ net' = net \ {m}
  /\ IF m.record.id = NoId
     THEN StoreNew(r, m.record.env)
     ELSE /\ store' = [store EXCEPT ![r] =
                         Put(@, [m.record EXCEPT !.expires = now + TTL])]
          /\ UNCHANGED nextId
  /\ UNCHANGED <<now, up, replicating, toDelete>>

(* A client's request carries no id and no expiry: MessageRecord.fromJSON  *)
(* fills them in.  A replica keeps the ones it has.                        *)
handleStoreRequest(r, m) ==
  /\ r \in up
  /\ m \in net /\ m.type = "store" /\ m.to = r
  /\ net' = net \ {m}
  /\ IF m.record.id = NoId
     THEN StoreNew(r, m.record.env)
     ELSE /\ store' = [store EXCEPT ![r] = Put(@, m.record)]
          /\ UNCHANGED nextId
  /\ UNCHANGED <<now, up, replicating, toDelete>>

(* Faulty variant: sealed envelopes are not looked up.                     *)
FetchByAddress(r, c) == getMessages(r, <<"address", c>>)

(* handleDHTFetchRequest: by address and by routing token; nothing is      *)
(* deleted.                                                                *)
dhtFetchResponse(r, c) ==
  getMessages(r, <<"address", c>>) \cup getMessages(r, <<"token", c>>)

(* handleFetchRequest, the legacy protocol: by address only.  Once the     *)
(* response is written to the stream the records are deleted.              *)
legacyResponse(r, c) == getMessages(r, <<"address", c>>)

(* Faulty variant: the loop collects every record it walks over.           *)
CollectEverything(r) ==
  /\ r \in up
  /\ toDelete' = [toDelete EXCEPT ![r] = @ \cup {x.id : x \in store[r]}]
  /\ UNCHANGED <<up, store, replicating>>

(* cleanupExpired, the loop that collects keys.                            *)
cleanupExpired(r) ==
  /\ r \in up
  /\ \E x \in store[r] : isExpired(x)
  /\ toDelete' = [toDelete EXCEPT ![r] =
                    @ \cup {x.id : x \in {y \in store[r] : isExpired(y)}}]
  /\ UNCHANGED <<up, store, replicating>>

(* Faulty variant: the key is dropped from the list, not from the database.*)
ForgetKey(r, id) ==
  /\ r \in up
  /\ id \in toDelete[r]
  /\ toDelete' = [toDelete EXCEPT ![r] = @ \ {id}]
  /\ UNCHANGED <<up, store, replicating>>

(* One db.del of cleanupExpired or of a legacy fetch.                      *)
deleteMessage(r, id) ==
  /\ r \in up
  /\ id \in toDelete[r]
  /\ store' = [store EXCEPT ![r] = {x \in @ : x.id # id}]
  /\ toDelete' = [toDelete EXCEPT ![r] = @ \ {id}]
  /\ UNCHANGED <<up, replicating>>

(* The process dies, with the loops that were running and the messages     *)
(* that were on their way to it.                                           *)
Crash(r) ==
  /\ r \in up
  /\ net' = Unaddressed(r)
  /\ up' = up \ {r}
  /\ replicating' = [replicating EXCEPT ![r] = {}]
  /\ toDelete' = [toDelete EXCEPT ![r] = {}]
  /\ UNCHANGED <<store, now, nextId>>

(* start(): init() awaits a whole cleanup before the node goes online.     *)
Restart(r) ==
  /\ r \notin up
  /\ up' = up \cup {r}
  /\ store' = [store EXCEPT ![r] = {x \in @ : ~isExpired(x)}]
  /\ UNCHANGED <<replicating, toDelete>>
=============================================================================
