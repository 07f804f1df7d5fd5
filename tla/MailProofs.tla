------------------------------ MODULE MailProofs ------------------------------
(***************************************************************************)
(* Proofs about MailDelivery, for any clients, relays and envelopes, and   *)
(* any number of messages, crashes and fetches.                            *)
(***************************************************************************)
EXTENDS MailDelivery, TLAPS

(* Record ids of different draws differ, and none is NoId.                  *)
LEMMA RecordIdsDiffer ==
  ASSUME NEW m, NEW n, recordId(m) = recordId(n)
  PROVE  m = n
BY DEF recordId

(* A record with the next id and a full life is one.                        *)
LEMMA NewRecord ==
  ASSUME TypeOK, nextId <= MaxRecords, NEW e \in Envelopes
  PROVE  /\ Record(FreshId, e, now + TTL) \in Records
         /\ nextId + 1 \in 1..(MaxRecords + 1)
<1>1. now + TTL \in 1..(MaxTime + TTL + 1)
  BY NetworkAssumption DEF TypeOK
<1>2. nextId \in 1..MaxRecords
  BY NetworkAssumption DEF TypeOK
<1>3. FreshId \in RecordIds
  BY <1>2 DEF FreshId, RecordIds
<1> QED BY <1>1, <1>2, <1>3, NetworkAssumption DEF Record, Records, TypeOK

(* What a stored message in flight holds.                                   *)
LEMMA StoreRequestType ==
  ASSUME TypeOK, NEW m \in net, m.type = "store"
  PROVE  /\ m.to \in Relays
         /\ m.record.env \in Envelopes
         /\ m.record.id # NoId => m.record \in Records
<1>1. m \in [type : {"store"}, to : Relays,
             record : Records \cup {Record(NoId, e, 0) : e \in Envelopes}]
  BY DEF TypeOK, Messages
<1>2. m.record \in Records \/ \E e \in Envelopes : m.record = Record(NoId, e, 0)
  BY <1>1
<1> QED BY <1>1, <1>2 DEF Record, Records

(* Messages sent are messages.                                              *)
LEMMA SentTypes ==
  /\ \A n \in Clients \cup Relays, e \in Envelopes : Gossip(n, e) \in Messages
  /\ \A r \in Relays, x \in Records : StoreRequest(r, x) \in Messages
  /\ \A r \in Relays, e \in Envelopes :
       StoreRequest(r, Record(NoId, e, 0)) \in Messages
BY DEF Gossip, StoreRequest, Messages

-----------------------------------------------------------------------------
(* What a step of a relay does to the records.                              *)
LEMMA RelayStepType ==
  ASSUME TypeOK, NEW r \in Relays, RelayStep(r)
  PROVE  TypeOK'
<1>1. ASSUME NEW e \in Envelopes, StoreNew(r, e)
      PROVE  /\ store' \in [Relays -> SUBSET Records]
             /\ nextId' \in 1..(MaxRecords + 1)
  <2>1. Record(FreshId, e, now + TTL) \in Records
    BY <1>1, NewRecord DEF StoreNew, TakeId
  <2> QED
    BY <1>1, <2>1, NewRecord DEF StoreNew, TakeId, Put, TypeOK, RelayTypeOK
<1>2. ASSUME UNCHANGED clientVars
      PROVE  ClientTypeOK'
  BY <1>2 DEF TypeOK, ClientTypeOK, clientVars
<1>3. ASSUME NEW e \in Envelopes, handleMessage(r, e), UNCHANGED clientVars
      PROVE  TypeOK'
  BY <1>1, <1>2, <1>3 DEF handleMessage, TypeOK, RelayTypeOK
<1>4. ASSUME NEW e \in Envelopes, NEW t \in SUBSET Relays,
             storeWithReplication(r, e, t), UNCHANGED clientVars
      PROVE  TypeOK'
  <2>1. StoreNew(r, e)
    BY <1>4 DEF storeWithReplication
  <2>2. Record(FreshId, e, now + TTL) \in Records
    BY <2>1, NewRecord DEF StoreNew, TakeId
  <2>3. net' \subseteq Messages
    BY <1>4, <2>2, SentTypes DEF storeWithReplication, TypeOK
  <2> QED
    BY <1>1, <1>2, <1>4, <2>1, <2>3
    DEF storeWithReplication, TypeOK, RelayTypeOK
<1>5. ASSUME NEW m \in net, handleStoreRequest(r, m), UNCHANGED clientVars
      PROVE  TypeOK'
  <2>1. CASE m.record.id = NoId
    <3>1. StoreNew(r, m.record.env) /\ m.record.env \in Envelopes
      BY <1>5, <2>1, StoreRequestType DEF handleStoreRequest
    <3> QED
      BY <1>1, <1>2, <1>5, <3>1 DEF handleStoreRequest, TypeOK, RelayTypeOK
  <2>2. CASE m.record.id # NoId
    <3>1. m.record \in Records
      BY <1>5, <2>2, StoreRequestType DEF handleStoreRequest
    <3> QED
      BY <1>2, <1>5, <2>2, <3>1
      DEF handleStoreRequest, Put, TypeOK, RelayTypeOK
  <2> QED BY <2>1, <2>2
<1>6. ASSUME Crash(r), UNCHANGED clientVars
      PROVE  TypeOK'
  BY <1>2, <1>6 DEF Crash, Unaddressed, TypeOK, RelayTypeOK
<1>7. ASSUME cleanupExpired(r), UNCHANGED <<clientVars, netVars>>
      PROVE  TypeOK'
  BY <1>2, <1>7 DEF cleanupExpired, netVars, Records, TypeOK, RelayTypeOK
<1>8. ASSUME NEW id \in toDelete[r], deleteMessage(r, id),
             UNCHANGED <<clientVars, netVars>>
      PROVE  TypeOK'
  BY <1>2, <1>8 DEF deleteMessage, netVars, TypeOK, RelayTypeOK
<1>9. ASSUME Restart(r), UNCHANGED <<clientVars, netVars>>
      PROVE  TypeOK'
  BY <1>2, <1>9 DEF Restart, netVars, TypeOK, RelayTypeOK
<1> QED
  BY <1>3, <1>4, <1>5, <1>6, <1>7, <1>8, <1>9 DEF RelayStep

-----------------------------------------------------------------------------
(* The ids under which an inbox files messages.                             *)
LEMMA EntryTypes ==
  /\ \A e \in Envelopes : [id |-> getMessageId(e), env |-> e] \in Entries
  /\ \A id \in LocalIds, e \in Envelopes : [id |-> id, env |-> e] \in Entries
BY DEF Entries, LocalIds

(* Putting an entry into an inbox keeps the types.                          *)
LEMMA StoreMessageType ==
  ASSUME TypeOK, NEW c \in Clients, NEW id, NEW e \in Envelopes,
         [id |-> id, env |-> e] \in Entries, storeMessage(c, id, e)
  PROVE  /\ inbox' \in [Clients -> SUBSET Entries]
         /\ received' \subseteq Clients \X Envelopes
BY DEF storeMessage, PutEntry, TypeOK, ClientTypeOK

(* The progress of one fetch loop is replaced.                              *)
LEMMA FetchType ==
  ASSUME TypeOK, NEW c \in Clients, NEW l \in Loops,
         NEW f \in [peers : SUBSET Relays, got : SUBSET Entries,
                    seen : SUBSET LocalIds],
         fetch' = [fetch EXCEPT ![c][l] = f]
  PROVE  fetch' \in [Clients -> [Loops -> [peers : SUBSET Relays,
                                          got : SUBSET Entries,
                                          seen : SUBSET LocalIds]]]
BY DEF TypeOK, ClientTypeOK

(* A loop that stands still.                                                *)
LEMMA IdleType ==
  Idle \in [peers : SUBSET Relays, got : SUBSET Entries, seen : SUBSET LocalIds]
BY DEF Idle

(* A fetch loop takes the answer of a relay.                                *)
LEMMA AnswerType ==
  ASSUME TypeOK, NEW c \in Clients, NEW l \in Loops, NEW r \in Relays,
         NEW messages \in SUBSET Entries, Answer(c, l, r, messages)
  PROVE  ClientTypeOK'
<1> DEFINE FS == [peers : SUBSET Relays, got : SUBSET Entries,
                  seen : SUBSET LocalIds]
<1>1. PICK p \in SUBSET Relays, g \in SUBSET Entries, f \in FS :
        /\ f = [fetch[c][l] EXCEPT !.peers = p, !.got = g]
        /\ fetch' = [fetch EXCEPT ![c][l] =
                       IF f.peers = {} /\ f.got = {} THEN Idle ELSE f]
  <2> DEFINE p == fetch[c][l].peers \ {r}
             g == {m \in messages : m.id \notin fetch[c][l].seen}
  <2>1. fetch[c][l] \in FS
    BY DEF TypeOK, ClientTypeOK
  <2>2. p \in SUBSET Relays /\ g \in SUBSET Entries
    BY <2>1
  <2>3. [fetch[c][l] EXCEPT !.peers = p, !.got = g] \in FS
    BY <2>1, <2>2
  <2>4. LET f == [fetch[c][l] EXCEPT !.peers = p, !.got = g]
        IN  fetch' = [fetch EXCEPT ![c][l] =
                        IF f.peers = {} /\ f.got = {} THEN Idle ELSE f]
    BY DEF Answer
  <2> QED BY <2>2, <2>3, <2>4
<1>2. PICK h \in FS : fetch' = [fetch EXCEPT ![c][l] = h]
  BY <1>1, IdleType
<1>3. fetch' \in [Clients -> [Loops -> FS]]
  BY <1>2, FetchType
<1> QED BY <1>3 DEF Answer, TypeOK, ClientTypeOK

(* A step of a client keeps the types.                                      *)
LEMMA ClientStepType ==
  ASSUME TypeOK, NEW c \in Clients, ClientStep(c)
  PROVE  TypeOK'
<1> DEFINE FS == [peers : SUBSET Relays, got : SUBSET Entries,
                  seen : SUBSET LocalIds]
<1>1. ASSUME UNCHANGED relayVars
      PROVE  RelayTypeOK'
  BY <1>1 DEF TypeOK, RelayTypeOK, relayVars
<1>2. ASSUME NEW e \in Envelopes, NEW reached \in SUBSET (Clients \cup Relays),
             NEW conns \in SUBSET Relays,
             sendMessage(c, e, reached, conns), UNCHANGED relayVars
      PROVE  TypeOK'
  <2>1. net' \subseteq Messages
    BY <1>2, SentTypes DEF sendMessage, TypeOK
  <2>2. /\ inbox' \in [Clients -> SUBSET Entries]
        /\ received' \subseteq Clients \X Envelopes
    <3>1. CASE Recipient[e] = c /\ e \notin Sealed
      BY <1>2, <3>1, EntryTypes, StoreMessageType DEF sendMessage
    <3>2. CASE ~(Recipient[e] = c /\ e \notin Sealed)
      BY <1>2, <3>2 DEF sendMessage, TypeOK, ClientTypeOK
    <3> QED BY <3>1, <3>2
  <2> QED BY <1>1, <1>2, <2>1, <2>2 DEF sendMessage, TypeOK, ClientTypeOK
<1>3. ASSUME NEW e \in Envelopes, handleIncomingMessage(c, e),
             UNCHANGED relayVars
      PROVE  TypeOK'
  <2>1. /\ inbox' \in [Clients -> SUBSET Entries]
        /\ received' \subseteq Clients \X Envelopes
    <3>1. CASE isForUs(c, e)
      BY <1>3, <3>1, EntryTypes, StoreMessageType DEF handleIncomingMessage
    <3>2. CASE ~isForUs(c, e)
      BY <1>3, <3>2 DEF handleIncomingMessage, TypeOK, ClientTypeOK
    <3> QED BY <3>1, <3>2
  <2> QED
    BY <1>1, <1>3, <2>1 DEF handleIncomingMessage, TypeOK, ClientTypeOK
<1>4. ASSUME Quit(c), UNCHANGED relayVars
      PROVE  TypeOK'
  BY <1>1, <1>4, IdleType DEF Quit, Unaddressed, TypeOK, ClientTypeOK
<1>5. ASSUME NEW l \in Loops, StartFetch(c, l),
             UNCHANGED <<relayVars, netVars>>
      PROVE  TypeOK'
  <2>1. [Idle EXCEPT !.peers = Relays] \in FS
    BY IdleType
  <2>2. fetch' \in [Clients -> [Loops -> FS]]
    BY <1>5, <2>1, FetchType DEF StartFetch
  <2> QED
    BY <1>1, <1>5, <2>2 DEF StartFetch, netVars, TypeOK, ClientTypeOK
<1>6. ASSUME NEW l \in Loops, StoreFetched(c, l),
             UNCHANGED <<relayVars, netVars>>
      PROVE  TypeOK'
  <2>1. fetch[c][l] \in FS
    BY DEF TypeOK, ClientTypeOK
  <2>2. PICK m \in fetch[c][l].got :
          /\ storeMessage(c, m.id, m.env)
          /\ LET f == [fetch[c][l] EXCEPT
                         !.got = @ \ {m},
                         !.seen = IF l = "inbox" THEN @ \cup {m.id} ELSE @]
             IN  fetch' = [fetch EXCEPT ![c][l] =
                             IF f.peers = {} /\ f.got = {} THEN Idle ELSE f]
          /\ UNCHANGED <<sent, marking>>
    BY <1>6 DEF StoreFetched
  <2>3. m \in Entries /\ m.id \in LocalIds /\ m.env \in Envelopes
    BY <2>1 DEF Entries
  <2>4. [fetch[c][l] EXCEPT
           !.got = @ \ {m},
           !.seen = IF l = "inbox" THEN @ \cup {m.id} ELSE @] \in FS
    BY <2>1, <2>3
  <2>5. PICK h \in FS : fetch' = [fetch EXCEPT ![c][l] = h]
    BY <2>2, <2>4, IdleType
  <2>6. fetch' \in [Clients -> [Loops -> FS]]
    BY <2>5, FetchType
  <2>7. /\ inbox' \in [Clients -> SUBSET Entries]
        /\ received' \subseteq Clients \X Envelopes
    BY <2>2, <2>3, EntryTypes, StoreMessageType
  <2> QED
    BY <1>1, <1>6, <2>2, <2>6, <2>7 DEF netVars, TypeOK, ClientTypeOK
<1>7. ASSUME NEW x \in inbox[c], markAsRead(c, x),
             UNCHANGED <<relayVars, netVars>>
      PROVE  TypeOK'
  BY <1>1, <1>7 DEF markAsRead, netVars, TypeOK, ClientTypeOK
<1>8. ASSUME MarkedAsRead(c), UNCHANGED <<relayVars, netVars>>
      PROVE  TypeOK'
  BY <1>1, <1>8 DEF MarkedAsRead, PutEntry, netVars, TypeOK, ClientTypeOK
<1>9. ASSUME NEW x \in inbox[c], DeleteEntry(c, x),
             UNCHANGED <<relayVars, netVars>>
      PROVE  TypeOK'
  BY <1>1, <1>9 DEF DeleteEntry, netVars, TypeOK, ClientTypeOK
<1> QED
  BY <1>2, <1>3, <1>4, <1>5, <1>6, <1>7, <1>8, <1>9 DEF ClientStep

(* What a relay sends back are entries.                                     *)
LEMMA ResponseTypes ==
  ASSUME TypeOK, NEW c \in Clients, NEW l \in Loops, NEW r \in Relays
  PROVE  /\ {[id |-> FetchedId(l, x), env |-> x.env] :
               x \in dhtFetchResponse(r, c)} \in SUBSET Entries
         /\ {[id |-> getMessageId(x.env), env |-> x.env] :
               x \in legacyResponse(r, c)} \in SUBSET Entries
         /\ {x.id : x \in legacyResponse(r, c)} \in SUBSET RecordIds
<1>1. /\ dhtFetchResponse(r, c) \subseteq store[r]
      /\ legacyResponse(r, c) \subseteq store[r]
  BY DEF dhtFetchResponse, legacyResponse, getMessages
<1>2. \A x \in store[r] : x.id \in RecordIds /\ x.env \in Envelopes
  BY DEF TypeOK, RelayTypeOK, Records
<1>3. \A x \in store[r] : FetchedId(l, x) \in LocalIds
  BY <1>2 DEF FetchedId, LocalIds
<1> QED BY <1>1, <1>2, <1>3, EntryTypes

(* A fetch keeps the types.                                                 *)
LEMMA FetchStepType ==
  ASSUME TypeOK, NEW c \in Clients, NEW l \in Loops, NEW r \in Relays,
         FetchStep(c, l, r)
  PROVE  TypeOK'
<1>1. CASE FetchDHT(c, l, r)
  <2>1. ClientTypeOK'
    BY <1>1, ResponseTypes, AnswerType DEF FetchDHT
  <2> QED BY <1>1, <2>1 DEF FetchDHT, netVars, relayVars, TypeOK, RelayTypeOK
<1>2. ASSUME NEW arrives \in BOOLEAN, FetchLegacy(c, l, r, arrives)
      PROVE  TypeOK'
  <2>1. {[id |-> getMessageId(x.env), env |-> x.env] :
           x \in IF arrives THEN legacyResponse(r, c) ELSE {}}
          \in SUBSET Entries
    BY ResponseTypes
  <2>2. ClientTypeOK'
    BY <1>2, <2>1, AnswerType DEF FetchLegacy
  <2>3. toDelete' \in [Relays -> SUBSET RecordIds]
    BY <1>2, ResponseTypes DEF FetchLegacy, TypeOK, RelayTypeOK
  <2> QED BY <1>2, <2>2, <2>3 DEF FetchLegacy, netVars, TypeOK, RelayTypeOK
<1>3. CASE FetchFails(c, l, r)
  <2>1. ClientTypeOK'
    BY <1>3, AnswerType DEF FetchFails
  <2> QED BY <1>3, <2>1 DEF FetchFails, netVars, relayVars, TypeOK, RelayTypeOK
<1> QED BY <1>1, <1>2, <1>3 DEF FetchStep

(* The empty network has the types.                                         *)
LEMMA TypeInit == Init => TypeOK
BY NetworkAssumption, IdleType
DEF Init, NetInit, RelayInit, ClientInit, TypeOK, RelayTypeOK, ClientTypeOK

(* Every step keeps the types.                                              *)
LEMMA TypeNext == TypeOK /\ [Next]_vars => TypeOK'
<1> SUFFICES ASSUME TypeOK, [Next]_vars PROVE TypeOK'
  OBVIOUS
<1>1. CASE Clock
  BY <1>1, NetworkAssumption
  DEF Clock, Tick, relayVars, clientVars, TypeOK, RelayTypeOK, ClientTypeOK
<1>2. CASE UNCHANGED vars
  BY <1>2 DEF vars, netVars, relayVars, clientVars, TypeOK, RelayTypeOK,
              ClientTypeOK
<1> QED
  BY <1>1, <1>2, RelayStepType, ClientStepType, FetchStepType DEF Next

(* Messages in flight, databases, loops and inboxes only ever hold values   *)
(* of their kind.                                                           *)
THEOREM TypeCorrect == Spec => []TypeOK
BY TypeInit, TypeNext, PTL DEF Spec

-----------------------------------------------------------------------------
(* Every envelope a relay holds, or that is on its way, was sent.           *)
OnlySent ==
  /\ \A m \in net : IF m.type = "store" THEN m.record.env \in sent
                                        ELSE m.env \in sent
  /\ \A r \in Relays : \A x \in store[r] : x.env \in sent
  /\ \A r \in Relays : replicating[r] \subseteq sent

(* What a client has fetched, or is about to put back, is its own mail.     *)
Own(c, entries) == \A x \in entries : x.env \in sent /\ Recipient[x.env] = c
OwnMail ==
  \A c \in Clients :
    /\ Own(c, inbox[c])
    /\ Own(c, marking[c])
    /\ \A l \in Loops : Own(c, fetch[c][l].got)

AddressedInv == TypeOK /\ OnlySent /\ OwnMail

(* A record just filed holds the envelope filed.                            *)
LEMMA StoreNewSent ==
  ASSUME TypeOK, OnlySent, NEW r \in Relays, NEW e \in sent, StoreNew(r, e)
  PROVE  \A q \in Relays : \A x \in store'[q] : x.env \in sent
BY DEF StoreNew, Put, Record, OnlySent, TypeOK, RelayTypeOK

(* Relays make no envelopes.                                                *)
LEMMA RelayStepSent ==
  ASSUME TypeOK, OnlySent, NEW r \in Relays, RelayStep(r)
  PROVE  OnlySent'
<1>0. sent' = sent
  BY DEF RelayStep, clientVars
<1>1. ASSUME NEW e \in Envelopes, handleMessage(r, e)
      PROVE  OnlySent'
  <2>1. e \in sent
    BY <1>1 DEF handleMessage, OnlySent, Gossip
  <2> QED
    BY <1>0, <1>1, <2>1, StoreNewSent
    DEF handleMessage, OnlySent, TypeOK, RelayTypeOK
<1>2. ASSUME NEW e \in Envelopes, NEW t \in SUBSET Relays,
             storeWithReplication(r, e, t)
      PROVE  OnlySent'
  <2>1. e \in sent
    BY <1>2 DEF storeWithReplication, OnlySent
  <2>2. \A q \in Relays : \A x \in store'[q] : x.env \in sent
    BY <1>2, <2>1, StoreNewSent DEF storeWithReplication
  <2>3. \A m \in net' : IF m.type = "store" THEN m.record.env \in sent
                                            ELSE m.env \in sent
    BY <1>2, <2>1 DEF storeWithReplication, OnlySent, StoreRequest, Record
  <2>4. \A q \in Relays : replicating'[q] \subseteq sent
    BY <1>2 DEF storeWithReplication, OnlySent, TypeOK, RelayTypeOK
  <2> QED BY <1>0, <2>2, <2>3, <2>4 DEF OnlySent
<1>3. ASSUME NEW m \in net, handleStoreRequest(r, m)
      PROVE  OnlySent'
  <2>1. m.record.env \in sent
    BY <1>3 DEF handleStoreRequest, OnlySent
  <2>2. \A q \in Relays : \A x \in store'[q] : x.env \in sent
    <3>1. CASE m.record.id = NoId
      BY <1>3, <2>1, <3>1, StoreNewSent DEF handleStoreRequest
    <3>2. CASE m.record.id # NoId
      BY <1>3, <2>1, <3>2
      DEF handleStoreRequest, Put, OnlySent, TypeOK, RelayTypeOK
    <3> QED BY <3>1, <3>2
  <2> QED BY <1>0, <1>3, <2>2 DEF handleStoreRequest, OnlySent
<1>4. ASSUME Crash(r)
      PROVE  OnlySent'
  BY <1>0, <1>4 DEF Crash, Unaddressed, OnlySent, TypeOK, RelayTypeOK
<1>5. ASSUME UNCHANGED netVars, cleanupExpired(r)
      PROVE  OnlySent'
  BY <1>0, <1>5 DEF cleanupExpired, netVars, OnlySent
<1>6. ASSUME UNCHANGED netVars, NEW id \in toDelete[r], deleteMessage(r, id)
      PROVE  OnlySent'
  BY <1>0, <1>6 DEF deleteMessage, netVars, OnlySent, TypeOK, RelayTypeOK
<1>7. ASSUME UNCHANGED netVars, Restart(r)
      PROVE  OnlySent'
  BY <1>0, <1>7 DEF Restart, netVars, OnlySent, TypeOK, RelayTypeOK
<1> QED
  BY <1>1, <1>2, <1>3, <1>4, <1>5, <1>6, <1>7 DEF RelayStep

(* Clients only send what they have counted as sent.                        *)
LEMMA ClientStepSent ==
  ASSUME TypeOK, OnlySent, NEW c \in Clients, ClientStep(c)
  PROVE  OnlySent' /\ sent \subseteq sent'
<1>1. ASSUME NEW e \in Envelopes, NEW reached \in SUBSET (Clients \cup Relays),
             NEW conns \in SUBSET Relays,
             sendMessage(c, e, reached, conns), UNCHANGED relayVars
      PROVE  OnlySent' /\ sent \subseteq sent'
  <2>1. sent' = sent \cup {e}
    BY <1>1 DEF sendMessage
  <2>2. \A m \in net' : IF m.type = "store" THEN m.record.env \in sent'
                                            ELSE m.env \in sent'
    BY <1>1, <2>1 DEF sendMessage, OnlySent, Gossip, StoreRequest, Record
  <2> QED BY <1>1, <2>1, <2>2 DEF OnlySent, relayVars
<1>2. ASSUME NEW e \in Envelopes, handleIncomingMessage(c, e),
             UNCHANGED relayVars
      PROVE  OnlySent' /\ sent \subseteq sent'
  BY <1>2 DEF handleIncomingMessage, OnlySent, relayVars
<1>3. ASSUME Quit(c), UNCHANGED relayVars
      PROVE  OnlySent' /\ sent \subseteq sent'
  BY <1>3 DEF Quit, Unaddressed, OnlySent, relayVars
<1>4. ASSUME UNCHANGED <<relayVars, netVars, sent>>
      PROVE  OnlySent' /\ sent \subseteq sent'
  BY <1>4 DEF OnlySent, relayVars, netVars
<1>5. \/ \E e \in Envelopes, reached \in SUBSET (Clients \cup Relays),
            conns \in SUBSET Relays :
              sendMessage(c, e, reached, conns) /\ UNCHANGED relayVars
      \/ \E e \in Envelopes :
              handleIncomingMessage(c, e) /\ UNCHANGED relayVars
      \/ Quit(c) /\ UNCHANGED relayVars
      \/ UNCHANGED <<relayVars, netVars, sent>>
  BY DEF ClientStep, StartFetch, StoreFetched, markAsRead, MarkedAsRead,
         DeleteEntry
<1> QED BY <1>1, <1>2, <1>3, <1>4, <1>5

(* Filing one's own mail.                                                   *)
LEMMA StoreMessageOwn ==
  ASSUME TypeOK, OwnMail, NEW c \in Clients, NEW id,
         NEW e \in sent, Recipient[e] = c, storeMessage(c, id, e)
  PROVE  \A d \in Clients : Own(d, inbox'[d])
<1>1. inbox' = [inbox EXCEPT ![c] =
                  {y \in @ : y.id # id} \cup {[id |-> id, env |-> e]}]
  BY DEF storeMessage, PutEntry
<1> QED BY <1>1 DEF Own, OwnMail, TypeOK, ClientTypeOK

(* Own mail stays own when more is sent.                                    *)
LEMMA OwnLater ==
  ASSUME sent \subseteq sent', NEW c, NEW entries, Own(c, entries)
  PROVE  \A x \in entries : x.env \in sent' /\ Recipient[x.env] = c
BY DEF Own

(* What is left of OwnMail when the parts have been settled.                *)
LEMMA OwnParts ==
  ASSUME \A c \in Clients : \A x \in inbox'[c] :
           x.env \in sent' /\ Recipient[x.env] = c,
         \A c \in Clients : \A x \in marking'[c] :
           x.env \in sent' /\ Recipient[x.env] = c,
         \A c \in Clients, l \in Loops : \A x \in fetch'[c][l].got :
           x.env \in sent' /\ Recipient[x.env] = c
  PROVE  OwnMail'
BY DEF OwnMail, Own

(* A client's loops after one of them took a step.                          *)
LEMMA FetchOwn ==
  ASSUME TypeOK, OwnMail, NEW c \in Clients, NEW l \in Loops, NEW f,
         fetch' = [fetch EXCEPT ![c][l] = f], Own(c, f.got)
  PROVE  \A d \in Clients, k \in Loops : Own(d, fetch'[d][k].got)
BY DEF OwnMail, TypeOK, ClientTypeOK

(* A step of a client leaves every inbox with its owner's mail.             *)
LEMMA ClientStepOwn ==
  ASSUME AddressedInv, NEW c \in Clients, ClientStep(c)
  PROVE  OwnMail'
<1> USE DEF AddressedInv
<1>1. ASSUME NEW e \in Envelopes, NEW reached \in SUBSET (Clients \cup Relays),
             NEW conns \in SUBSET Relays,
             sendMessage(c, e, reached, conns)
      PROVE  OwnMail'
  <2>1. sent' = sent \cup {e} /\ UNCHANGED <<fetch, marking>>
    BY <1>1 DEF sendMessage
  <2>2. \A d \in Clients : \A x \in inbox'[d] :
          x.env \in sent' /\ Recipient[x.env] = d
    <3>1. CASE Recipient[e] = c /\ e \notin Sealed
      <4>1. inbox' = [inbox EXCEPT ![c] =
                        {y \in @ : y.id # getMessageId(e)}
                          \cup {[id |-> getMessageId(e), env |-> e]}]
        BY <1>1, <3>1 DEF sendMessage, storeMessage, PutEntry
      <4> QED BY <2>1, <3>1, <4>1 DEF Own, OwnMail, TypeOK, ClientTypeOK
    <3>2. CASE ~(Recipient[e] = c /\ e \notin Sealed)
      BY <1>1, <2>1, <3>2 DEF sendMessage, Own, OwnMail
    <3> QED BY <3>1, <3>2
  <2> QED BY <2>1, <2>2, OwnParts DEF Own, OwnMail
<1>2. ASSUME NEW e \in Envelopes, handleIncomingMessage(c, e)
      PROVE  OwnMail'
  <2>1. e \in sent
    BY <1>2 DEF handleIncomingMessage, OnlySent, Gossip
  <2>2. \A d \in Clients : Own(d, inbox'[d])
    <3>1. CASE isForUs(c, e)
      <4>1. Recipient[e] = c
        BY <3>1 DEF isForUs, storageKey
      <4> QED BY <1>2, <2>1, <3>1, <4>1, StoreMessageOwn DEF handleIncomingMessage
    <3>2. CASE ~isForUs(c, e)
      BY <1>2, <3>2 DEF handleIncomingMessage, OwnMail
    <3> QED BY <3>1, <3>2
  <2> QED BY <1>2, <2>2, OwnParts DEF handleIncomingMessage, Own, OwnMail
<1>3. ASSUME Quit(c)
      PROVE  OwnMail'
  BY <1>3 DEF Quit, Idle, Own, OwnMail, TypeOK, ClientTypeOK
<1>4. ASSUME NEW l \in Loops, StartFetch(c, l)
      PROVE  OwnMail'
  <2>1. Own(c, [Idle EXCEPT !.peers = Relays].got)
    BY DEF Idle, Own
  <2>2. \A d \in Clients, k \in Loops : Own(d, fetch'[d][k].got)
    BY <1>4, <2>1, FetchOwn DEF StartFetch
  <2> QED BY <1>4, <2>2, OwnParts DEF StartFetch, Own, OwnMail
<1>5. ASSUME NEW l \in Loops, StoreFetched(c, l)
      PROVE  OwnMail'
  <2>1. PICK m, f :
          /\ m \in fetch[c][l].got
          /\ storeMessage(c, m.id, m.env)
          /\ f.got \subseteq fetch[c][l].got
          /\ fetch' = [fetch EXCEPT ![c][l] = f]
          /\ UNCHANGED <<sent, marking>>
    <3>1. fetch[c][l] \in [peers : SUBSET Relays, got : SUBSET Entries,
                           seen : SUBSET LocalIds]
      BY DEF TypeOK, ClientTypeOK
    <3>2. PICK m \in fetch[c][l].got :
            /\ storeMessage(c, m.id, m.env)
            /\ LET f == [fetch[c][l] EXCEPT
                          !.got = @ \ {m},
                          !.seen = IF l = "inbox" THEN @ \cup {m.id} ELSE @]
               IN  fetch' = [fetch EXCEPT ![c][l] =
                               IF f.peers = {} /\ f.got = {} THEN Idle ELSE f]
            /\ UNCHANGED <<sent, marking>>
      BY <1>5 DEF StoreFetched
    <3>3. [fetch[c][l] EXCEPT
             !.got = @ \ {m},
             !.seen = IF l = "inbox" THEN @ \cup {m.id} ELSE @].got
            = fetch[c][l].got \ {m}
      BY <3>1
    <3> QED BY <3>2, <3>3 DEF Idle
  <2>2. m.env \in sent /\ Recipient[m.env] = c
    BY <2>1 DEF OwnMail, Own
  <2>3. \A d \in Clients : Own(d, inbox'[d])
    BY <2>1, <2>2, StoreMessageOwn
  <2>4. \A d \in Clients, k \in Loops : Own(d, fetch'[d][k].got)
    <3>1. Own(c, f.got)
      BY <2>1 DEF OwnMail, Own
    <3> QED BY <2>1, <3>1, FetchOwn
  <2> QED BY <2>1, <2>3, <2>4, OwnParts DEF Own, OwnMail
<1>6. ASSUME NEW x \in inbox[c], markAsRead(c, x)
      PROVE  OwnMail'
  BY <1>6 DEF markAsRead, Own, OwnMail, TypeOK, ClientTypeOK
<1>7. ASSUME MarkedAsRead(c)
      PROVE  OwnMail'
  BY <1>7 DEF MarkedAsRead, PutEntry, Own, OwnMail, TypeOK, ClientTypeOK
<1>8. ASSUME NEW x \in inbox[c], DeleteEntry(c, x)
      PROVE  OwnMail'
  BY <1>8 DEF DeleteEntry, Own, OwnMail, TypeOK, ClientTypeOK
<1> QED
  BY <1>1, <1>2, <1>3, <1>4, <1>5, <1>6, <1>7, <1>8 DEF ClientStep

(* A relay files plain envelopes under their recipient's address, sealed    *)
(* ones under the recipient's routing token: what it sends back is for the  *)
(* client that asks.                                                        *)
LEMMA ResponsesAddressed ==
  ASSUME OnlySent, NEW c, NEW r \in Relays
  PROVE  /\ \A x \in dhtFetchResponse(r, c) :
              x.env \in sent /\ Recipient[x.env] = c
         /\ \A x \in legacyResponse(r, c) :
              /\ x.env \in sent /\ Recipient[x.env] = c
              /\ x.env \notin Sealed
BY DEF dhtFetchResponse, legacyResponse, getMessages, storageKey, OnlySent

(* A loop takes an answer that is its client's mail.                        *)
LEMMA AnswerOwn ==
  ASSUME AddressedInv, NEW c \in Clients, NEW l \in Loops, NEW r \in Relays,
         NEW messages, Answer(c, l, r, messages), Own(c, messages)
  PROVE  OwnMail'
<1> USE DEF AddressedInv
<1>1. PICK f : fetch' = [fetch EXCEPT ![c][l] = f] /\ Own(c, f.got)
  <2>1. fetch[c][l] \in [peers : SUBSET Relays, got : SUBSET Entries,
                         seen : SUBSET LocalIds]
    BY DEF TypeOK, ClientTypeOK
  <2> DEFINE g == {m \in messages : m.id \notin fetch[c][l].seen}
             f == [fetch[c][l] EXCEPT !.peers = @ \ {r}, !.got = g]
  <2>2. fetch' = [fetch EXCEPT ![c][l] =
                    IF f.peers = {} /\ f.got = {} THEN Idle ELSE f]
    BY DEF Answer
  <2>3. f.got = g
    BY <2>1
  <2>4. Own(c, f.got) /\ Own(c, Idle.got)
    BY <2>3 DEF Own, Idle
  <2> HIDE DEF f
  <2> QED BY <2>2, <2>4
<1>2. UNCHANGED <<sent, inbox, marking>>
  BY DEF Answer
<1>3. \A d \in Clients, k \in Loops : Own(d, fetch'[d][k].got)
  BY <1>1, FetchOwn
<1> QED BY <1>2, <1>3, OwnParts DEF Own, OwnMail

(* A fetch brings a client its own mail.                                    *)
LEMMA FetchStepOwn ==
  ASSUME AddressedInv, NEW c \in Clients, NEW l \in Loops, NEW r \in Relays,
         FetchStep(c, l, r)
  PROVE  OnlySent' /\ OwnMail'
<1> USE DEF AddressedInv
<1>1. OnlySent'
  <2>1. UNCHANGED <<netVars, sent, store, replicating>>
    BY DEF FetchStep, FetchDHT, FetchLegacy, FetchFails, Answer, relayVars
  <2> QED BY <2>1 DEF OnlySent, netVars
<1>2. CASE FetchDHT(c, l, r)
  <2>1. Own(c, {[id |-> FetchedId(l, x), env |-> x.env] :
                  x \in dhtFetchResponse(r, c)})
    BY ResponsesAddressed DEF Own
  <2> QED BY <1>1, <1>2, <2>1, AnswerOwn DEF FetchDHT
<1>3. ASSUME NEW arrives \in BOOLEAN, FetchLegacy(c, l, r, arrives)
      PROVE  OwnMail'
  <2>1. Own(c, {[id |-> getMessageId(x.env), env |-> x.env] :
                  x \in IF arrives THEN legacyResponse(r, c) ELSE {}})
    BY ResponsesAddressed DEF Own
  <2> QED BY <1>3, <2>1, AnswerOwn DEF FetchLegacy
<1>4. CASE FetchFails(c, l, r)
  BY <1>1, <1>4, AnswerOwn DEF FetchFails, Own
<1> QED BY <1>1, <1>2, <1>3, <1>4 DEF FetchStep

(* The empty inboxes.                                                       *)
LEMMA AddressedInit == Init => AddressedInv
<1> SUFFICES ASSUME Init PROVE AddressedInv
  OBVIOUS
<1>1. OnlySent
  BY DEF Init, NetInit, RelayInit, ClientInit, OnlySent
<1>2. OwnMail
  BY DEF Init, ClientInit, Idle, OwnMail, Own
<1> QED BY <1>1, <1>2, TypeInit DEF AddressedInv

(* Every step keeps the invariant.                                          *)
LEMMA AddressedNext == AddressedInv /\ [Next]_vars => AddressedInv'
<1> SUFFICES ASSUME AddressedInv, [Next]_vars PROVE AddressedInv'
  OBVIOUS
<1>1. TypeOK'
  BY TypeNext DEF AddressedInv
<1>2. ASSUME UNCHANGED <<net, sent, store, replicating, inbox, fetch, marking>>
      PROVE  OnlySent' /\ OwnMail'
  BY <1>2 DEF AddressedInv, OnlySent, OwnMail, Own
<1>3. ASSUME NEW r \in Relays, RelayStep(r)
      PROVE  OnlySent' /\ OwnMail'
  <2>1. OnlySent'
    BY <1>3, RelayStepSent DEF AddressedInv
  <2>2. UNCHANGED <<sent, inbox, fetch, marking>>
    BY <1>3 DEF RelayStep, clientVars
  <2>3. OwnMail'
    BY <2>2 DEF AddressedInv, OwnMail, Own
  <2> QED BY <2>1, <2>3
<1>4. ASSUME NEW c \in Clients, ClientStep(c)
      PROVE  OnlySent' /\ OwnMail'
  BY <1>4, ClientStepSent, ClientStepOwn DEF AddressedInv
<1>5. ASSUME NEW c \in Clients, NEW l \in Loops, NEW r \in Relays,
             FetchStep(c, l, r)
      PROVE  OnlySent' /\ OwnMail'
  BY <1>5, FetchStepOwn
<1>6. CASE Clock
  BY <1>1, <1>2, <1>6
  DEF Clock, Tick, relayVars, clientVars, AddressedInv
<1>7. CASE UNCHANGED vars
  BY <1>1, <1>2, <1>7
  DEF vars, netVars, relayVars, clientVars, AddressedInv
<1>8. OnlySent' /\ OwnMail'
  BY <1>3, <1>4, <1>5, <1>6, <1>7 DEF Next, AddressedInv
<1> QED BY <1>1, <1>8 DEF AddressedInv

(* An inbox only ever holds envelopes that were sent to its owner, whoever  *)
(* carried them and in whatever order: pubsub, either fetch protocol,       *)
(* self-delivery, markAsRead putting back what it read earlier.             *)
THEOREM InboxesAddressed == Spec => []InboxAddressed
<1>1. AddressedInv => InboxAddressed
  BY DEF AddressedInv, OwnMail, Own, InboxAddressed
<1> QED BY <1>1, AddressedInit, AddressedNext, PTL DEF Spec

-----------------------------------------------------------------------------
(* The records in a database, and the replicas that are on their way.       *)
Stored(x) == \E r \in Relays : x \in store[r]
InTransit(x) ==
  \E m \in net : m.type = "store" /\ m.record.id # NoId /\ m.record = x
Known(x) == Stored(x) \/ InTransit(x)

(* An id that has been drawn.                                               *)
Drawn(id) == \E n \in 1..(nextId - 1) : id = recordId(n)

IdsDrawn == \A x \in Records : Known(x) => Drawn(x.id)

OneRecordPerId ==
  \A x, y \in Records : Known(x) /\ Known(y) /\ x.id = y.id => x = y

(* A loop only deletes what has expired or has been delivered in the plain. *)
DoomedIds ==
  \A r \in Relays : \A id \in toDelete[r] :
    /\ Drawn(id)
    /\ \A x \in Records :
         Known(x) /\ x.id = id /\ x.env \in Sealed => isExpired(x)

RecordsInv == TypeOK /\ IdsDrawn /\ OneRecordPerId /\ DoomedIds

(* What a step can do to the records known: none appears, or a fresh one.   *)
NoneAppears == nextId' = nextId /\ \A x \in Records : Known(x)' => Known(x)
FreshAppears ==
  \E e \in Envelopes :
    /\ nextId <= MaxRecords
    /\ nextId' = nextId + 1
    /\ \A x \in Records :
         Known(x)' => Known(x) \/ x = Record(FreshId, e, now + TTL)

(* Filing a new record adds that record to the database.                    *)
LEMMA StoreNewKnown ==
  ASSUME TypeOK, NEW r \in Relays, NEW e \in Envelopes, StoreNew(r, e)
  PROVE  /\ nextId <= MaxRecords
         /\ nextId' = nextId + 1
         /\ \A x \in Records :
              Stored(x)' => Stored(x) \/ x = Record(FreshId, e, now + TTL)
BY DEF StoreNew, TakeId, Put, Stored, TypeOK, RelayTypeOK

(* Relays know no record that was not drawn or sent to them.                *)
LEMMA RelayStepKnown ==
  ASSUME TypeOK, NEW r \in Relays, RelayStep(r)
  PROVE  NoneAppears \/ FreshAppears
<1>1. ASSUME NEW e \in Envelopes, handleMessage(r, e)
      PROVE  FreshAppears
  <2>1. StoreNew(r, e)
    BY <1>1 DEF handleMessage
  <2>2. \A x \in Records : InTransit(x)' => InTransit(x)
    BY <1>1 DEF handleMessage, InTransit
  <2> QED BY <2>1, <2>2, StoreNewKnown DEF Known, FreshAppears
<1>2. ASSUME NEW e \in Envelopes, NEW t \in SUBSET Relays,
             storeWithReplication(r, e, t)
      PROVE  FreshAppears
  <2>1. StoreNew(r, e)
    BY <1>2 DEF storeWithReplication
  <2>2. \A x \in Records :
          InTransit(x)' => InTransit(x) \/ x = Record(FreshId, e, now + TTL)
    BY <1>2 DEF storeWithReplication, InTransit, StoreRequest
  <2> QED BY <2>1, <2>2, StoreNewKnown DEF Known, FreshAppears
<1>3. ASSUME NEW m \in net, handleStoreRequest(r, m)
      PROVE  NoneAppears \/ FreshAppears
  <2>1. \A x \in Records : InTransit(x)' => InTransit(x)
    BY <1>3 DEF handleStoreRequest, InTransit
  <2>2. CASE m.record.id = NoId
    <3>1. StoreNew(r, m.record.env) /\ m.record.env \in Envelopes
      BY <1>3, <2>2, StoreRequestType DEF handleStoreRequest
    <3> QED BY <2>1, <3>1, StoreNewKnown DEF Known, FreshAppears
  <2>3. CASE m.record.id # NoId
    <3>1. InTransit(m.record)
      BY <1>3, <2>3 DEF handleStoreRequest, InTransit
    <3>2. \A x \in Records : Stored(x)' => Stored(x) \/ x = m.record
      BY <1>3, <2>3
      DEF handleStoreRequest, Put, Stored, TypeOK, RelayTypeOK
    <3>3. nextId' = nextId
      BY <1>3, <2>3 DEF handleStoreRequest
    <3> QED BY <2>1, <3>1, <3>2, <3>3 DEF Known, NoneAppears
  <2> QED BY <2>2, <2>3
<1>4. ASSUME Crash(r)
      PROVE  NoneAppears
  BY <1>4 DEF Crash, Unaddressed, NoneAppears, Known, Stored, InTransit
<1>5. ASSUME UNCHANGED netVars, cleanupExpired(r)
      PROVE  NoneAppears
  BY <1>5 DEF cleanupExpired, netVars, NoneAppears, Known, Stored, InTransit
<1>6. ASSUME UNCHANGED netVars, NEW id \in toDelete[r], deleteMessage(r, id)
      PROVE  NoneAppears
  <2>1. \A x \in Records : Stored(x)' => Stored(x)
    BY <1>6 DEF deleteMessage, Stored, TypeOK, RelayTypeOK
  <2> QED BY <1>6, <2>1 DEF netVars, NoneAppears, Known, InTransit
<1>7. ASSUME UNCHANGED netVars, Restart(r)
      PROVE  NoneAppears
  <2>1. \A x \in Records : Stored(x)' => Stored(x)
    BY <1>7 DEF Restart, Stored, TypeOK, RelayTypeOK
  <2> QED BY <1>7, <2>1 DEF netVars, NoneAppears, Known, InTransit
<1> QED
  BY <1>1, <1>2, <1>3, <1>4, <1>5, <1>6, <1>7 DEF RelayStep

(* Clients make no records: their requests carry no id.                     *)
LEMMA ClientStepKnown ==
  ASSUME TypeOK, NEW c \in Clients, ClientStep(c)
  PROVE  NoneAppears
<1>1. UNCHANGED <<store, nextId>>
  BY DEF ClientStep, sendMessage, handleIncomingMessage, Quit, relayVars,
         netVars
<1>2. \A x \in Records : InTransit(x)' => InTransit(x)
  <2>1. ASSUME NEW e \in Envelopes,
               NEW reached \in SUBSET (Clients \cup Relays),
               NEW conns \in SUBSET Relays,
               sendMessage(c, e, reached, conns)
        PROVE  \A x \in Records : InTransit(x)' => InTransit(x)
    BY <2>1 DEF sendMessage, InTransit, Gossip, StoreRequest, Record
  <2>2. ASSUME net' \subseteq net
        PROVE  \A x \in Records : InTransit(x)' => InTransit(x)
    BY <2>2 DEF InTransit
  <2> QED
    BY <2>1, <2>2
    DEF ClientStep, handleIncomingMessage, Quit, Unaddressed, netVars
<1> QED BY <1>1, <1>2 DEF NoneAppears, Known, Stored

(* Every step.                                                              *)
LEMMA StepKnown ==
  ASSUME TypeOK, [Next]_vars
  PROVE  NoneAppears \/ FreshAppears
<1>1. ASSUME UNCHANGED <<net, nextId, store>>
      PROVE  NoneAppears
  BY <1>1 DEF NoneAppears, Known, Stored, InTransit
<1>2. ASSUME NEW c \in Clients, NEW l \in Loops, NEW r \in Relays,
             FetchStep(c, l, r)
      PROVE  NoneAppears
  BY <1>1, <1>2 DEF FetchStep, FetchDHT, FetchLegacy, FetchFails, netVars,
                    relayVars
<1>3. CASE Clock
  BY <1>1, <1>3 DEF Clock, Tick, relayVars
<1>4. CASE UNCHANGED vars
  BY <1>1, <1>4 DEF vars, netVars, relayVars
<1> QED
  BY <1>2, <1>3, <1>4, RelayStepKnown, ClientStepKnown DEF Next

-----------------------------------------------------------------------------
(* The id drawn next is nobody's yet.                                       *)
LEMMA FreshUndrawn ==
  ASSUME TypeOK
  PROVE  ~Drawn(FreshId)
BY RecordIdsDiffer DEF TypeOK, Drawn, FreshId

(* What has been drawn stays drawn.                                         *)
LEMMA DrawnStays ==
  ASSUME TypeOK, nextId' = nextId \/ nextId' = nextId + 1
  PROVE  /\ \A id : Drawn(id) => Drawn(id)'
         /\ nextId' = nextId + 1 => \A id : id = FreshId => Drawn(id)'
<1>1. nextId \in Nat /\ nextId >= 1
  BY NetworkAssumption DEF TypeOK
<1>2. 1..(nextId - 1) \subseteq 1..(nextId' - 1)
  BY <1>1
<1>3. nextId' = nextId + 1 => nextId \in 1..(nextId' - 1)
  BY <1>1
<1> QED BY <1>2, <1>3 DEF Drawn, FreshId

(* Ids stay drawn, and an id stays one record's.                            *)
LEMMA IdsNext ==
  ASSUME TypeOK, IdsDrawn, OneRecordPerId, [Next]_vars
  PROVE  IdsDrawn' /\ OneRecordPerId'
<1>1. CASE NoneAppears
  BY <1>1, DrawnStays DEF NoneAppears, IdsDrawn, OneRecordPerId
<1>2. CASE FreshAppears
  <2>1. PICK e \in Envelopes :
          /\ nextId' = nextId + 1
          /\ \A x \in Records :
               Known(x)' => Known(x) \/ x = Record(FreshId, e, now + TTL)
    BY <1>2 DEF FreshAppears
  <2>2. Record(FreshId, e, now + TTL).id = FreshId
    BY DEF Record
  <2>3. IdsDrawn'
    <3> SUFFICES ASSUME NEW x \in Records, Known(x)'
                 PROVE  Drawn(x.id)'
      BY DEF IdsDrawn
    <3> QED BY <2>1, <2>2, DrawnStays DEF IdsDrawn
  <2>4. \A x \in Records : Known(x) => x.id # FreshId
    BY FreshUndrawn DEF IdsDrawn
  <2>5. OneRecordPerId'
    <3> SUFFICES ASSUME NEW x \in Records, NEW y \in Records,
                        Known(x)', Known(y)', x.id = y.id
                 PROVE  x = y
      BY DEF OneRecordPerId
    <3> QED BY <2>1, <2>2, <2>4 DEF OneRecordPerId
  <2> QED BY <2>3, <2>5
<1> QED BY <1>1, <1>2, StepKnown

(* What a step may newly intend to delete: a record that has expired, or a  *)
(* plain one.                                                               *)
NewlyDoomed(r, id) ==
  \E x \in store[r] : x.id = id /\ (isExpired(x) \/ x.env \notin Sealed)

(* Where the ids to delete come from.                                       *)
LEMMA StepDooms ==
  ASSUME TypeOK, OnlySent, [Next]_vars, NEW r \in Relays, NEW id \in toDelete'[r]
  PROVE  id \in toDelete[r] \/ NewlyDoomed(r, id)
<1>1. ASSUME NEW q \in Relays, RelayStep(q)
      PROVE  id \in toDelete[r] \/ NewlyDoomed(r, id)
  <2>1. \/ toDelete' = toDelete
        \/ toDelete' = [toDelete EXCEPT ![q] = {}]
        \/ \E i \in toDelete[q] : toDelete' = [toDelete EXCEPT ![q] = @ \ {i}]
        \/ cleanupExpired(q)
    BY <1>1 DEF RelayStep, handleMessage, storeWithReplication,
                handleStoreRequest, deleteMessage, Restart, Crash
  <2>2. CASE toDelete' = toDelete
    BY <2>2
  <2>3. CASE \/ toDelete' = [toDelete EXCEPT ![q] = {}]
             \/ \E i \in toDelete[q] :
                  toDelete' = [toDelete EXCEPT ![q] = @ \ {i}]
    BY <2>3 DEF TypeOK, RelayTypeOK
  <2>4. CASE cleanupExpired(q)
    BY <2>4 DEF cleanupExpired, NewlyDoomed, TypeOK, RelayTypeOK
  <2> QED BY <2>1, <2>2, <2>3, <2>4
<1>2. ASSUME NEW c \in Clients, NEW l \in Loops, NEW q \in Relays,
             FetchStep(c, l, q)
      PROVE  id \in toDelete[r] \/ NewlyDoomed(r, id)
  <2>1. CASE toDelete' = toDelete
    BY <2>1
  <2>2. CASE toDelete' = [toDelete EXCEPT ![q] =
                            @ \cup {x.id : x \in legacyResponse(q, c)}]
    <3>1. \A x \in legacyResponse(q, c) : x \in store[q] /\ x.env \notin Sealed
      BY ResponsesAddressed DEF legacyResponse, getMessages
    <3> QED BY <2>2, <3>1 DEF NewlyDoomed, TypeOK, RelayTypeOK
  <2> QED
    BY <1>2, <2>1, <2>2
    DEF FetchStep, FetchDHT, FetchLegacy, FetchFails, relayVars
<1>3. ASSUME toDelete' = toDelete
      PROVE  id \in toDelete[r]
  BY <1>3
<1> QED
  BY <1>1, <1>2, <1>3 DEF Next, ClientStep, Clock, vars, relayVars

(* Time does not run backwards.                                             *)
LEMMA StaysExpired ==
  ASSUME TypeOK, [Next]_vars, NEW x \in Records, isExpired(x)
  PROVE  isExpired(x)'
<1>1. now' = now \/ now' = now + 1
  <2>1. ASSUME NEW r \in Relays, RelayStep(r)
        PROVE  now' = now
    BY <2>1 DEF RelayStep, netVars, handleMessage, storeWithReplication,
                handleStoreRequest, Crash
  <2>2. ASSUME NEW c \in Clients, ClientStep(c)
        PROVE  now' = now
    BY <2>2 DEF ClientStep, netVars, sendMessage, handleIncomingMessage, Quit
  <2>3. ASSUME NEW c \in Clients, NEW l \in Loops, NEW r \in Relays,
               FetchStep(c, l, r)
        PROVE  now' = now
    BY <2>3 DEF FetchStep, netVars, FetchDHT, FetchLegacy, FetchFails
  <2>4. CASE Clock
    BY <2>4 DEF Clock, Tick
  <2>5. CASE UNCHANGED vars
    BY <2>5 DEF vars, netVars
  <2> QED BY <2>1, <2>2, <2>3, <2>4, <2>5 DEF Next
<1>2. now \in Int /\ x.expires \in Int
  BY NetworkAssumption DEF TypeOK, Records
<1> QED BY <1>1, <1>2 DEF isExpired

(* Loops only ever intend to delete what they may.                          *)
LEMMA DoomedNext ==
  ASSUME RecordsInv, OnlySent, [Next]_vars
  PROVE  DoomedIds'
<1> USE DEF RecordsInv
<1> SUFFICES ASSUME NEW r \in Relays, NEW id \in toDelete'[r]
             PROVE  /\ Drawn(id)'
                    /\ \A x \in Records :
                         Known(x)' /\ x.id = id /\ x.env \in Sealed
                           => isExpired(x)'
  BY DEF DoomedIds
<1>1. /\ Drawn(id)
      /\ \A x \in Records :
           Known(x) /\ x.id = id /\ x.env \in Sealed => isExpired(x)
  <2>1. CASE id \in toDelete[r]
    BY <2>1 DEF DoomedIds
  <2>2. CASE NewlyDoomed(r, id)
    <3>1. PICK y \in store[r] :
            y.id = id /\ (isExpired(y) \/ y.env \notin Sealed)
      BY <2>2 DEF NewlyDoomed
    <3>2. y \in Records /\ Known(y)
      BY DEF Known, Stored, TypeOK, RelayTypeOK
    <3> QED BY <3>1, <3>2 DEF IdsDrawn, OneRecordPerId
  <2> QED BY <2>1, <2>2, StepDooms
<1>2. Drawn(id)'
  BY <1>1, StepKnown, DrawnStays DEF NoneAppears, FreshAppears
<1>3. ASSUME NEW x \in Records, Known(x)', x.id = id, x.env \in Sealed
      PROVE  isExpired(x)'
  <2>1. Known(x)
    <3>1. id # FreshId
      BY <1>1, FreshUndrawn
    <3> QED BY <1>3, <3>1, StepKnown DEF NoneAppears, FreshAppears, Record
  <2> QED BY <1>1, <1>3, <2>1, StaysExpired
<1> QED BY <1>2, <1>3

-----------------------------------------------------------------------------
MailInv == AddressedInv /\ RecordsInv

(* At the start nothing is stored and no id is drawn.                       *)
LEMMA MailInit == Init => MailInv
<1> SUFFICES ASSUME Init PROVE MailInv
  OBVIOUS
<1>1. \A x \in Records : ~Known(x)
  BY DEF Init, NetInit, RelayInit, Known, Stored, InTransit
<1>2. DoomedIds
  BY DEF Init, RelayInit, DoomedIds
<1> QED
  BY <1>1, <1>2, TypeInit, AddressedInit
  DEF MailInv, RecordsInv, IdsDrawn, OneRecordPerId

(* Every step keeps the invariant.                                          *)
LEMMA MailNext == MailInv /\ [Next]_vars => MailInv'
<1> SUFFICES ASSUME MailInv, [Next]_vars PROVE MailInv'
  OBVIOUS
<1>1. AddressedInv'
  BY AddressedNext DEF MailInv
<1>2. TypeOK'
  BY TypeNext DEF MailInv, AddressedInv
<1>3. IdsDrawn' /\ OneRecordPerId'
  BY IdsNext DEF MailInv, RecordsInv
<1>4. DoomedIds'
  BY DoomedNext DEF MailInv, AddressedInv
<1> QED BY <1>1, <1>2, <1>3, <1>4 DEF MailInv, RecordsInv

(* Copies of a record agree at every relay, through replication, retried    *)
(* store requests, crashes and restarts.                                    *)
THEOREM CopiesAgree == Spec => []ReplicasAgree
<1>1. MailInv => ReplicasAgree
  <2> SUFFICES ASSUME MailInv, NEW q \in Relays, NEW r \in Relays,
                      NEW x \in store[q], NEW y \in store[r], x.id = y.id
               PROVE  x = y
    BY DEF ReplicasAgree
  <2>1. x \in Records /\ y \in Records
    BY DEF MailInv, RecordsInv, TypeOK, RelayTypeOK
  <2>2. Known(x) /\ Known(y)
    BY DEF Known, Stored
  <2> QED BY <2>1, <2>2 DEF MailInv, RecordsInv, OneRecordPerId
<1> QED BY <1>1, MailInit, MailNext, PTL DEF Spec

(* A record that leaves a database in a step had expired, was plain, or was *)
(* replaced by itself.                                                      *)
LEMMA RelayStepKeeps ==
  ASSUME MailInv, NEW q \in Relays, RelayStep(q),
         NEW r \in Relays, NEW x \in store[r],
         x.env \in Sealed, x \notin store'[r]
  PROVE  isExpired(x)
<1> USE DEF MailInv, RecordsInv
<1>1. x \in Records /\ Known(x)
  BY DEF Known, Stored, TypeOK, RelayTypeOK
<1>2. ASSUME NEW e \in Envelopes, StoreNew(q, e)
      PROVE  x \in store'[r]
  <2>1. x.id # FreshId
    BY <1>1, FreshUndrawn DEF IdsDrawn
  <2> QED BY <1>2, <2>1 DEF StoreNew, Put, Record, TypeOK, RelayTypeOK
<1>3. ASSUME NEW m \in net, handleStoreRequest(q, m)
      PROVE  x \in store'[r]
  <2>1. CASE m.record.id = NoId
    <3>1. StoreNew(q, m.record.env) /\ m.record.env \in Envelopes
      BY <1>3, <2>1, StoreRequestType DEF handleStoreRequest
    <3> QED BY <1>2, <3>1
  <2>2. CASE m.record.id # NoId
    <3>1. m.record \in Records /\ Known(m.record)
      BY <1>3, <2>2, StoreRequestType
      DEF handleStoreRequest, Known, InTransit
    <3>2. x.id = m.record.id => x = m.record
      BY <1>1, <3>1 DEF OneRecordPerId
    <3> QED
      BY <1>3, <2>2, <3>2 DEF handleStoreRequest, Put, TypeOK, RelayTypeOK
  <2> QED BY <2>1, <2>2
<1>4. ASSUME NEW id \in toDelete[q], deleteMessage(q, id)
      PROVE  isExpired(x)
  <2>1. x.id = id
    BY <1>4 DEF deleteMessage, TypeOK, RelayTypeOK
  <2> QED BY <1>1, <2>1 DEF DoomedIds
<1>5. CASE Restart(q)
  BY <1>5 DEF Restart, TypeOK, RelayTypeOK
<1>6. store' # store
  OBVIOUS
<1> QED
  BY <1>2, <1>3, <1>4, <1>5, <1>6
  DEF RelayStep, handleMessage, storeWithReplication, Crash, cleanupExpired

(* A relay drops a sealed envelope only when its record has expired,        *)
(* whatever crashes, cleanups and legacy fetches are half way through.      *)
THEOREM SealedAlwaysKept == Spec => SealedKept
<1>1. MailInv /\ [Next]_vars =>
        [\A r \in Relays : \A x \in store[r] :
           x.env \in Sealed /\ x \notin store'[r] => isExpired(x)]_vars
  <2> SUFFICES ASSUME MailInv, [Next]_vars,
                      NEW r \in Relays, NEW x \in store[r],
                      x.env \in Sealed, x \notin store'[r]
               PROVE  isExpired(x)
    OBVIOUS
  <2>1. PICK q \in Relays : RelayStep(q)
    <3>1. store' # store
      OBVIOUS
    <3> QED
      BY <3>1 DEF Next, ClientStep, FetchStep, FetchDHT, FetchLegacy,
                  FetchFails, Clock, vars, relayVars
  <2> QED BY <2>1, RelayStepKeeps
<1> QED BY <1>1, MailInit, MailNext, PTL DEF Spec, SealedKept
=============================================================================
