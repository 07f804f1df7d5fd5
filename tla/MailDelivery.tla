------------------------------ MODULE MailDelivery ------------------------------
(***************************************************************************)
(* Clients and relays together: an envelope travels by pubsub and by       *)
(* direct store requests to relays, relays keep and replicate it, and the  *)
(* recipient fetches it over the DHT protocol or the legacy one.           *)
(***************************************************************************)
EXTENDS RelayNode, DMailNode

vars == <<netVars, relayVars, clientVars>>

TypeOK ==
  /\ now \in 1..MaxTime
  /\ net \subseteq Messages
  /\ nextId \in 1..(MaxRecords + 1)
  /\ RelayTypeOK
  /\ ClientTypeOK

Init == NetInit /\ RelayInit /\ ClientInit

-----------------------------------------------------------------------------
(* A relay answers a DHT fetch.                                            *)
FetchDHT(c, l, r) ==
  /\ r \in up
  /\ Answer(c, l, r, {[id |-> FetchedId(l, x), env |-> x.env] :
                        x \in dhtFetchResponse(r, c)})
  /\ UNCHANGED <<netVars, relayVars>>

(* The DHT protocol failed; the relay answers the legacy one and deletes   *)
(* what it sent.  arrives says whether the client got the response.        *)
FetchLegacy(c, l, r, arrives) ==
  /\ r \in up
  /\ Answer(c, l, r, {[id |-> getMessageId(x.env), env |-> x.env] :
                        x \in IF arrives THEN legacyResponse(r, c) ELSE {}})
  /\ toDelete' = [toDelete EXCEPT ![r] =
                    @ \cup {x.id : x \in legacyResponse(r, c)}]
  /\ UNCHANGED <<netVars, up, store, replicating>>

(* Neither protocol worked.                                                *)
FetchFails(c, l, r) ==
  /\ Answer(c, l, r, {})
  /\ UNCHANGED <<netVars, relayVars>>

RelayStep(r) ==
  \/ /\ UNCHANGED clientVars
     /\ \/ \E e \in Envelopes : handleMessage(r, e)
        \/ \E e \in Envelopes, t \in SUBSET Relays : storeWithReplication(r, e, t)
        \/ \E m \in net : handleStoreRequest(r, m)
        \/ Crash(r)
  \/ /\ UNCHANGED <<clientVars, netVars>>
     /\ \/ cleanupExpired(r)
        \/ \E id \in toDelete[r] : deleteMessage(r, id)
        \/ Restart(r)

ClientStep(c) ==
  \/ /\ UNCHANGED relayVars
     /\ \/ \E e \in Envelopes, reached \in SUBSET (Clients \cup Relays),
              conns \in SUBSET Relays : sendMessage(c, e, reached, conns)
        \/ \E e \in Envelopes : handleIncomingMessage(c, e)
        \/ Quit(c)
  \/ /\ UNCHANGED <<relayVars, netVars>>
     /\ \/ \E l \in Loops : StartFetch(c, l)
        \/ \E l \in Loops : StoreFetched(c, l)
        \/ \E x \in inbox[c] : markAsRead(c, x)
        \/ MarkedAsRead(c)
        \/ \E x \in inbox[c] : DeleteEntry(c, x)

FetchStep(c, l, r) ==
  \/ FetchDHT(c, l, r)
  \/ \E arrives \in BOOLEAN : FetchLegacy(c, l, r, arrives)
  \/ FetchFails(c, l, r)

Clock == Tick /\ UNCHANGED <<relayVars, clientVars>>

Next ==
  \/ \E r \in Relays : RelayStep(r)
  \/ \E c \in Clients : ClientStep(c)
  \/ \E c \in Clients, l \in Loops, r \in Relays : FetchStep(c, l, r)
  \/ Clock

Spec == Init /\ [][Next]_vars

(* From some point on relays stay up.  A relay's hourly timer then fires,  *)
(* and the deletions that a loop awaits run.  Clients are under no         *)
(* fairness: whether a user opens the inbox, and whether a relay ever      *)
(* answers, is nobody's promise.                                           *)
FaultsEnd == <>[](up = Relays)

Fairness ==
  \A r \in Relays :
    /\ WF_vars(cleanupExpired(r) /\ UNCHANGED <<clientVars, netVars>>)
    /\ WF_vars(/\ \E id \in toDelete[r] : deleteMessage(r, id)
               /\ UNCHANGED <<clientVars, netVars>>)

FairSpec == Spec /\ FaultsEnd /\ Fairness

-----------------------------------------------------------------------------
(* An inbox only holds envelopes that were sent to its owner, however they *)
(* got there: pubsub, either fetch protocol, self-delivery.                *)
InboxAddressed ==
  \A c \in Clients : \A x \in inbox[c] : x.env \in sent /\ Recipient[x.env] = c

(* Copies of a record agree: wherever an id is stored, it stands for the   *)
(* same envelope with the same expiry, so that replication neither mixes   *)
(* messages up nor extends their life.                                     *)
ReplicasAgree ==
  \A q, r \in Relays : \A x \in store[q], y \in store[r] :
    x.id = y.id => x = y

(* A relay drops a sealed envelope only when its record has expired:       *)
(* neither a fetch, a crash nor a cleanup loop that collected its keys     *)
(* earlier takes it away before.                                           *)
SealedKept ==
  [][\A r \in Relays : \A x \in store[r] :
       x.env \in Sealed /\ x \notin store'[r] => isExpired(x)]_vars

(* The client goes on asking relay r for its mail over the DHT protocol,   *)
(* is answered again and again, and from some point on is not closed.      *)
(* Nothing in the code promises this: relays are dialled once, at the      *)
(* start, nothing dials one again that could not be reached or went down,  *)
(* and a stream that hangs holds up the loop for good.                     *)
KeepsAsking(c, r) ==
  /\ []<><<FetchDHT(c, "inbox", r)>>_vars
  /\ <>[][~Quit(c)]_vars

(* A relay that keeps answering a client keeps no sealed envelope from it: *)
(* each one it holds reaches the inbox of its recipient, or expires first, *)
(* whatever else is fetched, lost, deleted and restarted meanwhile.        *)
Delivered ==
  \A e \in Sealed : \A r \in Relays :
    KeepsAsking(Recipient[e], r) =>
      ((\E x \in store[r] : x.env = e)
         ~> (<<Recipient[e], e>> \in received
             \/ \A x \in store[r] : x.env = e => isExpired(x)))

(* Expired records do not stay forever.                                    *)
ExpiredRemoved ==
  \A r \in Relays :
    []<>(\A x \in store[r] : ~isExpired(x))
=============================================================================
