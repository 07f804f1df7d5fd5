------------------------------- MODULE DMailNode -------------------------------
(***************************************************************************)
(* A client: src/network/node.js.  Its inbox is a LevelDB that survives a  *)
(* crash.  Fetches run as asynchronous loops: the one of                   *)
(* connectToRelaysAndFetch after start(), and the one of getInbox; their   *)
(* awaits interleave with pubsub deliveries and with the user's            *)
(* markAsRead and deleteMessage.                                           *)
(***************************************************************************)
EXTENDS MailNetwork

CONSTANTS
  Fetchers,   \* bound: the clients that open their inbox
  Loops,      \* bound: which of the two fetch loops they run
  Editors,    \* bound: the clients that mark and delete messages
  MaxSent     \* bound: how many envelopes are sent

ASSUME FetchersAssumption ==
  /\ Fetchers \subseteq Clients
  /\ Editors \subseteq Clients
  /\ Loops \subseteq {"start", "inbox"}
  /\ MaxSent \in Nat

VARIABLES
  sent,       \* the envelopes sent
  inbox,      \* client -> entries [id, env] of its database
  received,   \* history: the <<client, envelope>> ever put in an inbox
  fetch,      \* client -> loop -> the progress of that fetch loop
  marking     \* client -> entries markAsRead has read and not yet put back

clientVars == <<sent, inbox, received, fetch, marking>>

(* No loop running: no peer left to ask, nothing left to store.            *)
Idle == [peers |-> {}, got |-> {}, seen |-> {}]

LocalIds == {getMessageId(e) : e \in Envelopes} \cup RecordIds
Entries == [id : LocalIds, env : Envelopes]

ClientTypeOK ==
  /\ sent \subseteq Envelopes
  /\ inbox \in [Clients -> SUBSET Entries]
  /\ received \subseteq Clients \X Envelopes
  /\ fetch \in [Clients -> [Loops -> [peers : SUBSET Relays,
                                      got : SUBSET Entries,
                                      seen : SUBSET LocalIds]]]
  /\ marking \in [Clients -> SUBSET Entries]

ClientInit ==
  /\ sent = {}
  /\ inbox = [c \in Clients |-> {}]
  /\ received = {}
  /\ fetch = [c \in Clients |-> [l \in Loops |-> Idle]]
  /\ marking = [c \in Clients |-> {}]

-----------------------------------------------------------------------------
(* db.put of an inbox entry.                                               *)
PutEntry(entries, x) == {y \in entries : y.id # x.id} \cup {x}

(* storeMessage overwrites the entry of that id.  (The read flag, which it *)
(* resets, and receivedAt are left out: no property tells them apart.)     *)
storeMessage(c, id, e) ==
  /\ inbox' = [inbox EXCEPT ![c] =
                 PutEntry(@, [id |-> id, env |-> e])]
  /\ received' = received \cup {<<c, e>>}

(* publish to the subscribers, this node included (emitSelf); the sent:    *)
(* entry; self-delivery of a plain envelope; storeOnRelays to the relays   *)
(* that are connected.                                                     *)
sendMessage(c, e, reached, conns) ==
  /\ c = Sender[e]
  /\ e \notin sent /\ Cardinality(sent) < MaxSent
  /\ reached \subseteq Clients \cup Relays
  /\ conns \subseteq Relays
  /\ sent' = sent \cup {e}
  /\ net' = net \cup {Gossip(n, e) : n \in reached}
                \cup {StoreRequest(r, Record(NoId, e, 0)) : r \in conns}
  /\ IF Recipient[e] = c /\ e \notin Sealed
     THEN storeMessage(c, getMessageId(e), e)
     ELSE UNCHANGED <<inbox, received>>
  /\ UNCHANGED <<now, nextId, fetch, marking>>

(* Faulty variant: the routing token is not compared.                      *)
AcceptAnySealed(c, e) == e \in Sealed \/ Recipient[e] = c

(* By routing token or by address.                                         *)
isForUs(c, e) == storageKey(e) \in {<<"token", c>>, <<"address", c>>}

handleIncomingMessage(c, e) ==
  /\ Gossip(c, e) \in net
  /\ net' = net \ {Gossip(c, e)}
  /\ IF isForUs(c, e)
     THEN storeMessage(c, getMessageId(e), e)
     ELSE UNCHANGED <<inbox, received>>
  /\ UNCHANGED <<now, nextId, sent, fetch, marking>>

(* connectToRelaysAndFetch after start(), and fetchStoredMessages of       *)
(* getInbox.  A relay that is not connected is one whose fetch fails.      *)
StartFetch(c, l) ==
  /\ c \in Fetchers
  /\ fetch[c][l] = Idle
  /\ fetch' = [fetch EXCEPT ![c][l] = [Idle EXCEPT !.peers = Relays]]
  /\ UNCHANGED <<sent, inbox, received, marking>>

(* The next peer answered (or failed: nothing fetched).                    *)
Answer(c, l, r, messages) ==
  /\ r \in fetch[c][l].peers
  /\ fetch[c][l].got = {}
  /\ LET f == [fetch[c][l] EXCEPT
                 !.peers = @ \ {r},
                 !.got = {m \in messages : m.id \notin fetch[c][l].seen}]
     IN  fetch' = [fetch EXCEPT ![c][l] =
                     IF f.peers = {} /\ f.got = {} THEN Idle ELSE f]
  /\ UNCHANGED <<sent, inbox, received, marking>>

(* Under which id a record fetched over the DHT protocol is filed:         *)
(* fetchFromPeerDHT derives it from the envelope, fetchFromAllPeers takes  *)
(* the record's own id.                                                    *)
FetchedId(l, rec) == IF l = "start" THEN getMessageId(rec.env) ELSE rec.id

(* One iteration of the loop over the messages fetched.  Only              *)
(* fetchFromAllPeers remembers the ids it has seen.                        *)
StoreFetched(c, l) ==
  \E m \in fetch[c][l].got :
    LET f == [fetch[c][l] EXCEPT
                !.got = @ \ {m},
                !.seen = IF l = "inbox" THEN @ \cup {m.id} ELSE @]
    IN  /\ storeMessage(c, m.id, m.env)
        /\ fetch' = [fetch EXCEPT ![c][l] =
                       IF f.peers = {} /\ f.got = {} THEN Idle ELSE f]
        /\ UNCHANGED <<sent, marking>>

(* markAsRead: get the entry, await, put it back.                          *)
markAsRead(c, x) ==
  /\ c \in Editors
  /\ x \in inbox[c]
  /\ marking' = [marking EXCEPT ![c] = {x}]
  /\ UNCHANGED <<sent, inbox, received, fetch>>

MarkedAsRead(c) ==
  \E x \in marking[c] :
    /\ inbox' = [inbox EXCEPT ![c] = PutEntry(@, x)]
    /\ marking' = [marking EXCEPT ![c] = {}]
    /\ UNCHANGED <<sent, received, fetch>>

DeleteEntry(c, x) ==
  /\ c \in Editors
  /\ x \in inbox[c]
  /\ inbox' = [inbox EXCEPT ![c] = @ \ {x}]
  /\ UNCHANGED <<sent, received, fetch, marking>>

(* The client dies; its loops die with it.                                 *)
Quit(c) ==
  /\ fetch[c] # [l \in Loops |-> Idle] \/ marking[c] # {}
  /\ fetch' = [fetch EXCEPT ![c] = [l \in Loops |-> Idle]]
  /\ marking' = [marking EXCEPT ![c] = {}]
  /\ net' = Unaddressed(c)
  /\ UNCHANGED <<now, nextId, sent, inbox, received>>
=============================================================================
