------------------------------- MODULE ApiMail -------------------------------
(***************************************************************************)
(* The mail of the API service: api/src/messages/messages.service.ts and   *)
(* its controllers, over the shared local store                            *)
(* (storage/dht-storage.service.ts) and the P2P node                       *)
(* (network/p2p-node.service.ts), which has a database per identity.       *)
(* Requests interleave at every await.  A second Level on a path that the  *)
(* process has open is locked: all its operations fail.                    *)
(***************************************************************************)
EXTENDS IdentityStore

CONSTANTS
  Messages,            \* each is sent at most once
  Requests             \* bound: the requests that arrive

VARIABLES
  storage,             \* the Level of DHTStorageService: None, Open or Locked
  storageReady,        \* localStorageInitialized
  records,             \* in it: [box, msg, to, for, old]
  reads,               \* in it: read:<address>:<message>, [of, msg]
  current,             \* MessagesService.currentIdentity
  p2p,                 \* P2PNodeService: identity, the Level in db, isStarted
  opened,              \* the databases of identities this process has open
  mailboxes,           \* address -> entries of its database: [id, msg, to, read]
  wire,                \* gossip and the relays' store: [msg, to]
  requests,            \* the handlers in progress
  stored,              \* history: [msg, to] ever stored for the recipient
  acked,               \* history: [msg, from] answered as sent
  crossed              \* history: [msg, box], messages a handler held, or was
                       \* yet to be answered with, while the node changed its
                       \* identity to the one of the box

mailVars == <<storage, storageReady, records, reads, current, p2p, opened,
              mailboxes, wire, requests, stored, acked, crossed>>

Open == "open"
Locked == "locked"
NoDb == [box |-> None, state |-> "closed"]
Idle == [op |-> "idle"]
Answered == [op |-> "answered"]

Inbox(a) == <<"inbox", a>>
Sent(a) == <<"sent", a>>

Stopped == [identity |-> None, db |-> NoDb, started |-> FALSE]

Init ==
  /\ StoreInit
  /\ storage = None /\ storageReady = FALSE
  /\ current = None /\ p2p = Stopped /\ opened = {}
  /\ requests = [q \in Requests |-> Idle]
  /\ records = {} /\ reads = {}
  /\ mailboxes = [a \in Addresses |-> {}]
  /\ wire = {}
  /\ stored = {} /\ acked = {} /\ crossed = {}

-----------------------------------------------------------------------------
(* A request moves on to a step, or is answered.                           *)
Goes(q, step) == requests' = [requests EXCEPT ![q] = step]
Answers(q) == Goes(q, Answered)
At(q, op) == up /\ requests[q].op = op
Arrives(q) == At(q, "idle")

(* initLocalStorage, then the step that needs the storage.                 *)
NeedsStorage(q, step) ==
  Goes(q, IF storageReady THEN step ELSE [op |-> "init", then |-> step])

(* dhtStorage.init: new Level, then cleanupExpired.                        *)
OpenStorage(q) ==
  /\ At(q, "init")
  /\ IF storageReady
     THEN Goes(q, requests[q].then) /\ UNCHANGED storage
     ELSE /\ storage' = IF storage = None THEN Open ELSE Locked
          /\ Goes(q, [op |-> "opening", then |-> requests[q].then,
                      mine |-> storage'])
  /\ UNCHANGED <<storeVars, storageReady, records, reads, current, p2p, opened,
                 mailboxes, wire, stored, acked, crossed>>

(* Faulty variant: only what has an expiry ahead of it is kept.            *)
NotAhead(v) == "old" \in DOMAIN v => v.old

(* MessageRecord.fromJSON gives an entry without an expiry, as the read    *)
(* marks are, a fresh one.                                                 *)
isExpired(v) == "old" \in DOMAIN v /\ v.old

Expired == {v \in records \cup reads : isExpired(v)}

Removed(gone) == records' = records \ gone /\ reads' = reads \ gone

(* The cleanup of init goes through the database it opened and deletes from*)
(* the one of the moment: when a second init has put a locked one in its   *)
(* place the first delete fails, and the init with it.  So does the init   *)
(* that found the path locked, with a warning.                             *)
StorageOpened(q) ==
  /\ At(q, "opening")
  /\ \/ /\ requests[q].mine = Open /\ storage = Open
        /\ Removed(Expired)
        /\ storageReady' = TRUE
     \/ /\ requests[q].mine = Open /\ storage = Locked
        /\ \E gone \in SUBSET Expired :
             /\ Removed(gone)
             /\ storageReady' = (storageReady \/ gone = Expired)
     \/ /\ requests[q].mine = Locked
        /\ UNCHANGED <<storageReady, records, reads>>
  /\ Goes(q, requests[q].then)
  /\ UNCHANGED <<storeVars, storage, current, p2p, opened, mailboxes, wire,
                 stored, acked, crossed>>

(* The hourly cleanup.                                                     *)
cleanupExpired ==
  /\ storageReady /\ storage = Open
  /\ Removed(Expired)
  /\ UNCHANGED <<storeVars, storage, storageReady, current, p2p, opened,
                 mailboxes, wire, requests, stored, acked, crossed>>

(* Seven days, MESSAGE_TTL_MS.                                             *)
Expire(r) ==
  /\ ~r.old
  /\ records' = (records \ {r}) \cup {[r EXCEPT !.old = TRUE]}
  /\ UNCHANGED <<storeVars, storage, storageReady, reads, current, p2p, opened,
                 mailboxes, wire, requests, stored, acked, crossed>>

-----------------------------------------------------------------------------
(* The messages handlers of the other requests hold.                       *)
Held(q) ==
  UNION {{e.msg : e \in requests[o].batch} :
           o \in {o \in Requests \ {q} : requests[o].op \in {"store", "marking"}}}

(* p2pNode.initialize: the identity, and its database.                     *)
initialize(q, a) ==
  /\ p2p' = [p2p EXCEPT !.identity = a,
               !.db = [box |-> a, state |-> IF a \in opened THEN Locked ELSE Open]]
  /\ opened' = opened \cup {a}
  /\ crossed' = crossed \cup {[msg |-> m, box |-> a] : m \in Held(q)}

(* setIdentity, then initialize and start: the steps after the identity is *)
(* there.                                                                  *)
StartsNode(a) == [op |-> "initialize", of |-> a]

initializeNode(q) ==
  /\ At(q, "initialize")
  /\ initialize(q, requests[q].of)
  /\ Goes(q, [op |-> "start"])
  /\ UNCHANGED <<storeVars, storage, storageReady, records, reads, current,
                 mailboxes, wire, stored, acked>>

(* libp2p may fail to load or to start: the service continues without.     *)
startNode(q) ==
  /\ At(q, "start")
  /\ \/ /\ p2p' = [p2p EXCEPT !.started = TRUE]
        /\ Goes(q, [op |-> "fetch"])
     \/ Answers(q) /\ UNCHANGED p2p
  /\ UNCHANGED <<storeVars, storage, storageReady, records, reads, current,
                 opened, mailboxes, wire, stored, acked, crossed>>

(* A request to a relay names the identity of the moment, ...              *)
Asks(q, id) == Goes(q, [op |-> "asking", of |-> p2p.identity, id |-> id])

(* The fetch after the start, by either protocol: filed under the hash.    *)
fetchFromPeer(q) ==
  /\ At(q, "fetch")
  /\ Asks(q, "hash")
  /\ UNCHANGED <<storeVars, storage, storageReady, records, reads, current,
                 p2p, opened, mailboxes, wire, stored, acked, crossed>>

(* The fetch of getInbox: under the relay's id.                            *)
fetchMessagesFromPeer(q) ==
  /\ At(q, "collect")
  /\ Asks(q, "relay")
  /\ UNCHANGED <<storeVars, storage, storageReady, records, reads, current,
                 p2p, opened, mailboxes, wire, stored, acked, crossed>>

(* No answer: the legacy protocol, which does not give the relay's id, or  *)
(* another relay.                                                          *)
AskAgain(q) ==
  /\ At(q, "asking")
  /\ \E id \in {requests[q].id, "hash"} : Asks(q, id)
  /\ UNCHANGED <<storeVars, storage, storageReady, records, reads, current,
                 p2p, opened, mailboxes, wire, stored, acked, crossed>>

(* ... and what it answers, for the identity named, is put in the database *)
(* of the moment.                                                          *)
Entry(e, id) == [id |-> id, msg |-> e.msg, to |-> e.to, read |-> FALSE]

Answer(q) ==
  /\ At(q, "asking")
  /\ \E answer \in SUBSET {e \in wire : e.to = requests[q].of} :
       /\ Goes(q, [op |-> "store",
                   batch |-> {Entry(e, requests[q].id) : e \in answer}])
       /\ crossed' = IF requests[q].of = p2p.identity THEN crossed
                     ELSE crossed \cup {[msg |-> e.msg, box |-> p2p.identity] :
                                         e \in answer}
  /\ UNCHANGED <<storeVars, storage, storageReady, records, reads, current,
                 p2p, opened, mailboxes, wire, stored, acked>>

(* db.put, whatever was there; it fails if the database is locked.         *)
Put(e) ==
  IF p2p.db.state = Open
  THEN mailboxes' = [mailboxes EXCEPT ![p2p.db.box] =
         {x \in @ : <<x.id, x.msg>> # <<e.id, e.msg>>} \cup {e}]
  ELSE UNCHANGED mailboxes

StoreFetched(q) ==
  /\ At(q, "store")
  /\ IF requests[q].batch = {}
     THEN Answers(q) /\ UNCHANGED mailboxes
     ELSE \E e \in requests[q].batch :
            /\ Put(e)
            /\ Goes(q, [requests[q] EXCEPT !.batch = @ \ {e}])
  /\ UNCHANGED <<storeVars, storage, storageReady, records, reads, current,
                 p2p, opened, wire, stored, acked, crossed>>

(* Faulty variant: every envelope of the global topic is stored.           *)
Everything(e) == TRUE

isForUs(e) == e.to = p2p.identity

(* Gossip reaches the node.                                                *)
handleIncomingMessage(e) ==
  /\ up /\ p2p.started
  /\ isForUs(e)
  /\ Put(Entry(e, "hash"))
  /\ UNCHANGED <<storeVars, storage, storageReady, records, reads, current,
                 p2p, opened, wire, requests, stored, acked, crossed>>

-----------------------------------------------------------------------------
(* POST /api/identity.                                                     *)
createIdentity(q) ==
  /\ Arrives(q)
  /\ \E a \in Addresses, l \in Labels :
       /\ l \in Names \cup {a}
       /\ BeginCreate(a, l)
       /\ Goes(q, [op |-> "own file", of |-> a])
  /\ UNCHANGED <<up, localRegistry, addressToName, unsaved>>
  /\ UNCHANGED <<storage, storageReady, records, reads, current, p2p, opened,
                 mailboxes, wire, stored, acked, crossed>>

WriteOwnFile(q) ==
  /\ At(q, "own file")
  /\ OwnFileWritten(requests[q].of)
  /\ Goes(q, [requests[q] EXCEPT !.op = "legacy file"])
  /\ UNCHANGED <<up, localRegistry, addressToName, unsaved>>
  /\ UNCHANGED <<storage, storageReady, records, reads, current, p2p, opened,
                 mailboxes, wire, stored, acked, crossed>>

WriteLegacyFile(q) ==
  LET a == requests[q].of IN
  /\ At(q, "legacy file")
  /\ LegacyWritten(a, \A o \in Requests \ {q} : requests[o].op # "legacy file")
  /\ registerLocal(a)
  /\ current' = a
  /\ NeedsStorage(q, StartsNode(a))
  /\ UNCHANGED <<up, unsaved>>
  /\ UNCHANGED <<storage, storageReady, records, reads, p2p, opened, mailboxes,
                 wire, stored, acked, crossed>>

(* POST /api/identity/load, of what identity.json has.                     *)
loadIdentity(q) ==
  /\ Arrives(q)
  /\ legacy \in Addresses
  /\ registerLocal(legacy)
  /\ current' = legacy
  /\ NeedsStorage(q, StartsNode(legacy))
  /\ UNCHANGED <<up, files, legacy, label, identities, unsaved>>
  /\ UNCHANGED <<storage, storageReady, records, reads, p2p, opened, mailboxes,
                 wire, stored, acked, crossed>>

(* POST /api/node/start: an identity is loaded if there is none, the node  *)
(* started if it is not.                                                   *)
startFromController(q) ==
  /\ Arrives(q)
  /\ current # None \/ legacy \in Addresses
  /\ current' = IF current = None THEN legacy ELSE current
  /\ IF current = None THEN NeedsStorage(q, [op |-> "start if stopped"])
     ELSE Goes(q, [op |-> "start if stopped"])
  /\ UNCHANGED <<storeVars, storage, storageReady, records, reads, p2p, opened,
                 mailboxes, wire, stored, acked, crossed>>

StartIfStopped(q) ==
  /\ At(q, "start if stopped")
  /\ IF p2p.started THEN Answers(q) ELSE Goes(q, StartsNode(current))
  /\ UNCHANGED <<storeVars, storage, storageReady, records, reads, current,
                 p2p, opened, mailboxes, wire, stored, acked, crossed>>

-----------------------------------------------------------------------------
(* A message id comes from its content: sent once.                         *)
Step(q) ==
  IF requests[q].op \in {"init", "opening"} THEN requests[q].then ELSE requests[q]

Fresh(m) ==
  /\ \A e \in stored \cup wire : e.msg # m
  /\ \A q \in Requests :
       Step(q).op \in {"put", "publish"} => Step(q).msg # m

(* POST /api/messages: encrypted with the key the registry has for the     *)
(* address; by the P2P node if it is started, and locally otherwise.       *)
sendMessage(q) ==
  /\ Arrives(q)
  /\ \E m \in Messages, from, to \in Addresses :
       LET send == [op |-> "put", msg |-> m, from |-> from, to |-> to,
                    for |-> lookupLocalByAddress(to), copy |-> TRUE]
       IN  /\ Fresh(m)
           /\ send.for # None
           /\ IF p2p.started THEN Goes(q, [send EXCEPT !.op = "publish"])
              ELSE NeedsStorage(q, send)
  /\ UNCHANGED <<storeVars, storage, storageReady, records, reads, current,
                 p2p, opened, mailboxes, wire, stored, acked, crossed>>

(* POST /api/messages/encrypted: from the current identity, encrypted by   *)
(* the client; no copy is kept.                                            *)
sendEncryptedMessage(q) ==
  /\ Arrives(q)
  /\ current # None
  /\ \E m \in Messages, to \in Addresses :
       LET send == [op |-> "put", msg |-> m, from |-> current, to |-> to,
                    for |-> to, copy |-> FALSE]
       IN  /\ Fresh(m)
           /\ IF p2p.started THEN Goes(q, [send EXCEPT !.op = "publish"])
              ELSE NeedsStorage(q, send)
  /\ UNCHANGED <<storeVars, storage, storageReady, records, reads, current,
                 p2p, opened, mailboxes, wire, stored, acked, crossed>>

(* P2PNodeService.sendMessage, if the rate limiter lets it: published,     *)
(* then put as sent (and received, to oneself), then stored on relays.     *)
Publish(q) ==
  LET s == requests[q] IN
  /\ At(q, "publish")
  /\ \/ /\ wire' = wire \cup {[msg |-> s.msg, to |-> s.to]}
        /\ Goes(q, [s EXCEPT !.op = "published"])
     \/ Answers(q) /\ UNCHANGED wire
  /\ UNCHANGED <<storeVars, storage, storageReady, records, reads, current,
                 p2p, opened, mailboxes, stored, acked, crossed>>

PutSent(q) ==
  LET s == requests[q] IN
  /\ At(q, "published")
  /\ IF p2p.db.state = Open
     THEN /\ Put(Entry(s, "sent"))
          /\ IF isForUs(s)
             THEN Goes(q, [op |-> "store", batch |-> {Entry(s, "hash")}])
             ELSE Answers(q)
          /\ acked' = acked \cup {[msg |-> s.msg, to |-> s.to]}
     ELSE Answers(q) /\ UNCHANGED <<mailboxes, acked>>
  /\ UNCHANGED <<storeVars, storage, storageReady, records, reads, current,
                 p2p, opened, wire, stored, crossed>>

(* dhtStorage.store, a record with an id of its own; it fails if the       *)
(* database is locked.                                                     *)
Record(s, box) ==
  [box |-> box, msg |-> s.msg, to |-> s.to, for |-> s.for, old |-> FALSE]

ForRecipient(s) ==
  /\ records' = records \cup {Record(s, Inbox(s.to))}
  /\ stored' = stored \cup {[msg |-> s.msg, to |-> s.to]}

ForSender(s) ==
  /\ records' = records \cup {Record(s, Sent(s.from))}
  /\ UNCHANGED stored

(* Faulty variant: the sender's copy is stored first.                      *)
CopyFirst(s) == IF s.copy THEN ForSender(s) ELSE ForRecipient(s)

FirstPut(s) == ForRecipient(s)
SecondPut(s) == ForSender(s)

StoreLocally(q) ==
  LET s == requests[q] IN
  /\ At(q, "put")
  /\ IF storage = Open
     THEN /\ FirstPut(s)
          /\ IF s.copy THEN Goes(q, [s EXCEPT !.op = "put copy"])
             ELSE Answers(q)
          /\ acked' = IF s.copy THEN acked
                      ELSE acked \cup {[msg |-> s.msg, to |-> s.to]}
     ELSE Answers(q) /\ UNCHANGED <<records, stored, acked>>
  /\ UNCHANGED <<storeVars, storage, storageReady, reads, current, p2p, opened,
                 mailboxes, wire, crossed>>

StoreCopy(q) ==
  LET s == requests[q] IN
  /\ At(q, "put copy")
  /\ IF storage = Open
     THEN /\ SecondPut(s)
          /\ acked' = acked \cup {[msg |-> s.msg, to |-> s.to]}
     ELSE UNCHANGED <<records, stored, acked>>
  /\ Answers(q)
  /\ UNCHANGED <<storeVars, storage, storageReady, reads, current, p2p, opened,
                 mailboxes, wire, crossed>>

-----------------------------------------------------------------------------
(* GET /api/messages for an address: from the local store, decrypted with  *)
(* the identity found.                                                     *)
getInboxForAddress(q) ==
  /\ Arrives(q)
  /\ \E a \in Addresses : NeedsStorage(q, [op |-> "decrypt", of |-> a])
  /\ UNCHANGED <<storeVars, storage, storageReady, records, reads, current,
                 p2p, opened, mailboxes, wire, stored, acked, crossed>>

decryptMessageForAddress(q) ==
  /\ At(q, "decrypt")
  /\ IF \E r \in records : r.box = Inbox(requests[q].of) /\ ~r.old
     THEN getIdentity(requests[q].of) ELSE UNCHANGED identities
  /\ Answers(q)
  /\ UNCHANGED <<up, files, legacy, label, localRegistry, addressToName, unsaved>>
  /\ UNCHANGED <<storage, storageReady, records, reads, current, p2p, opened,
                 mailboxes, wire, stored, acked, crossed>>

(* GET /api/messages without one: the node's mailbox, after a fetch.       *)
getInbox(q) ==
  /\ Arrives(q)
  /\ p2p.started
  /\ Goes(q, [op |-> "collect"])
  /\ UNCHANGED <<storeVars, storage, storageReady, records, reads, current,
                 p2p, opened, mailboxes, wire, stored, acked, crossed>>

(* POST /api/messages/:id/read: in the local store, then at the node,      *)
(* which gets the entry, awaits and puts it back.                          *)
markAsReadForAddress(q) ==
  /\ Arrives(q)
  /\ \E a \in Addresses, m \in Messages :
       /\ ~Fresh(m)
       /\ NeedsStorage(q, [op |-> "mark", of |-> a, msg |-> m])
  /\ UNCHANGED <<storeVars, storage, storageReady, records, reads, current,
                 p2p, opened, mailboxes, wire, stored, acked, crossed>>

MarkLocally(q) ==
  LET s == requests[q] IN
  /\ At(q, "mark")
  /\ IF storage = Open
     THEN /\ reads' = reads \cup {[of |-> s.of, msg |-> s.msg]}
          /\ IF p2p.started THEN Goes(q, [op |-> "get", msg |-> s.msg])
             ELSE Answers(q)
     ELSE Answers(q) /\ UNCHANGED reads
  /\ UNCHANGED <<storeVars, storage, storageReady, records, current, p2p,
                 opened, mailboxes, wire, stored, acked, crossed>>

GetEntry(q) ==
  /\ At(q, "get")
  /\ \/ /\ p2p.db.state = Open
        /\ \E e \in mailboxes[p2p.db.box] :
             /\ e.msg = requests[q].msg /\ e.id # "sent"
             /\ Goes(q, [op |-> "marking", batch |-> {[e EXCEPT !.read = TRUE]}])
     \/ Answers(q)
  /\ UNCHANGED <<storeVars, storage, storageReady, records, reads, current,
                 p2p, opened, mailboxes, wire, stored, acked, crossed>>

PutBack(q) ==
  /\ At(q, "marking")
  /\ \E e \in requests[q].batch : Put(e)
  /\ Answers(q)
  /\ UNCHANGED <<storeVars, storage, storageReady, records, reads, current,
                 p2p, opened, wire, stored, acked, crossed>>

(* DELETE /api/messages/:id: at the node if it is started, otherwise in    *)
(* the inbox of the current identity.                                      *)
deleteMessage(q) ==
  /\ Arrives(q)
  /\ \E m \in Messages :
       IF p2p.started
       THEN /\ \E id \in {"hash", "relay"} :
                 mailboxes' = [mailboxes EXCEPT ![p2p.db.box] =
                   IF p2p.db.state = Open
                   THEN {e \in @ : <<e.id, e.msg>> # <<id, m>>} ELSE @]
            /\ Answers(q)
       ELSE /\ current # None
            /\ NeedsStorage(q, [op |-> "delete", of |-> current, msg |-> m])
            /\ UNCHANGED mailboxes
  /\ UNCHANGED <<storeVars, storage, storageReady, records, reads, current,
                 p2p, opened, wire, stored, acked, crossed>>

DeleteLocally(q) ==
  LET s == requests[q] IN
  /\ At(q, "delete")
  /\ records' = IF storage # Open THEN records
                ELSE {r \in records : <<r.box, r.msg>> # <<Inbox(s.of), s.msg>>}
  /\ Answers(q)
  /\ UNCHANGED <<storeVars, storage, storageReady, reads, current, p2p, opened,
                 mailboxes, wire, stored, acked, crossed>>

-----------------------------------------------------------------------------
MailCrash ==
  /\ StoreCrash
  /\ storage' = None /\ storageReady' = FALSE
  /\ current' = None /\ p2p' = Stopped /\ opened' = {}
  /\ requests' = [q \in Requests |->
                    IF requests[q] = Idle THEN Idle ELSE Answered]
  /\ UNCHANGED <<records, reads, mailboxes, wire, stored, acked, crossed>>

MailBoot ==
  /\ loadAllIdentities \/ DiesLoading
  /\ UNCHANGED mailVars

Handle(q) ==
  \/ createIdentity(q) \/ WriteOwnFile(q) \/ WriteLegacyFile(q)
  \/ loadIdentity(q) \/ startFromController(q) \/ StartIfStopped(q)
  \/ initializeNode(q) \/ startNode(q)
  \/ OpenStorage(q) \/ StorageOpened(q)
  \/ fetchFromPeer(q) \/ fetchMessagesFromPeer(q)
  \/ AskAgain(q) \/ Answer(q) \/ StoreFetched(q)
  \/ sendMessage(q) \/ sendEncryptedMessage(q) \/ Publish(q) \/ PutSent(q)
  \/ StoreLocally(q) \/ StoreCopy(q)
  \/ getInboxForAddress(q) \/ decryptMessageForAddress(q) \/ getInbox(q)
  \/ markAsReadForAddress(q) \/ MarkLocally(q) \/ GetEntry(q) \/ PutBack(q)
  \/ deleteMessage(q) \/ DeleteLocally(q)

Next ==
  \/ \E q \in Requests : Handle(q)
  \/ cleanupExpired
  \/ \E r \in records : Expire(r)
  \/ \E e \in wire : handleIncomingMessage(e)
  \/ MailBoot
  \/ up /\ MailCrash

Spec == Init /\ [][Next]_<<storeVars, mailVars>>

-----------------------------------------------------------------------------
(* Whoever has a copy of a message in the sent folder, or was told that it *)
(* was sent, sent it: it was stored for its recipient, or published.       *)
SentBacked ==
  /\ \A r \in records :
       r.box[1] = "sent" => [msg |-> r.msg, to |-> r.to] \in stored
  /\ acked \subseteq stored \cup wire

(* What the node's mailbox shows as read was read by someone: the mark put *)
(* in the shared store before the node was asked is there for good,        *)
(* whatever the cleanups took and whoever changed the node's identity.     *)
ReadBacked ==
  \A a \in Addresses : \A e \in mailboxes[a] :
    e.read => \E v \in reads : v.msg = e.msg

(* An identity's mailbox has no one else's mail, even when the node        *)
(* changes its identity and two nodes listen - except what a request held  *)
(* when the node changed to that identity, and what answered a request     *)
(* made for the identity before it.                                        *)
MailboxOwned ==
  \A a \in Addresses : \A e \in mailboxes[a] :
    e.id = "sent" \/ e.to = a \/ [msg |-> e.msg, box |-> a] \in crossed

(* What is stored for a recipient is encrypted with the recipient's key.   *)
RecipientCanRead ==
  \A r \in records : r.box = Inbox(r.to) => r.for = r.to
=============================================================================
