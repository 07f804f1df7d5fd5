------------------------------ MODULE ApiProofs ------------------------------
(***************************************************************************)
(* Proofs about ApiMail, for any addresses, names, messages and requests:  *)
(* what was answered as sent was stored or published, a mailbox has its    *)
(* owner's mail, what it shows as read is marked, an identity has its file.*)
(***************************************************************************)
EXTENDS ApiMail, TLAPS

(* An entry and a record are what Entry and Record make of a message.      *)
IsEntry(e) == e = [id |-> e.id, msg |-> e.msg, to |-> e.to, read |-> e.read]
IsRecord(r) ==
  r = [box |-> r.box, msg |-> r.msg, to |-> r.to, for |-> r.for, old |-> r.old]

(* What sendMessage and sendEncryptedMessage make of a request.            *)
IsSend(s) ==
  s = [op |-> s.op, msg |-> s.msg, from |-> s.from, to |-> s.to,
       for |-> s.for, copy |-> s.copy]

(* What is stored, published and answered of a message.                    *)
Envelope(s) == [msg |-> s.msg, to |-> s.to]

(* A message is marked as read in the local store.                         *)
Marked(m) == \E v \in reads : v.msg = m

(* An entry belongs in the mailbox of a: a sent copy, mail to a, or what   *)
(* crossed with a change of the identity; if it is read it is marked.      *)
Owned(e, a) ==
  /\ e.id = "sent" \/ e.to = a \/ [msg |-> e.msg, box |-> a] \in crossed
  /\ e.read => Marked(e.msg)

(* What may wait for the storage: a step that has not begun to write.      *)
Deferred(s, cur) ==
  /\ s.op \in {"initialize", "start if stopped", "put", "decrypt", "mark", "delete"}
  /\ s.op = "put" => IsSend(s)
  /\ s.op = "initialize" => s.of \in Addresses
  /\ s.op = "start if stopped" => cur \in Addresses
  /\ s.op = "decrypt" => s.of \in Addresses

(* The entries a request holds, all for the identity the node has now.     *)
Batch(s) ==
  /\ s = [op |-> s.op, batch |-> s.batch]
  /\ \A e \in s.batch : IsEntry(e) /\ Owned(e, p2p.identity)

(* What a request in progress may rely on at the step it has reached.      *)
RequestInv(s) ==
  /\ s.op \in {"init", "opening"} => Deferred(s.then, current)
  /\ s.op = "initialize" => s.of \in Addresses
  /\ s.op = "start if stopped" => current \in Addresses
  /\ s.op = "decrypt" => s.of \in Addresses
  /\ s.op \in {"put", "put copy", "publish", "published"} => IsSend(s)
  /\ s.op = "put copy" => Envelope(s) \in stored
  /\ s.op = "published" => Envelope(s) \in wire
  /\ s.op = "get" => Marked(s.msg)
  /\ s.op \in {"store", "marking"} => Batch(s)
  /\ s.op = "own file" => s = [op |-> s.op, of |-> s.of] /\ s.of \in Addresses
  /\ s.op = "legacy file" => s.of \in Addresses /\ files[s.of] = Saved

(* The same of every request.                                              *)
RequestsInv ==
  DOMAIN requests = Requests /\ \A q \in Requests : RequestInv(requests[q])

(* The node has the database of its identity, and no other.                *)
NodeInv ==
  /\ p2p = [identity |-> p2p.identity, db |-> p2p.db, started |-> p2p.started]
  /\ p2p.db.box = p2p.identity
  /\ p2p.db.state = "open" => p2p.db.box \in Addresses
  /\ current \in Addresses \cup {None}

(* The mailboxes hold what belongs in them, and a mark has no expiry.      *)
MailboxInv ==
  /\ DOMAIN mailboxes = Addresses
  /\ \A v \in reads : ~isExpired(v)
  /\ \A a \in Addresses : \A e \in mailboxes[a] : IsEntry(e) /\ Owned(e, a)

(* A sent copy and an answer stand for a message that was stored for its   *)
(* recipient, or published.                                                *)
RecordInv ==
  /\ \A r \in records :
       IsRecord(r) /\ (r.box[1] = "sent" => Envelope(r) \in stored)
  /\ acked \subseteq stored \cup wire

(* An identity in memory has its own file, unless it was found in          *)
(* identity.json and the copy failed.                                      *)
FileInv ==
  /\ DOMAIN files = Addresses
  /\ \A a \in identities : a \in Addresses /\ (files[a] = Saved \/ a \in unsaved)

(* The invariant from which SentBacked, MailboxOwned, ReadBacked and       *)
(* IdentityKept follow.                                                    *)
Inv == RequestsInv /\ NodeInv /\ MailboxInv /\ RecordInv /\ FileInv

-----------------------------------------------------------------------------
(* Only the request of q moves.                                            *)
Only(q) ==
  /\ DOMAIN requests' = Requests
  /\ \A o \in Requests : o # q => requests'[o] = requests[o]

(* A request that moves on moves alone.                                    *)
LEMMA GoesTo ==
  ASSUME RequestsInv, NEW q \in Requests, NEW step, Goes(q, step)
  PROVE  Only(q) /\ requests'[q] = step
BY DEF RequestsInv, Goes, Only

(* A step that waits for the storage may come at any later time.           *)
LEMMA DeferredSafe ==
  ASSUME NEW q \in Requests, NEW step, Deferred(step, current'), requests'[q] = step
  PROVE  RequestInv(requests[q])'
BY DEF Deferred, RequestInv

(* So it may wait behind initLocalStorage, or be taken at once.            *)
LEMMA NeedsSafe ==
  ASSUME RequestsInv, NEW q \in Requests, NEW step, Deferred(step, current'),
         NeedsStorage(q, step)
  PROVE  Only(q) /\ RequestInv(requests[q])'
<1>1. CASE storageReady
  <2>1. Goes(q, step)
    BY <1>1 DEF NeedsStorage
  <2> QED BY <2>1, GoesTo, DeferredSafe
<1>2. CASE ~storageReady
  <2> DEFINE i == [op |-> "init", then |-> step]
  <2>1. Goes(q, i)
    BY <1>2 DEF NeedsStorage
  <2>2. i.op = "init" /\ i.then = step
    OBVIOUS
  <2> HIDE DEF i
  <2>3. Only(q) /\ requests'[q] = i
    BY <2>1, GoesTo
  <2>4. requests'[q].op = "init" /\ Deferred(requests'[q].then, current')
    BY <2>2, <2>3
  <2>5. RequestInv(requests[q])'
    BY <2>4 DEF RequestInv, Deferred, IsSend
  <2> QED BY <2>3, <2>5
<1> QED BY <1>1, <1>2

(* What a request relies on is not taken from it by another: messages stay *)
(* stored and published, files stay written, and the node keeps its        *)
(* identity.                                                               *)
LEMMA RequestsMove ==
  ASSUME RequestsInv, NEW q \in Requests, Only(q), RequestInv(requests[q])',
         stored \subseteq stored', wire \subseteq wire', crossed \subseteq crossed',
         reads \subseteq reads',
         p2p'.identity = p2p.identity, current \in Addresses => current' \in Addresses,
         \A a \in Addresses : files[a] = Saved => files'[a] = Saved
  PROVE  RequestsInv'
<1> SUFFICES ASSUME NEW o \in Requests, o # q
             PROVE  RequestInv(requests[o])'
  BY DEF RequestsInv, Only
<1> DEFINE s == requests[o]
<1>1. requests'[o] = s /\ RequestInv(s)
  BY DEF RequestsInv, Only
<1>2. \A e : Owned(e, p2p.identity) => Owned(e, p2p.identity)'
  BY DEF Owned, Marked
<1>5. \A m : Marked(m) => Marked(m)'
  BY DEF Marked
<1>3. Batch(s) => Batch(s)'
  BY <1>1, <1>2 DEF Batch
<1>4. Deferred(s.then, current) => Deferred(s.then, current)'
  BY <1>1 DEF Deferred, IsSend
<1> QED BY <1>1, <1>3, <1>4, <1>5, Zenon DEF RequestInv, IsSend, Envelope

(* An entry and its owner stay so while nothing is taken from the marks    *)
(* and from what crossed.                                                  *)
LEMMA MailboxesStay ==
  ASSUME MailboxInv, UNCHANGED mailboxes, crossed \subseteq crossed',
         reads \subseteq reads', \A v \in reads' : ~isExpired(v)
  PROVE  MailboxInv'
<1>1. \A e, a : Owned(e, a) => Owned(e, a)'
  BY DEF Owned, Marked
<1> QED BY <1>1 DEF MailboxInv, isExpired, IsEntry

(* A step that only moves a request, perhaps notes what crossed or puts a  *)
(* mark, and perhaps drops records.                                        *)
LEMMA Plain ==
  ASSUME Inv, NEW q \in Requests, Only(q), RequestInv(requests[q])',
         UNCHANGED <<files, identities, unsaved, mailboxes, wire, stored, acked, p2p>>,
         crossed \subseteq crossed', reads \subseteq reads',
         \A v \in reads' : ~isExpired(v),
         current' = current \/ current' \in Addresses,
         records' \subseteq records
  PROVE  Inv'
<1>1. RequestsInv'
  BY RequestsMove DEF Inv
<1>2. NodeInv' /\ FileInv'
  BY DEF Inv, NodeInv, FileInv
<1>3. MailboxInv'
  BY MailboxesStay DEF Inv
<1>4. RecordInv'
  BY DEF Inv, RecordInv, Envelope
<1> QED BY <1>1, <1>2, <1>3, <1>4 DEF Inv

(* The marks have no expiry.                                               *)
LEMMA MarksFresh ==
  ASSUME Inv, UNCHANGED reads
  PROVE  reads \subseteq reads' /\ \A v \in reads' : ~isExpired(v)
BY DEF Inv, MailboxInv

(* A request goes on to a step that relies on nothing new.                 *)
LEMMA PlainGoes ==
  ASSUME Inv, NEW q \in Requests, NEW step, Goes(q, step),
         step.op \in {"idle", "answered", "start", "fetch", "collect", "asking",
                      "initialize", "start if stopped"},
         step.op = "initialize" => step.of \in Addresses,
         step.op = "start if stopped" => current' \in Addresses,
         current' = current \/ current' \in Addresses,
         UNCHANGED <<files, identities, unsaved, mailboxes, wire, stored, acked,
                     crossed, reads, p2p>>,
         records' \subseteq records
  PROVE  Inv'
<1>1. Only(q) /\ requests'[q] = step
  BY GoesTo DEF Inv
<1>2. RequestInv(requests[q])'
  BY <1>1 DEF RequestInv
<1> QED BY <1>1, <1>2, Plain, MarksFresh

(* A request goes on to a step that needs the storage.                     *)
LEMMA PlainNeeds ==
  ASSUME Inv, NEW q \in Requests, NEW step, NeedsStorage(q, step), Deferred(step, current'),
         current' = current \/ current' \in Addresses,
         UNCHANGED <<files, identities, unsaved, mailboxes, wire, stored, acked,
                     crossed, reads, p2p>>,
         records' \subseteq records
  PROVE  Inv'
<1>1. Only(q) /\ RequestInv(requests[q])'
  BY NeedsSafe DEF Inv
<1> QED BY <1>1, Plain, MarksFresh

(* The requests that only arrive, and those that mark or delete in the     *)
(* local store.                                                            *)
LEMMA PlainSteps ==
  ASSUME Inv, NEW q \in Requests,
         \/ loadIdentity(q) \/ startFromController(q) \/ StartIfStopped(q)
         \/ getInboxForAddress(q) \/ getInbox(q) \/ markAsReadForAddress(q)
         \/ MarkLocally(q) \/ DeleteLocally(q)
  PROVE  Inv'
<1>1. CASE loadIdentity(q)
  <2>1. legacy \in Addresses /\ current' = legacy
    BY <1>1 DEF loadIdentity
  <2>2. Deferred(StartsNode(legacy), current')
    BY <2>1 DEF Deferred, StartsNode
  <2> QED BY <1>1, <2>1, <2>2, PlainNeeds DEF loadIdentity
<1>2. CASE startFromController(q)
  <2> DEFINE step == [op |-> "start if stopped"]
  <2>0. current' \in Addresses
    BY <1>2 DEF startFromController, Inv, NodeInv
  <2>1. Deferred(step, current') /\ step.op = "start if stopped"
    BY <2>0 DEF Deferred
  <2>2. NeedsStorage(q, step) \/ Goes(q, step)
    BY <1>2 DEF startFromController
  <2>3. UNCHANGED <<storeVars, mailboxes, wire, stored, acked, crossed, reads, p2p, records>>
    BY <1>2 DEF startFromController
  <2> HIDE DEF step
  <2> QED BY <2>0, <2>1, <2>2, <2>3, PlainNeeds, PlainGoes DEF storeVars
<1>3. CASE StartIfStopped(q)
  <2>1. Goes(q, Answered) \/ Goes(q, StartsNode(current))
    BY <1>3 DEF StartIfStopped, Answers
  <2>2. /\ Answered.op = "answered" /\ StartsNode(current).op = "initialize"
        /\ StartsNode(current).of = current /\ current \in Addresses
    <3>1. RequestInv(requests[q]) /\ requests[q].op = "start if stopped"
      BY <1>3 DEF Inv, RequestsInv, StartIfStopped, At
    <3> QED BY <3>1 DEF Answered, StartsNode, RequestInv
  <2>3. UNCHANGED <<current, storeVars, mailboxes, wire, stored, acked, crossed, reads, p2p, records>>
    BY <1>3 DEF StartIfStopped
  <2> QED BY <2>1, <2>2, <2>3, PlainGoes DEF storeVars
<1>4. CASE getInboxForAddress(q)
  <2>1. PICK a \in Addresses : NeedsStorage(q, [op |-> "decrypt", of |-> a])
    BY <1>4 DEF getInboxForAddress
  <2>2. Deferred([op |-> "decrypt", of |-> a], current')
    BY DEF Deferred
  <2> QED BY <1>4, <2>1, <2>2, PlainNeeds DEF getInboxForAddress, storeVars
<1>5. CASE getInbox(q)
  BY <1>5, PlainGoes DEF getInbox, storeVars
<1>6. CASE markAsReadForAddress(q)
  <2>1. PICK a \in Addresses, m \in Messages :
          NeedsStorage(q, [op |-> "mark", of |-> a, msg |-> m])
    BY <1>6 DEF markAsReadForAddress
  <2>2. Deferred([op |-> "mark", of |-> a, msg |-> m], current')
    BY DEF Deferred
  <2> QED BY <1>6, <2>1, <2>2, PlainNeeds DEF markAsReadForAddress, storeVars
<1>7. CASE MarkLocally(q)
  <2> DEFINE m == requests[q].msg
             mark == [of |-> requests[q].of, msg |-> m]
             step == [op |-> "get", msg |-> m]
  <2>1. UNCHANGED <<current, storeVars, mailboxes, wire, stored, acked, crossed, p2p, records>>
    BY <1>7 DEF MarkLocally
  <2>2. CASE storage = Open
    <3>1. reads' = reads \cup {mark} /\ (Goes(q, step) \/ Goes(q, Answered))
      BY <1>7, <2>2 DEF MarkLocally, Answers
    <3>2. mark.msg = m /\ DOMAIN mark = {"of", "msg"}
      OBVIOUS
    <3>3. step.op = "get" /\ step.msg = m
      OBVIOUS
    <3> HIDE DEF mark, step, m
    <3>4. ~isExpired(mark)
      BY <3>2 DEF isExpired
    <3>5. reads \subseteq reads' /\ mark \in reads' /\ \A v \in reads' : ~isExpired(v)
      BY <3>1, <3>4 DEF Inv, MailboxInv
    <3>6. Only(q) /\ RequestInv(requests[q])'
      <4>1. CASE Goes(q, Answered)
        <5>1. Only(q) /\ requests'[q] = Answered
          BY <4>1, GoesTo DEF Inv
        <5> QED BY <5>1 DEF RequestInv, Answered
      <4>2. CASE Goes(q, step)
        <5>1. Only(q) /\ requests'[q] = step
          BY <4>2, GoesTo DEF Inv
        <5>2. requests'[q].op = "get" /\ requests'[q].msg = m
          BY <3>3, <5>1
        <5>3. Marked(requests[q].msg)'
          BY <3>2, <3>5, <5>2 DEF Marked
        <5> QED BY <5>1, <5>2, <5>3 DEF RequestInv
      <4> QED BY <3>1, <4>1, <4>2
    <3> QED BY <2>1, <3>5, <3>6, Plain DEF storeVars
  <2>3. CASE storage # Open
    BY <1>7, <2>1, <2>3, PlainGoes DEF MarkLocally, Answers, Answered, storeVars
  <2> QED BY <2>2, <2>3
<1>8. CASE DeleteLocally(q)
  BY <1>8, PlainGoes DEF DeleteLocally, Answers, Answered, storeVars
<1> QED BY <1>1, <1>2, <1>3, <1>4, <1>5, <1>6, <1>7, <1>8

(* A cleanup takes no mark: none has expired.                              *)
LEMMA RemovedKeeps ==
  ASSUME Inv, \E gone \in SUBSET Expired : Removed(gone)
  PROVE  /\ records' \subseteq records /\ reads \subseteq reads'
         /\ \A v \in reads' : ~isExpired(v)
<1>1. PICK gone \in SUBSET Expired : Removed(gone)
  OBVIOUS
<1>2. \A v \in gone : isExpired(v)
  BY DEF Expired
<1>3. \A v \in reads : ~isExpired(v)
  BY DEF Inv, MailboxInv
<1> QED BY <1>1, <1>2, <1>3 DEF Removed

(* initLocalStorage, which may come second and find the path locked.       *)
LEMMA StorageSteps ==
  ASSUME Inv, NEW q \in Requests, OpenStorage(q) \/ StorageOpened(q)
  PROVE  Inv'
<1>1. Deferred(requests[q].then, current')
  <2>1. RequestInv(requests[q]) /\ requests[q].op \in {"init", "opening"}
    BY DEF Inv, RequestsInv, OpenStorage, StorageOpened, At
  <2>2. UNCHANGED current
    BY DEF OpenStorage, StorageOpened
  <2> QED BY <2>1, <2>2 DEF RequestInv
<1>2. /\ UNCHANGED <<current, storeVars, mailboxes, wire, stored, acked, crossed, p2p>>
      /\ crossed \subseteq crossed' /\ records' \subseteq records
      /\ reads \subseteq reads' /\ \A v \in reads' : ~isExpired(v)
  <2>1. CASE reads' = reads /\ records' = records
    BY <2>1, MarksFresh DEF OpenStorage, StorageOpened
  <2>2. CASE \E gone \in SUBSET Expired : Removed(gone)
    BY <2>2, RemovedKeeps DEF OpenStorage, StorageOpened
  <2>3. Expired \in SUBSET Expired
    OBVIOUS
  <2> QED BY <2>1, <2>2, <2>3 DEF OpenStorage, StorageOpened
<1>3. CASE Goes(q, requests[q].then)
  <2>1. Only(q) /\ requests'[q] = requests[q].then
    BY <1>3, GoesTo DEF Inv
  <2>2. RequestInv(requests[q])'
    BY <1>1, <2>1, DeferredSafe
  <2> QED BY <1>2, <2>1, <2>2, Plain DEF storeVars
<1>4. CASE OpenStorage(q) /\ ~storageReady
  <2> DEFINE step == [op |-> "opening", then |-> requests[q].then, mine |-> storage']
  <2>1. Goes(q, step)
    BY <1>4 DEF OpenStorage
  <2>2. step.op = "opening" /\ step.then = requests[q].then
    OBVIOUS
  <2> HIDE DEF step
  <2>3. Only(q) /\ requests'[q] = step
    BY <2>1, GoesTo DEF Inv
  <2>4. requests'[q].op = "opening" /\ Deferred(requests'[q].then, current')
    BY <1>1, <2>2, <2>3
  <2>5. RequestInv(requests[q])'
    BY <2>4 DEF RequestInv, Deferred, IsSend
  <2> QED BY <1>2, <2>3, <2>5, Plain DEF storeVars
<1> QED BY <1>3, <1>4 DEF OpenStorage, StorageOpened

(* An entry is filed for whom its message is to.                           *)
LEMMA EntryMade ==
  ASSUME NEW e, NEW id
  PROVE  /\ IsEntry(Entry(e, id))
         /\ Entry(e, id).id = id /\ Entry(e, id).to = e.to
         /\ Entry(e, id).msg = e.msg /\ Entry(e, id).read = FALSE
BY DEF IsEntry, Entry

(* A fetch asks for the mail of the identity the node has then.            *)
LEMMA AskSteps ==
  ASSUME Inv, NEW q \in Requests,
         fetchFromPeer(q) \/ fetchMessagesFromPeer(q) \/ AskAgain(q)
  PROVE  Inv'
<1>1. UNCHANGED <<current, storeVars, mailboxes, wire, stored, acked, crossed, reads, p2p, records>>
  BY DEF fetchFromPeer, fetchMessagesFromPeer, AskAgain
<1>2. PICK id : Asks(q, id)
  BY DEF fetchFromPeer, fetchMessagesFromPeer, AskAgain
<1>3. PICK step : Goes(q, step) /\ step.op = "asking"
  BY <1>2 DEF Asks
<1> QED BY <1>1, <1>3, PlainGoes DEF storeVars

(* The answer is for the identity the fetch named: if the node has another *)
(* one by then it is noted as crossed.                                     *)
LEMMA AnswerStep ==
  ASSUME Inv, NEW q \in Requests, Answer(q)
  PROVE  Inv'
<1> DEFINE s == requests[q]
           to == p2p.identity
<1>1. UNCHANGED <<current, storeVars, mailboxes, wire, stored, acked, reads, p2p, records>>
  BY DEF Answer
<1>2. PICK answer \in SUBSET {e \in wire : e.to = s.of} :
        /\ Goes(q, [op |-> "store", batch |-> {Entry(e, s.id) : e \in answer}])
        /\ crossed' = IF s.of = to THEN crossed
                      ELSE crossed \cup {[msg |-> e.msg, box |-> to] : e \in answer}
  BY DEF Answer
<1> DEFINE b == {Entry(e, s.id) : e \in answer}
<1>3. crossed \subseteq crossed'
  BY <1>2
<1>4. \A x \in b :
        /\ IsEntry(x) /\ x.read = FALSE
        /\ x.to = to \/ [msg |-> x.msg, box |-> to] \in crossed'
  <2>1. ASSUME NEW e \in answer
        PROVE  /\ IsEntry(Entry(e, s.id)) /\ Entry(e, s.id).read = FALSE
               /\ \/ Entry(e, s.id).to = to
                  \/ [msg |-> Entry(e, s.id).msg, box |-> to] \in crossed'
    <3> DEFINE f == Entry(e, s.id)
    <3>1. IsEntry(f) /\ f.to = e.to /\ f.msg = e.msg /\ f.read = FALSE
      BY EntryMade
    <3>2. e.to = s.of
      OBVIOUS
    <3>3. e.to = to \/ [msg |-> e.msg, box |-> to] \in crossed'
      BY <1>2, <3>2
    <3> HIDE DEF f, s, to
    <3> QED BY <3>1, <3>3 DEF f
  <2> QED BY <2>1
<1> HIDE DEF b, to
<1>5. Only(q) /\ requests'[q] = [op |-> "store", batch |-> b]
  BY <1>2, GoesTo DEF Inv, b
<1>6. RequestInv(requests[q])'
  <2> DEFINE step == [op |-> "store", batch |-> b]
  <2>1. step.op = "store" /\ step.batch = b /\ step = [op |-> step.op, batch |-> step.batch]
    OBVIOUS
  <2> HIDE DEF step
  <2>2. /\ requests'[q].op = "store" /\ requests'[q].batch = b
        /\ requests'[q] = [op |-> requests'[q].op, batch |-> requests'[q].batch]
    BY <1>5, <2>1 DEF step
  <2>4. p2p'.identity = to
    BY <1>1 DEF to
  <2>5. ASSUME NEW x \in b
        PROVE  IsEntry(x)' /\ Owned(x, p2p.identity)'
    <3>1. IsEntry(x) /\ x.read = FALSE
          /\ (x.to = to \/ [msg |-> x.msg, box |-> to] \in crossed')
      BY <1>4
    <3>2. IsEntry(x)'
      BY <3>1 DEF IsEntry
    <3>3. x.to = p2p'.identity \/ [msg |-> x.msg, box |-> p2p'.identity] \in crossed'
      BY <2>4, <3>1
    <3> QED BY <3>1, <3>2, <3>3 DEF Owned
  <2>3. Batch(requests[q])'
    BY <2>2, <2>5 DEF Batch
  <2> QED BY <2>2, <2>3 DEF RequestInv
<1> QED BY <1>1, <1>3, <1>5, <1>6, Plain, MarksFresh DEF storeVars

(* A message that is sent is fresh, and has not been stored or published.  *)
LEMMA SendSteps ==
  ASSUME Inv, NEW q \in Requests, sendMessage(q) \/ sendEncryptedMessage(q)
  PROVE  Inv'
<1>1. UNCHANGED <<current, storeVars, mailboxes, wire, stored, acked, crossed, reads, p2p, records>>
  BY DEF sendMessage, sendEncryptedMessage
<1>2. PICK m, from, to, for, copy :
        LET send == [op |-> "put", msg |-> m, from |-> from, to |-> to,
                     for |-> for, copy |-> copy]
        IN  IF p2p.started THEN Goes(q, [send EXCEPT !.op = "publish"])
            ELSE NeedsStorage(q, send)
  BY DEF sendMessage, sendEncryptedMessage
<1> DEFINE send == [op |-> "put", msg |-> m, from |-> from, to |-> to,
                    for |-> for, copy |-> copy]
           pub == [op |-> "publish", msg |-> m, from |-> from, to |-> to,
                   for |-> for, copy |-> copy]
<1>3. CASE p2p.started
  <2>1. Goes(q, pub)
    BY <1>2, <1>3
  <2>2. pub.op = "publish" /\ IsSend(pub)
    BY DEF IsSend
  <2> HIDE DEF pub
  <2>3. Only(q) /\ requests'[q] = pub
    BY <2>1, GoesTo DEF Inv
  <2>4. requests'[q].op = "publish" /\ IsSend(requests'[q])
    BY <2>2, <2>3
  <2>5. RequestInv(requests[q])'
    BY <2>4 DEF RequestInv, IsSend
  <2> QED BY <1>1, <2>3, <2>5, Plain, MarksFresh DEF storeVars
<1>4. CASE ~p2p.started
  <2>1. NeedsStorage(q, send)
    BY <1>2, <1>4
  <2>2. Deferred(send, current')
    BY DEF Deferred, IsSend
  <2> QED BY <1>1, <2>1, <2>2, PlainNeeds DEF storeVars
<1> QED BY <1>3, <1>4

(* An entry marked as read is otherwise the same.                          *)
LEMMA EntryRead ==
  ASSUME NEW e, IsEntry(e)
  PROVE  [e EXCEPT !.read = TRUE] = [id |-> e.id, msg |-> e.msg, to |-> e.to, read |-> TRUE]
<1>1. PICK i, x, y, z : e = [id |-> i, msg |-> x, to |-> y, read |-> z]
  BY Zenon DEF IsEntry
<1>2. e.id = i /\ e.msg = x /\ e.to = y
  BY <1>1
<1>3. \A t : [e EXCEPT !.read = t] = [id |-> i, msg |-> x, to |-> y, read |-> t]
  BY ONLY <1>1
<1>4. [e EXCEPT !.read = TRUE] = [id |-> i, msg |-> x, to |-> y, read |-> TRUE]
  BY ONLY <1>3, Zenon
<1> QED BY ONLY <1>2, <1>4

(* An entry read to be marked is of the node's own mailbox.                *)
LEMMA GetSteps ==
  ASSUME Inv, NEW q \in Requests, GetEntry(q)
  PROVE  Inv'
<1>1. UNCHANGED <<current, storeVars, mailboxes, wire, stored, acked, crossed, reads, p2p, records>>
  BY DEF GetEntry
<1>2. CASE Goes(q, Answered)
  BY <1>1, <1>2, PlainGoes DEF Answered, storeVars
<1>3. CASE /\ p2p.db.state = "open"
           /\ \E e \in mailboxes[p2p.db.box] :
                /\ e.msg = requests[q].msg /\ e.id # "sent"
                /\ Goes(q, [op |-> "marking", batch |-> {[e EXCEPT !.read = TRUE]}])
  <2>1. PICK e \in mailboxes[p2p.db.box] :
          /\ e.msg = requests[q].msg
          /\ Goes(q, [op |-> "marking", batch |-> {[e EXCEPT !.read = TRUE]}])
    BY <1>3
  <2>7. Marked(e.msg)
    <3>1. RequestInv(requests[q]) /\ requests[q].op = "get"
      BY DEF Inv, RequestsInv, GetEntry, At
    <3> QED BY <2>1, <3>1 DEF RequestInv
  <2> DEFINE f == [e EXCEPT !.read = TRUE]
  <2>2. IsEntry(e) /\ Owned(e, p2p.identity)
    BY <1>3 DEF Inv, MailboxInv, NodeInv
  <2>3. f = [id |-> e.id, msg |-> e.msg, to |-> e.to, read |-> TRUE]
    BY <2>2, EntryRead
  <2> HIDE DEF f
  <2>4. IsEntry(f) /\ Owned(f, p2p.identity)
    BY <2>2, <2>3, <2>7 DEF IsEntry, Owned
  <2>5. Only(q) /\ requests'[q] = [op |-> "marking", batch |-> {f}]
    BY <2>1, GoesTo DEF Inv, f
  <2>6. RequestInv(requests[q])'
    BY <1>1, <2>4, <2>5 DEF RequestInv, Batch, Owned, IsEntry, Marked
  <2> QED BY <1>1, <2>5, <2>6, Plain, MarksFresh DEF storeVars
<1> QED BY <1>2, <1>3 DEF GetEntry, Answers, Open

(* A step that leaves the mailboxes and what was stored alone.             *)
LEMMA NothingElse ==
  ASSUME Inv, RequestsInv', current' = current \/ current' \in Addresses,
         UNCHANGED <<mailboxes, stored, acked, crossed, reads, p2p>>,
         wire \subseteq wire', records' \subseteq records, FileInv'
  PROVE  Inv'
<1>1. NodeInv'
  BY DEF Inv, NodeInv
<1>2. MailboxInv'
  BY DEF Inv, MailboxInv, Owned, Marked, isExpired
<1>3. RecordInv'
  BY DEF Inv, RecordInv, Envelope
<1> QED BY <1>1, <1>2, <1>3 DEF Inv

(* createIdentity writes two files and then remembers the identity;        *)
(* getIdentity remembers one that has a file.                              *)
LEMMA IdentitySteps ==
  ASSUME Inv, NEW q \in Requests,
         createIdentity(q) \/ WriteOwnFile(q) \/ WriteLegacyFile(q)
         \/ decryptMessageForAddress(q)
  PROVE  Inv'
<1>0. DOMAIN files = Addresses
  BY DEF Inv, FileInv
<1>1. CASE createIdentity(q)
  <2>1. PICK a \in Addresses, l \in Labels :
          BeginCreate(a, l) /\ Goes(q, [op |-> "own file", of |-> a])
    BY <1>1 DEF createIdentity
  <2>2. UNCHANGED <<current, p2p, mailboxes, wire, stored, acked, crossed, reads, records,
                    identities, unsaved>>
    BY <1>1, <2>1 DEF createIdentity, BeginCreate
  <2>3. files[a] # Saved /\ files' = [files EXCEPT ![a] = Torn]
    BY <2>1 DEF BeginCreate, Absent, Saved
  <2> DEFINE step == [op |-> "own file", of |-> a]
  <2>4. Only(q) /\ requests'[q] = step
    BY <2>1, GoesTo DEF Inv
  <2>5. RequestInv(requests[q])'
    <3>1. step.op = "own file" /\ step.of = a /\ step = [op |-> step.op, of |-> step.of]
      OBVIOUS
    <3> HIDE DEF step
    <3>2. /\ requests'[q].op = "own file" /\ requests'[q].of \in Addresses
          /\ requests'[q] = [op |-> requests'[q].op, of |-> requests'[q].of]
      BY <2>1, <2>4, <3>1
    <3> QED BY <3>2 DEF RequestInv
  <2>6. \A b \in Addresses : files[b] = Saved => files'[b] = Saved
    BY <1>0, <2>3
  <2>7. RequestsInv'
    BY <2>2, <2>4, <2>5, <2>6, RequestsMove DEF Inv
  <2>8. FileInv'
    BY <1>0, <2>2, <2>3 DEF Inv, FileInv, Saved
  <2> QED BY <2>2, <2>7, <2>8, NothingElse
<1>2. CASE WriteOwnFile(q)
  <2> DEFINE a == requests[q].of
             step == [op |-> "legacy file", of |-> a]
  <2>1. requests[q] = [op |-> "own file", of |-> a] /\ a \in Addresses
    BY <1>2 DEF Inv, RequestsInv, RequestInv, WriteOwnFile, At
  <2>2. /\ files' = [files EXCEPT ![a] = Saved]
        /\ Goes(q, [requests[q] EXCEPT !.op = "legacy file"])
        /\ UNCHANGED <<current, p2p, mailboxes, wire, stored, acked, crossed, reads, records,
                       identities, unsaved>>
    BY <1>2 DEF WriteOwnFile, OwnFileWritten
  <2> HIDE DEF a
  <2>3. Goes(q, step)
    <3> DEFINE r == requests[q]
    <3>1. r = [op |-> "own file", of |-> a] /\ Goes(q, [r EXCEPT !.op = "legacy file"])
      BY <2>1, <2>2
    <3> HIDE DEF r
    <3>4. PICK was : r = [op |-> was, of |-> a]
      BY <3>1, Zenon
    <3>2. \A o : [r EXCEPT !.op = o] = [op |-> o, of |-> a]
      BY ONLY <3>4
    <3>3. [r EXCEPT !.op = "legacy file"] = step
      BY ONLY <3>2, Zenon
    <3> QED BY <3>1, <3>3
  <2>4. Only(q) /\ requests'[q] = step
    BY <2>3, GoesTo DEF Inv
  <2>5. RequestInv(requests[q])'
    <3>0. step.op = "legacy file" /\ step.of = a
      OBVIOUS
    <3>1. requests'[q].op = "legacy file" /\ requests'[q].of = a
      <4> HIDE DEF step
      <4> QED BY <2>4, <3>0
    <3>2. files'[a] = Saved
      BY <1>0, <2>1, <2>2
    <3> QED BY <2>1, <3>1, <3>2 DEF RequestInv
  <2>6. \A b \in Addresses : files[b] = Saved => files'[b] = Saved
    BY <1>0, <2>2
  <2>7. RequestsInv'
    BY <2>2, <2>4, <2>5, <2>6, RequestsMove DEF Inv
  <2>8. FileInv'
    <3>1. DOMAIN files' = Addresses
      BY <1>0, <2>2
    <3>2. \A b \in identities : b \in DOMAIN files /\ (files[b] = Saved \/ b \in unsaved)
      BY DEF Inv, FileInv
    <3>3. \A b \in DOMAIN files : files[b] = Saved => files'[b] = Saved
      BY <2>2
    <3> QED BY <2>2, <3>1, <3>2, <3>3 DEF FileInv
  <2> QED BY <2>2, <2>7, <2>8, NothingElse
<1>3. CASE WriteLegacyFile(q)
  <2> DEFINE a == requests[q].of
  <2>1. a \in Addresses /\ files[a] = Saved
    BY <1>3 DEF Inv, RequestsInv, RequestInv, WriteLegacyFile, At
  <2>2. /\ identities' = identities \cup {a} /\ current' = a
        /\ NeedsStorage(q, StartsNode(a))
        /\ UNCHANGED <<p2p, mailboxes, wire, stored, acked, crossed, reads, records,
                       files, unsaved>>
    BY <1>3 DEF WriteLegacyFile, LegacyWritten
  <2> HIDE DEF a
  <2>3. Deferred(StartsNode(a), current')
    BY <2>1 DEF Deferred, StartsNode
  <2>4. Only(q) /\ RequestInv(requests[q])'
    BY <2>2, <2>3, NeedsSafe DEF Inv
  <2>5. RequestsInv'
    BY <2>1, <2>2, <2>4, RequestsMove DEF Inv
  <2>6. FileInv'
    BY <2>1, <2>2 DEF Inv, FileInv
  <2> QED BY <2>1, <2>2, <2>5, <2>6, NothingElse
<1>4. CASE decryptMessageForAddress(q)
  <2>1. /\ Goes(q, Answered)
        /\ UNCHANGED <<current, p2p, mailboxes, wire, stored, acked, crossed, reads, records,
                       files, unsaved>>
        /\ \A a \in identities' :
             a \in identities \/ (a = requests[q].of /\ files[a] = Saved)
    BY <1>4 DEF decryptMessageForAddress, getIdentity, Answers
  <2>0. requests[q].of \in Addresses
    BY <1>4 DEF Inv, RequestsInv, RequestInv, decryptMessageForAddress, At
  <2>2. Only(q) /\ requests'[q] = Answered
    BY <2>1, GoesTo DEF Inv
  <2>3. RequestInv(requests[q])'
    BY <2>2 DEF RequestInv, Answered
  <2>4. RequestsInv'
    BY <2>1, <2>2, <2>3, RequestsMove DEF Inv
  <2>5. FileInv'
    BY <2>0, <2>1 DEF Inv, FileInv
  <2> QED BY <2>1, <2>4, <2>5, NothingElse
<1> QED BY <1>1, <1>2, <1>3, <1>4

(* A message that is published is on the wire for good.                    *)
LEMMA PublishStep ==
  ASSUME Inv, NEW q \in Requests, Publish(q)
  PROVE  Inv'
<1> DEFINE s == requests[q]
<1>1. UNCHANGED <<current, storeVars, mailboxes, stored, acked, crossed, reads, p2p, records>>
  BY DEF Publish
<1>2. s.op = "publish" /\ IsSend(s)
  BY DEF Inv, RequestsInv, RequestInv, Publish, At
<1>3. CASE Goes(q, Answered) /\ wire' = wire
  BY <1>1, <1>3, PlainGoes DEF Answered, storeVars
<1>4. CASE wire' = wire \cup {Envelope(s)} /\ Goes(q, [s EXCEPT !.op = "published"])
  <2> DEFINE t == [s EXCEPT !.op = "published"]
  <2>1. t = [op |-> "published", msg |-> s.msg, from |-> s.from, to |-> s.to,
             for |-> s.for, copy |-> s.copy]
    <3> HIDE DEF s
    <3>1. PICK o, m, f, x, r, c : s = [op |-> o, msg |-> m, from |-> f, to |-> x,
                                       for |-> r, copy |-> c]
      BY <1>2, Zenon DEF IsSend
    <3> QED BY <3>1
  <2> HIDE DEF t
  <2>2. IsSend(t) /\ t.op = "published" /\ Envelope(t) = Envelope(s)
    BY <2>1 DEF IsSend, Envelope
  <2>3. Only(q) /\ requests'[q] = t
    BY <1>4, GoesTo DEF Inv, t
  <2>4. Envelope(t) \in wire'
    BY <1>4, <2>2
  <2>5. requests'[q].op = "published" /\ IsSend(requests'[q])
        /\ Envelope(requests'[q]) \in wire'
    BY <2>2, <2>3, <2>4
  <2>6. RequestInv(requests[q])'
    BY <2>5 DEF RequestInv, IsSend, Envelope
  <2>7. wire \subseteq wire'
    BY <1>4
  <2>8. RequestsInv'
    BY <1>1, <2>3, <2>6, <2>7, RequestsMove DEF Inv, storeVars
  <2>9. FileInv'
    BY <1>1 DEF Inv, FileInv, storeVars
  <2> QED BY <1>1, <2>7, <2>8, <2>9, NothingElse
<1> QED BY <1>3, <1>4 DEF Publish, Answers, Envelope

(* An entry of the node's identity goes to the mailbox of that identity.   *)
LEMMA PutOwned ==
  ASSUME Inv, NEW e, IsEntry(e), Owned(e, p2p.identity), Put(e), UNCHANGED <<crossed, reads>>
  PROVE  MailboxInv'
<1>1. CASE p2p.db.state = Open
  <2>1. mailboxes' = [mailboxes EXCEPT ![p2p.db.box] =
           {x \in @ : <<x.id, x.msg>> # <<e.id, e.msg>>} \cup {e}]
    BY <1>1 DEF Put
  <2>2. p2p.db.box = p2p.identity /\ DOMAIN mailboxes = Addresses
    BY DEF Inv, NodeInv, MailboxInv
  <2>3. DOMAIN mailboxes' = Addresses
    BY <2>1, <2>2
  <2>4. \A a \in Addresses : \A x \in mailboxes'[a] :
          x \in mailboxes[a] \/ (x = e /\ a = p2p.identity)
    BY <2>1, <2>2
  <2> QED BY <2>3, <2>4 DEF Inv, MailboxInv, Owned, Marked, isExpired
<1>2. CASE p2p.db.state # Open
  BY <1>2 DEF Put, Inv, MailboxInv, Owned, Marked, isExpired
<1> QED BY <1>1, <1>2

(* A step whose mailbox side is known.                                     *)
LEMMA MailOnly ==
  ASSUME Inv, RequestsInv', MailboxInv',
         UNCHANGED <<current, p2p, storeVars>>,
         stored \subseteq stored', wire \subseteq wire', records' \subseteq records,
         acked' \subseteq stored' \cup wire'
  PROVE  Inv'
BY DEF Inv, NodeInv, RecordInv, Envelope, FileInv, storeVars

(* A request puts what it held: if the node changed its identity           *)
(* meanwhile, the messages were noted as crossed.                          *)
LEMMA PutSteps ==
  ASSUME Inv, NEW q \in Requests, StoreFetched(q) \/ PutBack(q)
  PROVE  Inv'
<1> DEFINE s == requests[q]
<1>1. UNCHANGED <<current, storeVars, stored, acked, crossed, reads, p2p, records, wire>>
  BY DEF StoreFetched, PutBack
<1>2. Batch(s) /\ s.op \in {"store", "marking"}
  BY DEF Inv, RequestsInv, RequestInv, StoreFetched, PutBack, At
<1>3. CASE Goes(q, Answered) /\ mailboxes' = mailboxes
  BY <1>1, <1>3, PlainGoes DEF Answered, storeVars
<1>4. ASSUME NEW e \in s.batch, NEW rest, rest \subseteq s.batch, NEW step,
             step = Answered \/ step = [op |-> "store", batch |-> rest],
             Put(e), Goes(q, step)
      PROVE  Inv'
  <2>1. Only(q) /\ requests'[q] = step
    BY <1>4, GoesTo DEF Inv
  <2>2. \A x \in s.batch : IsEntry(x) /\ Owned(x, p2p.identity)
    BY <1>2 DEF Batch
  <2> HIDE DEF s
  <2>3. RequestInv(requests[q])'
    <3>1. CASE step = Answered
      BY <2>1, <3>1 DEF RequestInv, Answered
    <3>2. CASE step = [op |-> "store", batch |-> rest]
      <4>1. \A x \in rest : IsEntry(x) /\ Owned(x, p2p.identity)
        BY <1>4, <2>2
      <4> QED BY <1>1, <2>1, <3>2, <4>1 DEF RequestInv, Batch, Owned, Marked, IsEntry
    <3> QED BY <1>4, <3>1, <3>2
  <2>4. RequestsInv'
    BY <1>1, <2>1, <2>3, RequestsMove DEF Inv, storeVars
  <2>5. MailboxInv'
    BY <1>1, <1>4, <2>2, PutOwned
  <2>6. acked' \subseteq stored' \cup wire'
    BY <1>1 DEF Inv, RecordInv
  <2> QED BY <1>1, <2>4, <2>5, <2>6, MailOnly
<1>5. CASE StoreFetched(q) /\ s.batch # {}
  <2>1. PICK e \in s.batch :
          Put(e) /\ Goes(q, [s EXCEPT !.batch = @ \ {e}])
    BY <1>5 DEF StoreFetched
  <2>2. s.op = "store"
    BY <1>5 DEF StoreFetched, At
  <2>3. [s EXCEPT !.batch = @ \ {e}] = [op |-> "store", batch |-> s.batch \ {e}]
    <3> HIDE DEF s
    <3>1. PICK o, b : s = [op |-> o, batch |-> b]
      BY <1>2, Zenon DEF Batch
    <3> QED BY <2>2, <3>1
  <2> HIDE DEF s
  <2> QED BY <1>4, <2>1, <2>3
<1>6. CASE PutBack(q)
  <2>1. PICK e \in s.batch : Put(e)
    BY <1>6 DEF PutBack
  <2>2. Goes(q, Answered)
    BY <1>6 DEF PutBack, Answers
  <2> QED BY <1>4, <2>1, <2>2
<1> QED BY <1>3, <1>5, <1>6 DEF StoreFetched, Answers

(* The node changes its identity: whatever the other requests hold is      *)
(* noted, and no longer owed to the old one.                               *)
LEMMA NodeSteps ==
  ASSUME Inv, NEW q \in Requests, initializeNode(q) \/ startNode(q)
  PROVE  Inv'
<1>1. CASE initializeNode(q)
  <2> DEFINE a == requests[q].of
             step == [op |-> "start"]
  <2>1. a \in Addresses
    BY <1>1 DEF Inv, RequestsInv, RequestInv, initializeNode, At
  <2>2. /\ Goes(q, step)
        /\ crossed' = crossed \cup {[msg |-> m, box |-> a] : m \in Held(q)}
        /\ UNCHANGED <<storeVars, records, reads, current, mailboxes, wire, stored, acked>>
    BY <1>1 DEF initializeNode, initialize
  <2>3. PICK state : p2p' = [p2p EXCEPT !.identity = a, !.db = [box |-> a, state |-> state]]
    BY <1>1 DEF initializeNode, initialize
  <2> HIDE DEF a
  <2>4. p2p' = [identity |-> a, db |-> [box |-> a, state |-> state], started |-> p2p.started]
    <3>1. PICK i, d, t : p2p = [identity |-> i, db |-> d, started |-> t]
      BY Zenon DEF Inv, NodeInv
    <3> QED BY <2>3, <3>1
  <2>5. NodeInv'
    BY <2>1, <2>2, <2>4 DEF Inv, NodeInv
  <2>6. Only(q) /\ requests'[q] = step
    BY <2>2, GoesTo DEF Inv
  <2>7. RequestsInv'
    <3>1. RequestInv(requests[q])'
      BY <2>6 DEF RequestInv
    <3>2. ASSUME NEW o \in Requests, o # q
          PROVE  RequestInv(requests[o])'
      <4> DEFINE s == requests[o]
      <4>1. requests'[o] = s /\ RequestInv(s)
        BY <2>6, <3>2 DEF Inv, RequestsInv, Only
      <4>2. ASSUME s.op \in {"store", "marking"}
            PROVE  Batch(s)'
        <5>1. \A e \in s.batch : [msg |-> e.msg, box |-> a] \in crossed'
          <6>1. \A e \in s.batch : e.msg \in Held(q)
            BY <3>2, <4>2 DEF Held
          <6> QED BY <2>2, <6>1
        <5>2. Batch(s)
          BY <4>1, <4>2 DEF RequestInv
        <5>3. p2p'.identity = a
          BY <2>4
        <5>4. \A e \in s.batch : IsEntry(e) /\ Owned(e, p2p.identity)'
          BY <2>2, <5>1, <5>2, <5>3 DEF Batch, Owned, Marked
        <5> QED BY <4>1, <5>2, <5>4 DEF Batch, IsEntry
      <4> QED BY <2>2, <4>1, <4>2 DEF RequestInv, Deferred, IsSend, Envelope, storeVars, Marked
    <3> QED BY <2>6, <3>1, <3>2 DEF RequestsInv, Only
  <2>8. MailboxInv'
    BY <2>2, MailboxesStay, MarksFresh DEF Inv
  <2>9. RecordInv' /\ FileInv'
    BY <2>2 DEF Inv, RecordInv, FileInv, Envelope, storeVars
  <2> QED BY <2>5, <2>7, <2>8, <2>9 DEF Inv
<1>2. CASE startNode(q)
  <2>1. UNCHANGED <<storeVars, records, current, mailboxes, wire, stored, acked, crossed, reads>>
    BY <1>2 DEF startNode
  <2>2. PICK step : Goes(q, step) /\ step.op \in {"fetch", "answered"}
    BY <1>2 DEF startNode, Answers, Answered
  <2>3. NodeInv' /\ p2p'.identity = p2p.identity
    <3>1. CASE p2p' = p2p
      BY <2>1, <3>1 DEF Inv, NodeInv
    <3>2. CASE p2p' = [p2p EXCEPT !.started = TRUE]
      <4>1. PICK i, d, t : p2p = [identity |-> i, db |-> d, started |-> t]
        BY Zenon DEF Inv, NodeInv
      <4>2. \A on : [p2p EXCEPT !.started = on] = [identity |-> i, db |-> d, started |-> on]
        BY ONLY <4>1
      <4>3. [p2p EXCEPT !.started = TRUE] = [identity |-> i, db |-> d, started |-> TRUE]
        BY ONLY <4>2, Zenon
      <4>4. p2p' = [identity |-> i, db |-> d, started |-> TRUE]
        BY ONLY <3>2, <4>3
      <4> QED BY <2>1, <4>1, <4>4 DEF Inv, NodeInv
    <3> QED BY <1>2, <3>1, <3>2 DEF startNode
  <2>4. Only(q) /\ requests'[q] = step
    BY <2>2, GoesTo DEF Inv
  <2>5. RequestInv(requests[q])'
    BY <2>2, <2>4 DEF RequestInv
  <2>6. RequestsInv'
    BY <2>1, <2>3, <2>4, <2>5, RequestsMove DEF Inv, storeVars
  <2>7. MailboxInv' /\ RecordInv' /\ FileInv'
    BY <2>1 DEF Inv, MailboxInv, Owned, Marked, isExpired, RecordInv, FileInv, Envelope, storeVars
  <2> QED BY <2>3, <2>6, <2>7 DEF Inv
<1> QED BY <1>1, <1>2

(* The copy of a published message, and the message itself if it is for    *)
(* the node.                                                               *)
LEMMA PutSentStep ==
  ASSUME Inv, NEW q \in Requests, PutSent(q)
  PROVE  Inv'
<1> DEFINE s == requests[q]
<1>1. UNCHANGED <<current, storeVars, stored, crossed, reads, p2p, records, wire>>
  BY DEF PutSent
<1>2. s.op = "published" /\ IsSend(s) /\ Envelope(s) \in wire
  BY DEF Inv, RequestsInv, RequestInv, PutSent, At
<1>3. CASE Goes(q, Answered) /\ UNCHANGED <<mailboxes, acked>>
  BY <1>1, <1>3, PlainGoes DEF Answered, storeVars
<1>4. CASE /\ Put(Entry(s, "sent"))
           /\ acked' = acked \cup {[msg |-> s.msg, to |-> s.to]}
           /\ IF isForUs(s)
              THEN Goes(q, [op |-> "store", batch |-> {Entry(s, "hash")}])
              ELSE Answers(q)
  <2> DEFINE e == Entry(s, "sent")
             f == Entry(s, "hash")
  <2>0. /\ IsEntry(e) /\ e.id = "sent" /\ e.read = FALSE
        /\ IsEntry(f) /\ f.to = s.to /\ f.read = FALSE
    BY EntryMade
  <2>1. IsEntry(e) /\ Owned(e, p2p.identity)
    <3> HIDE DEF e
    <3> QED BY <2>0 DEF Owned
  <2>2. IsEntry(f) /\ (isForUs(s) => Owned(f, p2p.identity))
    <3> HIDE DEF f, s
    <3> QED BY <2>0 DEF Owned, isForUs
  <2>3. Put(e) /\ (Goes(q, Answered) \/ (isForUs(s) /\ Goes(q, [op |-> "store", batch |-> {f}])))
    BY <1>4 DEF Answers
  <2>4. acked' = acked \cup {Envelope(s)}
    BY <1>4 DEF Envelope
  <2> HIDE DEF e, f, s
  <2>5. MailboxInv'
    BY <1>1, <2>1, <2>3, PutOwned
  <2>6. acked' \subseteq stored' \cup wire'
    BY <1>1, <1>2, <2>4 DEF Inv, RecordInv
  <2>7. Only(q) /\ RequestInv(requests[q])'
    <3>1. CASE Goes(q, Answered)
      <4>1. Only(q) /\ requests'[q] = Answered
        BY <3>1, GoesTo DEF Inv
      <4> QED BY <4>1 DEF RequestInv, Answered
    <3>2. CASE isForUs(s) /\ Goes(q, [op |-> "store", batch |-> {f}])
      <4>1. Only(q) /\ requests'[q] = [op |-> "store", batch |-> {f}]
        BY <3>2, GoesTo DEF Inv
      <4>2. IsEntry(f) /\ Owned(f, p2p.identity)
        BY <2>2, <3>2
      <4> QED BY <1>1, <4>1, <4>2 DEF RequestInv, Batch, Owned, Marked, IsEntry
    <3> QED BY <2>3, <3>1, <3>2
  <2>8. RequestsInv'
    BY <1>1, <2>7, RequestsMove DEF Inv, storeVars
  <2> QED BY <1>1, <2>5, <2>6, <2>8, MailOnly
<1> QED BY <1>3, <1>4 DEF PutSent, Answers

(* A record stands for the message it was made of.                         *)
LEMMA RecordMade ==
  ASSUME NEW s, NEW a
  PROVE  /\ IsRecord(Record(s, a))
         /\ Record(s, a).box = a /\ Envelope(Record(s, a)) = Envelope(s)
BY DEF IsRecord, Record, Envelope

(* A send that moves on is otherwise the same.                             *)
LEMMA SendMoved ==
  ASSUME NEW s, IsSend(s), NEW o
  PROVE  [s EXCEPT !.op = o] = [op |-> o, msg |-> s.msg, from |-> s.from, to |-> s.to,
                                for |-> s.for, copy |-> s.copy]
<1>1. PICK p, m, f, x, r, c : s = [op |-> p, msg |-> m, from |-> f, to |-> x,
                                   for |-> r, copy |-> c]
  BY Zenon DEF IsSend
<1>2. [s EXCEPT !.op = o] = [op |-> o, msg |-> m, from |-> f, to |-> x,
                             for |-> r, copy |-> c]
  BY ONLY <1>1
<1>3. s.msg = m /\ s.from = f /\ s.to = x /\ s.for = r /\ s.copy = c
  BY ONLY <1>1
<1> QED BY ONLY <1>2, <1>3

(* The recipient's record is stored first; the copy and the answer come    *)
(* after it.                                                               *)
LEMMA StoreSteps ==
  ASSUME Inv, NEW q \in Requests, StoreLocally(q) \/ StoreCopy(q)
  PROVE  Inv'
<1> DEFINE s == requests[q]
<1>1. UNCHANGED <<current, storeVars, crossed, reads, p2p, mailboxes, wire>>
  BY DEF StoreLocally, StoreCopy
<1>2. CASE StoreLocally(q) /\ storage = Open
  <2> DEFINE step == [s EXCEPT !.op = "put copy"]
  <2>1. IsSend(s)
    BY <1>2 DEF Inv, RequestsInv, RequestInv, StoreLocally, At
  <2>2. /\ records' = records \cup {Record(s, Inbox(s.to))}
        /\ stored' = stored \cup {Envelope(s)}
        /\ acked' = acked \/ acked' = acked \cup {Envelope(s)}
        /\ Goes(q, step) \/ Goes(q, Answered)
    BY <1>2 DEF StoreLocally, FirstPut, ForRecipient, Answers, Envelope
  <2>3. RecordInv'
    <3>1. Inbox(s.to)[1] # "sent"
      BY DEF Inbox
    <3>2. /\ IsRecord(Record(s, Inbox(s.to)))
          /\ Record(s, Inbox(s.to)).box = Inbox(s.to)
      BY RecordMade
    <3> HIDE DEF s
    <3> QED BY <1>1, <2>2, <3>1, <3>2 DEF Inv, RecordInv, IsRecord, Envelope
  <2>4. /\ step = [op |-> "put copy", msg |-> s.msg, from |-> s.from, to |-> s.to,
                    for |-> s.for, copy |-> s.copy]
    BY <2>1, SendMoved
  <2>5. step.op = "put copy" /\ IsSend(step) /\ Envelope(step) = Envelope(s)
    <3> HIDE DEF step
    <3> QED BY <2>4 DEF IsSend, Envelope
  <2> HIDE DEF step
  <2>6. Only(q) /\ RequestInv(requests[q])'
    <3>1. CASE Goes(q, Answered)
      <4>1. Only(q) /\ requests'[q] = Answered
        BY <3>1, GoesTo DEF Inv
      <4> QED BY <4>1 DEF RequestInv, Answered
    <3>2. CASE Goes(q, step)
      <4>1. Only(q) /\ requests'[q] = step
        BY <3>2, GoesTo DEF Inv
      <4>2. Envelope(step) \in stored'
        BY <2>2, <2>5
      <4>3. /\ requests'[q].op = "put copy" /\ IsSend(requests'[q])
            /\ Envelope(requests'[q]) \in stored'
        BY <2>5, <4>1, <4>2
      <4> QED BY <4>1, <4>3 DEF RequestInv, IsSend, Envelope
    <3> QED BY <2>2, <3>1, <3>2
  <2>7. stored \subseteq stored'
    BY <2>2
  <2>8. RequestsInv'
    BY <1>1, <2>6, <2>7, RequestsMove DEF Inv, storeVars
  <2>9. NodeInv' /\ MailboxInv' /\ FileInv'
    BY <1>1 DEF Inv, NodeInv, MailboxInv, Owned, Marked, isExpired, FileInv, storeVars
  <2> QED BY <2>3, <2>8, <2>9 DEF Inv
<1>3. CASE StoreCopy(q) /\ storage = Open
  <2>1. IsSend(s) /\ Envelope(s) \in stored
    BY <1>3 DEF Inv, RequestsInv, RequestInv, StoreCopy, At
  <2>2. /\ records' = records \cup {Record(s, Sent(s.from))}
        /\ stored' = stored /\ acked' = acked \cup {Envelope(s)}
        /\ Goes(q, Answered)
    BY <1>3 DEF StoreCopy, SecondPut, ForSender, Answers, Envelope
  <2>3. RecordInv'
    <3>1. /\ IsRecord(Record(s, Sent(s.from)))
          /\ Envelope(Record(s, Sent(s.from))) = Envelope(s)
      BY RecordMade
    <3> HIDE DEF s
    <3> QED BY <1>1, <2>1, <2>2, <3>1 DEF Inv, RecordInv, IsRecord, Envelope
  <2>4. Only(q) /\ requests'[q] = Answered
    BY <2>2, GoesTo DEF Inv
  <2>5. RequestInv(requests[q])'
    BY <2>4 DEF RequestInv, Answered
  <2>6. RequestsInv'
    BY <1>1, <2>2, <2>4, <2>5, RequestsMove DEF Inv, storeVars
  <2>7. NodeInv' /\ MailboxInv' /\ FileInv'
    BY <1>1 DEF Inv, NodeInv, MailboxInv, Owned, Marked, isExpired, FileInv, storeVars
  <2> QED BY <2>3, <2>6, <2>7 DEF Inv
<1>4. CASE storage # Open
  BY <1>1, <1>4, PlainGoes DEF StoreLocally, StoreCopy, Answers, Answered, storeVars
<1> QED BY <1>2, <1>3, <1>4

(* A deletion takes from a mailbox and adds nothing.                       *)
LEMMA DeleteStep ==
  ASSUME Inv, NEW q \in Requests, deleteMessage(q)
  PROVE  Inv'
<1>1. UNCHANGED <<storeVars, records, current, p2p, wire, stored, acked, crossed, reads>>
  BY DEF deleteMessage
<1>2. PICK m \in Messages :
        IF p2p.started
        THEN /\ \E id \in {"hash", "relay"} :
                  mailboxes' = [mailboxes EXCEPT ![p2p.db.box] =
                    IF p2p.db.state = Open
                    THEN {e \in @ : <<e.id, e.msg>> # <<id, m>>} ELSE @]
             /\ Goes(q, Answered)
        ELSE /\ current # None
             /\ NeedsStorage(q, [op |-> "delete", of |-> current, msg |-> m])
             /\ UNCHANGED mailboxes
  BY DEF deleteMessage, Answers
<1>3. CASE p2p.started
  <2>1. PICK id : mailboxes' = [mailboxes EXCEPT ![p2p.db.box] =
                    IF p2p.db.state = Open
                    THEN {e \in @ : <<e.id, e.msg>> # <<id, m>>} ELSE @]
    BY <1>2, <1>3, ZenonT(60)
  <2>2. DOMAIN mailboxes = Addresses
    BY DEF Inv, MailboxInv
  <2>3. \A a \in Addresses : mailboxes'[a] \subseteq mailboxes[a]
    BY <2>1, <2>2
  <2>4. MailboxInv'
    BY <1>1, <2>1, <2>2, <2>3 DEF Inv, MailboxInv, Owned, Marked, isExpired
  <2>5. Only(q) /\ requests'[q] = Answered
    BY <1>2, <1>3, GoesTo DEF Inv
  <2>6. RequestInv(requests[q])'
    BY <2>5 DEF RequestInv, Answered
  <2>7. RequestsInv'
    BY <1>1, <2>5, <2>6, RequestsMove DEF Inv, storeVars
  <2>8. acked' \subseteq stored' \cup wire'
    BY <1>1 DEF Inv, RecordInv
  <2> QED BY <1>1, <2>4, <2>7, <2>8, MailOnly
<1>4. CASE ~p2p.started
  <2>1. Deferred([op |-> "delete", of |-> current, msg |-> m], current')
    BY DEF Deferred
  <2> QED BY <1>1, <1>2, <1>4, <2>1, PlainNeeds DEF storeVars
<1> QED BY <1>3, <1>4

(* Every step of a handler keeps the invariant.                            *)
LEMMA HandleSteps ==
  ASSUME Inv, NEW q \in Requests, Handle(q)
  PROVE  Inv'
BY PlainSteps, StorageSteps, AskSteps, AnswerStep, SendSteps, GetSteps, IdentitySteps,
   PublishStep, PutSteps, NodeSteps, PutSentStep, StoreSteps, DeleteStep, Zenon
   DEF Handle

(* A step of nobody's request takes nothing a request relies on.           *)
LEMMA RequestsStay ==
  ASSUME RequestsInv, UNCHANGED <<requests, current, p2p, wire, stored, crossed>>,
         reads \subseteq reads',
         \A a \in Addresses : files[a] = Saved => files'[a] = Saved
  PROVE  RequestsInv'
<1> SUFFICES ASSUME NEW o \in Requests
             PROVE  RequestInv(requests[o])'
  BY DEF RequestsInv
<1>1. RequestInv(requests[o])
  BY DEF RequestsInv
<1>2. Batch(requests[o]) => Batch(requests[o])'
  BY DEF Batch, Owned, Marked
<1> QED BY <1>1, <1>2 DEF RequestInv, Deferred, IsSend, Envelope, Marked

(* The hourly cleanup.                                                     *)
LEMMA CleanupStep ==
  ASSUME Inv, cleanupExpired
  PROVE  Inv'
<1>1. UNCHANGED <<storeVars, requests, mailboxes, wire, stored, acked, crossed, p2p,
                  current>>
  BY DEF cleanupExpired
<1>5. /\ records' \subseteq records /\ reads \subseteq reads'
      /\ \A v \in reads' : ~isExpired(v)
  <2>1. Expired \in SUBSET Expired /\ Removed(Expired)
    BY DEF cleanupExpired
  <2> QED BY <2>1, RemovedKeeps
<1>2. RequestsInv'
  BY <1>1, <1>5, RequestsStay DEF Inv, storeVars
<1>4. NodeInv' /\ MailboxInv' /\ FileInv'
  BY <1>1, <1>5, MailboxesStay DEF Inv, NodeInv, FileInv, storeVars
<1>3. RecordInv'
  BY <1>1, <1>5 DEF Inv, RecordInv, Envelope
<1> QED BY <1>2, <1>3, <1>4 DEF Inv

(* A record gets old.                                                      *)
LEMMA ExpireStep ==
  ASSUME Inv, NEW r \in records, Expire(r)
  PROVE  Inv'
<1>1. UNCHANGED <<storeVars, requests, mailboxes, wire, stored, acked, crossed, reads, p2p,
                  current>>
  BY DEF Expire
<1>2. RequestsInv'
  BY <1>1, RequestsStay DEF Inv, storeVars
<1>7. NodeInv' /\ MailboxInv' /\ FileInv'
  BY <1>1 DEF Inv, Owned, Marked, isExpired, NodeInv, MailboxInv, FileInv, storeVars
<1> DEFINE o == [r EXCEPT !.old = TRUE]
<1>3. o = [box |-> r.box, msg |-> r.msg, to |-> r.to, for |-> r.for, old |-> TRUE]
  <2>1. PICK b, m, t, f, w : r = [box |-> b, msg |-> m, to |-> t, for |-> f, old |-> w]
    <3>1. IsRecord(r)
      BY DEF Inv, RecordInv
    <3> QED BY ONLY <3>1, Zenon DEF IsRecord
  <2>2. \A v : [r EXCEPT !.old = v] = [box |-> b, msg |-> m, to |-> t, for |-> f, old |-> v]
    BY ONLY <2>1
  <2>3. o = [box |-> b, msg |-> m, to |-> t, for |-> f, old |-> TRUE]
    BY ONLY <2>2, Zenon
  <2> QED BY <2>1, <2>3
<1> HIDE DEF o
<1>4. IsRecord(o) /\ o.box = r.box /\ Envelope(o) = Envelope(r)
  BY <1>3 DEF IsRecord, Envelope
<1>5. \A x \in records' : x \in records \/ x = o
  BY DEF Expire, o
<1>6. RecordInv'
  BY <1>1, <1>4, <1>5 DEF Inv, RecordInv, Envelope, IsRecord
<1> QED BY <1>2, <1>6, <1>7 DEF Inv

(* Gossip is stored if it is for the identity the node has.                *)
LEMMA GossipStep ==
  ASSUME Inv, NEW e \in wire, handleIncomingMessage(e)
  PROVE  Inv'
<1>1. UNCHANGED <<storeVars, requests, wire, stored, acked, crossed, reads, p2p,
                  current, records>>
  BY DEF handleIncomingMessage
<1> DEFINE f == Entry(e, "hash")
<1>2. IsEntry(f) /\ Owned(f, p2p.identity) /\ Put(f)
  BY EntryMade DEF Owned, isForUs, handleIncomingMessage
<1> HIDE DEF f
<1>3. MailboxInv'
  BY <1>1, <1>2, PutOwned
<1>4. \A s : RequestInv(s)' = RequestInv(s)
  BY <1>1 DEF RequestInv, Deferred, IsSend, Batch, IsEntry, Owned, Marked, Envelope, storeVars
<1>5. RequestsInv'
  BY <1>1, <1>4 DEF Inv, RequestsInv
<1>6. acked' \subseteq stored' \cup wire'
  BY <1>1 DEF Inv, RecordInv
<1> QED BY <1>1, <1>3, <1>5, <1>6, MailOnly

(* loadAllIdentities remembers only what has a file.                       *)
LEMMA BootStep ==
  ASSUME Inv, MailBoot
  PROVE  Inv'
<1>1. UNCHANGED <<requests, mailboxes, wire, stored, acked, crossed, reads, p2p,
                  current, records>>
  BY DEF MailBoot, mailVars
<1>2. DOMAIN files = Addresses
  BY DEF Inv, FileInv
<1>3. ASSUME loadAllIdentities
      PROVE  FileInv' /\ (\A a \in Addresses : files[a] = Saved => files'[a] = Saved)
  <2>1. CASE Migrates
    <3>1. PICK outcome \in {Saved, Torn, Absent} :
            /\ files' = [files EXCEPT ![legacy] = IF outcome = Absent THEN @ ELSE outcome]
            /\ unsaved' = IF outcome = Saved THEN unsaved ELSE unsaved \cup {legacy}
            /\ identities' = Loaded \cup {legacy}
      BY <1>3, <2>1 DEF loadAllIdentities
    <3>2. legacy \in Addresses /\ files[legacy] # Saved
      BY <2>1 DEF Migrates, Loaded
    <3>3. \A a \in Addresses : files[a] = Saved => files'[a] = Saved
      BY <1>2, <3>1, <3>2
    <3>4. \A a \in identities' : a \in Addresses /\ (files'[a] = Saved \/ a \in unsaved')
      <4>1. outcome = Saved => files'[legacy] = Saved
        BY <1>2, <3>1, <3>2 DEF Saved, Absent
      <4> QED BY <3>1, <3>2, <3>3, <4>1 DEF Loaded
    <3>5. DOMAIN files' = Addresses
      BY <1>2, <3>1
    <3> QED BY <3>3, <3>4, <3>5 DEF FileInv
  <2>2. CASE ~Migrates
    <3>1. files' = files /\ unsaved' = unsaved
          /\ identities' = {a \in Addresses : files[a] = Saved}
      BY <1>3, <2>2 DEF loadAllIdentities, Loaded
    <3> QED BY <1>2, <3>1 DEF FileInv
  <2> QED BY <2>1, <2>2
<1>4. ASSUME DiesLoading
      PROVE  FileInv' /\ (\A a \in Addresses : files[a] = Saved => files'[a] = Saved)
  <2>1. /\ files' = [files EXCEPT ![legacy] = Torn]
        /\ legacy \in Addresses /\ files[legacy] # Saved
        /\ UNCHANGED <<identities, unsaved>>
    BY <1>4 DEF DiesLoading, Migrates, Loaded
  <2>2. \A a \in Addresses : files[a] = Saved => files'[a] = Saved
    BY <1>2, <2>1
  <2> QED BY <1>2, <2>1, <2>2 DEF Inv, FileInv
<1>5. FileInv' /\ (\A a \in Addresses : files[a] = Saved => files'[a] = Saved)
  BY <1>3, <1>4 DEF MailBoot
<1>6. RequestsInv'
  BY <1>1, <1>5, RequestsStay DEF Inv
<1>7. NodeInv' /\ MailboxInv' /\ RecordInv'
  BY <1>1 DEF Inv, NodeInv, MailboxInv, Owned, Marked, isExpired, RecordInv, Envelope
<1> QED BY <1>5, <1>6, <1>7 DEF Inv

(* The process dies: what is on disk stays, and no request goes on.        *)
LEMMA CrashStep ==
  ASSUME Inv, MailCrash
  PROVE  Inv'
<1>1. /\ UNCHANGED <<records, mailboxes, wire, stored, acked, crossed, reads, files, unsaved>>
      /\ identities' = {} /\ current' = None /\ p2p' = Stopped
      /\ requests' = [q \in Requests |->
                        IF requests[q] = Idle THEN Idle ELSE Answered]
  BY DEF MailCrash, StoreCrash
<1>2. \A q \in Requests : requests'[q] = Idle \/ requests'[q] = Answered
  BY <1>1
<1>3. RequestsInv'
  BY <1>1, <1>2 DEF RequestsInv, RequestInv, Idle, Answered
<1>4. NodeInv'
  BY <1>1 DEF NodeInv, Stopped, NoDb
<1>5. MailboxInv' /\ RecordInv' /\ FileInv'
  BY <1>1 DEF Inv, MailboxInv, Owned, Marked, isExpired, RecordInv, Envelope, FileInv
<1> QED BY <1>3, <1>4, <1>5 DEF Inv

(* Nothing is stored, sent or remembered at the start.                     *)
LEMMA InitInv == Init => Inv
<1> SUFFICES ASSUME Init
             PROVE  Inv
  OBVIOUS
<1>1. RequestsInv
  BY DEF Init, RequestsInv, RequestInv, Idle
<1>2. NodeInv
  BY DEF Init, NodeInv, Stopped, NoDb
<1>3. MailboxInv /\ RecordInv /\ FileInv
  BY DEF Init, StoreInit, MailboxInv, RecordInv, FileInv
<1> QED BY <1>1, <1>2, <1>3 DEF Inv

(* Every step of every request, timer, message and crash keeps the         *)
(* invariant.                                                              *)
LEMMA InvInductive == Inv /\ [Next]_<<storeVars, mailVars>> => Inv'
<1> SUFFICES ASSUME Inv, [Next]_<<storeVars, mailVars>>
             PROVE  Inv'
  OBVIOUS
<1>1. CASE UNCHANGED <<storeVars, mailVars>>
  <2>1. UNCHANGED <<requests, current, p2p, wire, stored, crossed, reads, files, unsaved,
                    identities, mailboxes, records, acked>>
    BY <1>1 DEF storeVars, mailVars
  <2>2. RequestsInv'
    BY <2>1, RequestsStay DEF Inv
  <2> QED BY <2>1, <2>2 DEF Inv, NodeInv, MailboxInv, Owned, Marked, isExpired, RecordInv, Envelope, FileInv
<1>2. CASE Next
  BY <1>2, HandleSteps, CleanupStep, ExpireStep, GossipStep, BootStep, CrashStep, Zenon
     DEF Next
<1> QED BY <1>1, <1>2

(* Whatever requests of api/src interleave at their awaits, and wherever   *)
(* the process dies, the invariant holds, for any addresses, labels,       *)
(* messages and requests.                                                  *)
THEOREM ApiInvariant == Spec => []Inv
BY InitInv, InvInductive, PTL DEF Spec

(* A sent copy, or an answer that a message was sent, is always backed by  *)
(* the recipient's record or by the gossip: the order of the two puts      *)
(* makes sure of it.                                                       *)
THEOREM SendersBacked == Spec => []SentBacked
<1>1. Inv => SentBacked
  BY DEF Inv, RecordInv, SentBacked, Envelope
<1> QED BY <1>1, ApiInvariant, PTL

(* An identity's database never has mail to another, except what a request *)
(* held while P2PNodeService changed to that identity under it and what    *)
(* answered a fetch made for the identity before it.                       *)
THEOREM MailboxesOwned == Spec => []MailboxOwned
<1>1. Inv => MailboxOwned
  BY DEF Inv, MailboxInv, MailboxOwned, Owned
<1> QED BY <1>1, ApiInvariant, PTL

(* What a mailbox shows as read is marked in the shared store, over every  *)
(* cleanup, restart, deletion and change of the identity: markAsRead puts  *)
(* the mark first, and fromJSON gives it a fresh expiry at each cleanup.   *)
THEOREM ReadsBacked == Spec => []ReadBacked
<1>1. Inv => ReadBacked
  BY DEF Inv, MailboxInv, ReadBacked, Owned, Marked
<1> QED BY <1>1, ApiInvariant, PTL

(* An identity the API remembers has a file it can be loaded from after a  *)
(* crash, unless it was found in identity.json and its copy failed.        *)
THEOREM IdentitiesKept == Spec => []IdentityKept
<1>1. Inv => IdentityKept
  BY DEF Inv, FileInv, IdentityKept
<1> QED BY <1>1, ApiInvariant, PTL
=============================================================================
