--------------------------- MODULE RegistryClient ---------------------------
(***************************************************************************)
(* src/blockchain/registry.js over DMailRegistry, as the command line uses *)
(* it: every call sends a transaction, waits for its receipt and reports   *)
(* it.  Transactions of one wallet are mined in nonce order, those of      *)
(* different wallets in any order, and a process that dies leaves its own  *)
(* behind.  A lookup by address is two reads with blocks in between.       *)
(***************************************************************************)
EXTENDS DMailRegistry

CONSTANTS
  Envelopes,           \* messages: the hash of the ciphertext, from and to
  MaxCalls             \* bound: transactions sent in a behaviour

ASSUME ClientAssumption ==
  /\ Envelopes \subseteq [hash : Hashes, from : DmailAddresses,
                          to : DmailAddresses]
  /\ MaxCalls \in Nat

VARIABLES
  mempool,             \* wallet -> sent transactions in nonce order
  sent,                \* how many were sent, for the bound
  reports,             \* what clients printed as successful
  lookup,              \* the lookupByAddress in progress
  answer               \* what the last lookup was asked and returned

clientVars == <<mempool, sent, reports, lookup, answer>>
vars == <<registryVars, clientVars>>

NoLookup == [address |-> NoName, name |-> NoName]

(* A call is its arguments and whether some process still awaits it.       *)
RegisterCall ==
  [op : {"register"}, name : Names, keys : Keys, address : DmailAddresses,
   awaited : BOOLEAN]
StampCall ==
  [op : {"stamp"}, envelope : Envelopes, cid : Cids \cup {NoName},
   awaited : BOOLEAN]

Init ==
  /\ RegistryInit
  /\ mempool = [w \in Wallets |-> <<>>]
  /\ sent = 0
  /\ reports = {}
  /\ lookup = NoLookup
  /\ answer = [asked |-> NoName, got |-> NoName]

-----------------------------------------------------------------------------
Send(w, call) ==
  /\ sent < MaxCalls
  /\ sent' = sent + 1
  /\ mempool' = [mempool EXCEPT ![w] = Append(@, call)]
  /\ UNCHANGED <<registryVars, reports, lookup, answer>>

registerIdentity(w, name, keys, address) ==
  Send(w, [op |-> "register", name |-> name, keys |-> keys,
           address |-> address, awaited |-> TRUE])

timestampEnvelope(w, envelope) ==
  Send(w, [op |-> "stamp", envelope |-> envelope, cid |-> NoName,
           awaited |-> TRUE])

timestampAndStoreEnvelope(w, envelope, cid) ==
  Send(w, [op |-> "stamp", envelope |-> envelope, cid |-> cid,
           awaited |-> TRUE])

(* The contract runs the call; a call it reverts changes nothing.          *)
Execute(w, call) ==
  IF call.op = "register"
  THEN register(w, call.name, call.keys, call.address)
  ELSE LET e == call.envelope
       IN  IF call.cid = NoName
           THEN timestampMessage(w, e.hash, e.from, e.to)
           ELSE timestampAndStore(w, e.hash, e.from, e.to, call.cid)

Reverts(w, call) ==
  IF call.op = "register"
  THEN \/ call.name \notin ValidNames
       \/ call.address \notin Dm1Addresses
       \/ ~NameFree(w, call.name)
  ELSE ~StampFree(w, call.envelope.hash)

(* Faulty variant: the client believes a mined transaction succeeded.      *)
ReportAnyway(w, call) ==
  reports' = IF call.awaited
             THEN reports \cup {[wallet |-> w, call |-> call]}
             ELSE reports

(* tx.wait() returns, or throws if the call was reverted: the client       *)
(* reports what it sent.  The time it prints with a stamp is that of its   *)
(* own clock, which the contract never saw, and is left out.               *)
Report(w, call) ==
  reports' = IF call.awaited /\ ~Reverts(w, call)
             THEN reports \cup {[wallet |-> w, call |-> call]}
             ELSE reports

Mine(w) ==
  /\ mempool[w] # <<>>
  /\ LET call == Head(mempool[w])
     IN  /\ IF Reverts(w, call) THEN UNCHANGED registryVars
                                ELSE Execute(w, call)
         /\ Report(w, call)
  /\ mempool' = [mempool EXCEPT ![w] = Tail(@)]
  /\ UNCHANGED <<sent, lookup, answer>>

(* The process is killed while it waits.                                   *)
Killed(w, i) ==
  /\ mempool[w][i].awaited
  /\ mempool' = [mempool EXCEPT ![w][i].awaited = FALSE]
  /\ UNCHANGED <<registryVars, sent, reports, lookup, answer>>

(* First read of lookupByAddress.                                          *)
LookupName(address) ==
  /\ lookup = NoLookup
  /\ IF getName(address) = NoName
     THEN /\ answer' = [asked |-> address, got |-> NoName]
          /\ UNCHANGED lookup
     ELSE /\ lookup' = [address |-> address, name |-> getName(address)]
          /\ UNCHANGED answer
  /\ UNCHANGED <<registryVars, mempool, sent, reports>>

(* lookupByName: getIdentity reverts, and null is returned, if there is    *)
(* none.                                                                   *)
LookupIdentity ==
  /\ lookup # NoLookup
  /\ answer' = [asked |-> lookup.address,
                got |-> IF identities[lookup.name].exists
                        THEN identities[lookup.name].dmailAddress ELSE NoName]
  /\ lookup' = NoLookup
  /\ UNCHANGED <<registryVars, mempool, sent, reports>>

(* What the API's RegistryService does on the chain is the same: it sends  *)
(* the same calls, waits and reads the same way.                           *)
Registering ==
  \E w \in Wallets, n \in Names, k \in Keys, a \in DmailAddresses :
    registerIdentity(w, n, k, a)

Timestamping ==
  \E w \in Wallets, e \in Envelopes :
    \/ timestampEnvelope(w, e)
    \/ \E c \in Cids : timestampAndStoreEnvelope(w, e, c)

LookingUp ==
  \/ \E a \in DmailAddresses : LookupName(a)
  \/ LookupIdentity

(* Calls that no client of the repository makes, and the passing of time.  *)
Chain ==
  \/ \E w \in Wallets, n \in ValidNames, k \in Keys : updateKeys(w, n, k)
  \/ NextBlock

Next ==
  \/ Registering
  \/ Timestamping
  \/ LookingUp
  \/ \E w \in Wallets : Mine(w)
  \/ \E w \in Wallets : \E i \in DOMAIN mempool[w] : Killed(w, i)
  \/ Chain /\ UNCHANGED clientVars

Spec == Init /\ [][Next]_vars

-----------------------------------------------------------------------------
TypeOK ==
  /\ RegistryTypeOK
  /\ mempool \in [Wallets -> Seq(RegisterCall \cup StampCall)]
  /\ sent \in 0..MaxCalls
  /\ \A r \in reports :
       /\ r.wallet \in Wallets
       /\ r.call \in RegisterCall \cup StampCall
  /\ lookup \in [address : DmailAddresses, name : ValidNames] \cup {NoLookup}
  /\ answer \in [asked : DmailAddresses \cup {NoName},
                 got : DmailAddresses \cup {NoName}]

(* The proof of a message is the one the call asked for.                   *)
ProofOf(wallet, call) ==
  LET proof == messageProofs[call.envelope.hash]
  IN  /\ proof.timestamp # 0
      /\ proof.sender = wallet
      /\ proof.senderDmail = call.envelope.from
      /\ proof.recipientDmail = call.envelope.to
      /\ proof.ipfsCid = call.cid

(* What was reported stays true: a name reported registered belongs to the *)
(* wallet and leads to the address it was registered for, and the proof of *)
(* a message reported stamped names the wallet, the two addresses and the  *)
(* stored content of that very call, whatever other transactions for the   *)
(* same name or hash were mined before, between or since.                  *)
ReportsTrue ==
  \A r \in reports :
    IF r.call.op = "register"
    THEN /\ nameOwner[r.call.name] = r.wallet
         /\ identities[r.call.name].dmailAddress = r.call.address
    ELSE ProofOf(r.wallet, r.call)

(* lookupByAddress never returns somebody else's identity, although the    *)
(* reverse entry may be overwritten between its two reads.                 *)
LookupAgrees == answer.got \in {NoName, answer.asked}

(* Names and message proofs are two books that are only ever added to,     *)
(* whatever clients send.                                                  *)
BooksWrittenOnce == NameBook!Spec /\ ProofBook!Spec
=============================================================================
