---------------------------- MODULE RegistryProofs ----------------------------
(***************************************************************************)
(* Proofs about RegistryClient (and DMailRegistry beneath it), for any     *)
(* wallets, names, addresses and messages, and any number of calls.        *)
(***************************************************************************)
EXTENDS RegistryClient, TLAPS

(* The contract's actions keep the types of its state.                     *)
LEMMA RegisterType ==
  ASSUME RegistryTypeOK,
         NEW w \in Wallets, NEW n \in Names, NEW k \in Keys,
         NEW a \in DmailAddresses, register(w, n, k, a)
  PROVE  RegistryTypeOK'
<1>1. n \in ValidNames /\ n \in Names /\ now \in Nat
  BY RegistryAssumption DEF register, RegistryTypeOK
<1>2. identities' \in [Names -> Identity]
  <2>1. [keys |-> k, dmailAddress |-> a, registeredAt |-> now,
         exists |-> TRUE] \in Identity
    BY <1>1 DEF Identity
  <2> QED BY <2>1 DEF register, RegistryTypeOK
<1>3. addressToName' \in [DmailAddresses -> ValidNames \cup {NoName}]
  BY <1>1 DEF register, ReverseEntry, RegistryTypeOK
<1>4. ownerNames' \in [Wallets -> Seq(ValidNames)]
  <2>1. Append(ownerNames[w], n) \in Seq(ValidNames)
    BY <1>1 DEF RegistryTypeOK
  <2> QED BY <2>1 DEF register, RegistryTypeOK
<1>5. nameOwner' \in [Names -> Wallets \cup {NoWallet}]
  BY DEF register, RegistryTypeOK
<1> QED BY <1>2, <1>3, <1>4, <1>5 DEF register, RegistryTypeOK

(* New keys leave the tables of their kinds.                               *)
LEMMA UpdateKeysType ==
  ASSUME RegistryTypeOK,
         NEW w \in Wallets, NEW n \in ValidNames, NEW k \in Keys,
         updateKeys(w, n, k)
  PROVE  RegistryTypeOK'
<1>1. n \in Names
  BY RegistryAssumption
<1>2. [identities[n] EXCEPT !.keys = k] \in Identity
  BY <1>1 DEF RegistryTypeOK, Identity
<1> QED BY <1>1, <1>2 DEF updateKeys, RegistryTypeOK

(* So does a stamp.                                                        *)
LEMMA StampType ==
  ASSUME RegistryTypeOK,
         NEW w \in Wallets, NEW h \in Hashes, NEW f \in DmailAddresses,
         NEW t \in DmailAddresses, NEW c \in Cids \cup {NoName},
         Stamp(w, h, f, t, c)
  PROVE  RegistryTypeOK'
<1>1. [sender |-> w, senderDmail |-> f, recipientDmail |-> t, ipfsCid |-> c,
       timestamp |-> now] \in MessageProof
  BY DEF RegistryTypeOK, MessageProof
<1> QED BY <1>1 DEF Stamp, RegistryTypeOK

(* And the next block.                                                     *)
LEMMA NextBlockType ==
  ASSUME RegistryTypeOK, NextBlock
  PROVE  RegistryTypeOK'
BY RegistryAssumption DEF RegistryTypeOK, NextBlock

-----------------------------------------------------------------------------
(* What a step of a client does to the contract.                           *)
RegistryStep ==
  \/ \E w \in Wallets, n \in Names, k \in Keys, a \in DmailAddresses :
       register(w, n, k, a)
  \/ \E w \in Wallets, n \in ValidNames, k \in Keys : updateKeys(w, n, k)
  \/ \E w \in Wallets, h \in Hashes, f \in DmailAddresses,
        t \in DmailAddresses, c \in Cids \cup {NoName} : Stamp(w, h, f, t, c)
  \/ NextBlock
  \/ UNCHANGED registryVars

(* Every such step keeps the types of the contract's state.                *)
LEMMA StepType ==
  ASSUME RegistryTypeOK, RegistryStep
  PROVE  RegistryTypeOK'
<1>1. CASE UNCHANGED registryVars
  BY <1>1 DEF registryVars, RegistryTypeOK
<1> QED
  BY <1>1, RegisterType, UpdateKeysType, StampType, NextBlockType
  DEF RegistryStep

Calls == RegisterCall \cup StampCall

(* A call that does not revert is one of the contract's actions.           *)
LEMMA ExecuteStep ==
  ASSUME NEW w \in Wallets, NEW call \in Calls, Execute(w, call)
  PROVE  RegistryStep
<1>1. CASE call.op = "register"
  <2>1. call \in RegisterCall
    BY <1>1 DEF Calls, StampCall
  <2>2. register(w, call.name, call.keys, call.address)
    BY <1>1 DEF Execute
  <2> QED BY <2>1, <2>2 DEF RegisterCall, RegistryStep
<1>2. CASE call.op # "register"
  <2>1. call \in StampCall
    BY <1>2 DEF Calls, RegisterCall
  <2>2. /\ call.envelope.hash \in Hashes
        /\ call.envelope.from \in DmailAddresses
        /\ call.envelope.to \in DmailAddresses
        /\ call.cid \in Cids \cup {NoName}
    BY <2>1, ClientAssumption DEF StampCall
  <2>3. \E c \in Cids \cup {NoName} :
          Stamp(w, call.envelope.hash, call.envelope.from, call.envelope.to, c)
    BY <1>2, <2>2 DEF Execute, timestampMessage, timestampAndStore
  <2> QED BY <2>2, <2>3 DEF RegistryStep
<1> QED BY <1>1, <1>2

(* The first transaction of a queue, and what is left behind it.           *)
LEMMA FirstCall ==
  ASSUME TypeOK, NEW w \in Wallets, mempool[w] # <<>>
  PROVE  /\ Head(mempool[w]) \in Calls
         /\ Tail(mempool[w]) \in Seq(Calls)
<1>1. mempool[w] \in Seq(Calls)
  BY DEF TypeOK, Calls
<1> QED BY <1>1

(* A mined transaction is an action of the contract, or reverts.           *)
LEMMA MineStep ==
  ASSUME TypeOK, NEW w \in Wallets, Mine(w)
  PROVE  RegistryStep
<1>1. Head(mempool[w]) \in Calls
  BY FirstCall DEF Mine
<1>2. CASE Reverts(w, Head(mempool[w]))
  BY <1>2 DEF Mine, RegistryStep
<1>3. CASE ~Reverts(w, Head(mempool[w]))
  <2>1. Execute(w, Head(mempool[w]))
    BY <1>3 DEF Mine
  <2> QED BY <1>1, <2>1, ExecuteStep
<1> QED BY <1>2, <1>3

(* Clients reach the contract through its functions only.                  *)
LEMMA EveryStep ==
  ASSUME TypeOK, [Next]_vars
  PROVE  RegistryStep
<1>1. CASE Registering
  BY <1>1 DEF Registering, registerIdentity, Send, RegistryStep
<1>2. CASE Timestamping
  BY <1>2 DEF Timestamping, timestampEnvelope, timestampAndStoreEnvelope,
              Send, RegistryStep
<1>3. CASE LookingUp
  BY <1>3 DEF LookingUp, LookupName, LookupIdentity, RegistryStep
<1>4. ASSUME NEW w \in Wallets, Mine(w)
      PROVE  RegistryStep
  BY <1>4, MineStep
<1>5. ASSUME NEW w \in Wallets, NEW i \in DOMAIN mempool[w], Killed(w, i)
      PROVE  RegistryStep
  BY <1>5 DEF Killed, RegistryStep
<1>6. CASE Chain
  BY <1>6 DEF Chain, RegistryStep
<1>7. CASE UNCHANGED vars
  BY <1>7 DEF vars, RegistryStep
<1> QED BY <1>1, <1>2, <1>3, <1>4, <1>5, <1>6, <1>7 DEF Next

-----------------------------------------------------------------------------
(* Type correctness of the clients, one lemma per kind of step.            *)
LEMMA SendType ==
  ASSUME TypeOK, NEW w \in Wallets, NEW call \in Calls, Send(w, call)
  PROVE  TypeOK'
<1>1. mempool' \in [Wallets -> Seq(Calls)]
  <2>1. Append(mempool[w], call) \in Seq(Calls)
    BY DEF TypeOK, Calls
  <2> QED BY <2>1 DEF Send, TypeOK, Calls
<1>2. RegistryTypeOK'
  BY DEF Send, TypeOK, registryVars, RegistryTypeOK
<1>3. sent' \in 0..MaxCalls
  BY ClientAssumption DEF Send, TypeOK
<1> QED BY <1>1, <1>2, <1>3 DEF Send, TypeOK, Calls

(* Mining the first transaction of a wallet keeps the types.                *)
LEMMA MineType ==
  ASSUME TypeOK, NEW w \in Wallets, Mine(w)
  PROVE  TypeOK'
<1>1. /\ Head(mempool[w]) \in Calls
      /\ Tail(mempool[w]) \in Seq(Calls)
  BY FirstCall DEF Mine
<1>2. RegistryTypeOK'
  BY MineStep, StepType DEF TypeOK
<1>3. mempool' \in [Wallets -> Seq(Calls)]
  BY <1>1 DEF Mine, TypeOK, Calls
<1>4. \A r \in reports' :
        r.wallet \in Wallets /\ r.call \in Calls
  <2>1. \A r \in reports :
          r.wallet \in Wallets /\ r.call \in Calls
    BY DEF TypeOK, Calls
  <2> QED BY <1>1, <2>1 DEF Mine, Report
<1> QED BY <1>2, <1>3, <1>4 DEF Mine, TypeOK, Calls

(* Killing the process that waits for a transaction keeps the types.        *)
LEMMA KilledType ==
  ASSUME TypeOK, NEW w \in Wallets, NEW i \in DOMAIN mempool[w], Killed(w, i)
  PROVE  TypeOK'
<1>1. mempool[w] \in Seq(Calls) /\ mempool[w][i] \in Calls
  BY DEF TypeOK, Calls
<1>2. [mempool[w][i] EXCEPT !.awaited = FALSE] \in Calls
  BY <1>1 DEF Calls, RegisterCall, StampCall
<1>3. [mempool[w] EXCEPT ![i] = [mempool[w][i] EXCEPT !.awaited = FALSE]]
        \in Seq(Calls)
  BY <1>1, <1>2
<1>4. mempool' \in [Wallets -> Seq(Calls)]
  BY <1>3 DEF Killed, TypeOK, Calls
<1>5. RegistryTypeOK'
  BY DEF Killed, TypeOK, registryVars, RegistryTypeOK
<1> QED BY <1>4, <1>5 DEF Killed, TypeOK, Calls

(* Either read of a lookup keeps the types.                                 *)
LEMMA LookupType ==
  ASSUME TypeOK, LookingUp
  PROVE  TypeOK'
<1>1. RegistryTypeOK'
  BY DEF LookingUp, LookupName, LookupIdentity, TypeOK, registryVars,
         RegistryTypeOK
<1>2. ASSUME NEW a \in DmailAddresses, LookupName(a)
      PROVE  TypeOK'
  <2>1. getName(a) \in ValidNames \cup {NoName}
    BY DEF getName, TypeOK, RegistryTypeOK
  <2> QED BY <1>1, <1>2, <2>1 DEF LookupName, TypeOK
<1>3. CASE LookupIdentity
  <2>1. /\ lookup.address \in DmailAddresses
        /\ lookup.name \in ValidNames /\ lookup.name \in Names
    BY <1>3, RegistryAssumption DEF LookupIdentity, TypeOK
  <2>2. identities[lookup.name].dmailAddress \in DmailAddresses \cup {NoName}
    BY <2>1 DEF TypeOK, RegistryTypeOK, Identity
  <2> QED BY <1>1, <1>3, <2>1, <2>2 DEF LookupIdentity, TypeOK
<1> QED BY <1>2, <1>3 DEF LookingUp

(* The types hold at the start.                                             *)
LEMMA TypeInit == Init => TypeOK
<1> SUFFICES ASSUME Init
             PROVE  TypeOK
  OBVIOUS
<1>1. RegistryTypeOK
  <2>1. NoIdentity \in Identity /\ NoProof \in MessageProof
    BY DEF NoIdentity, Identity, NoProof, MessageProof
  <2> QED BY <2>1, RegistryAssumption DEF Init, RegistryInit, RegistryTypeOK
<1> QED BY <1>1, ClientAssumption DEF Init, TypeOK

(* Every step keeps the types.                                              *)
LEMMA TypeNext == TypeOK /\ [Next]_vars => TypeOK'
<1> SUFFICES ASSUME TypeOK, [Next]_vars
             PROVE  TypeOK'
  OBVIOUS
<1>1. CASE Registering
  <2> SUFFICES ASSUME NEW w \in Wallets, NEW n \in Names, NEW k \in Keys,
                      NEW a \in DmailAddresses, registerIdentity(w, n, k, a)
               PROVE  TypeOK'
    BY <1>1 DEF Registering
  <2>1. [op |-> "register", name |-> n, keys |-> k, address |-> a,
         awaited |-> TRUE] \in Calls
    BY DEF Calls, RegisterCall
  <2> QED BY <2>1, SendType DEF registerIdentity
<1>2. CASE Timestamping
  <2> SUFFICES ASSUME NEW w \in Wallets, NEW e \in Envelopes,
                      NEW c \in Cids \cup {NoName},
                      Send(w, [op |-> "stamp", envelope |-> e, cid |-> c,
                               awaited |-> TRUE])
               PROVE  TypeOK'
    BY <1>2 DEF Timestamping, timestampEnvelope, timestampAndStoreEnvelope
  <2>1. [op |-> "stamp", envelope |-> e, cid |-> c, awaited |-> TRUE] \in Calls
    BY DEF Calls, StampCall
  <2> QED BY <2>1, SendType
<1>3. CASE LookingUp
  BY <1>3, LookupType
<1>4. ASSUME NEW w \in Wallets, Mine(w)
      PROVE  TypeOK'
  BY <1>4, MineType
<1>5. ASSUME NEW w \in Wallets, NEW i \in DOMAIN mempool[w], Killed(w, i)
      PROVE  TypeOK'
  BY <1>5, KilledType
<1>6. CASE Chain /\ UNCHANGED clientVars
  <2>1. RegistryTypeOK'
    BY EveryStep, StepType DEF TypeOK
  <2> QED BY <1>6, <2>1 DEF clientVars, TypeOK
<1>7. CASE UNCHANGED vars
  BY <1>7 DEF vars, registryVars, clientVars, TypeOK, RegistryTypeOK
<1> QED BY <1>1, <1>2, <1>3, <1>4, <1>5, <1>6, <1>7 DEF Next

(* The state of the contract and of its clients keeps its types, for any   *)
(* number of wallets, names and calls.                                     *)
THEOREM TypeCorrect == Spec => []TypeOK
BY TypeInit, TypeNext, PTL DEF Spec

-----------------------------------------------------------------------------
(* A name that exists keeps its owner and its address, and a message that   *)
(* has a proof keeps it, in every step of the contract.                     *)
LEMMA NameKept ==
  ASSUME RegistryTypeOK, RegistryStep, NEW n \in Names, identities[n].exists
  PROVE  /\ identities'[n].exists
         /\ identities'[n].dmailAddress = identities[n].dmailAddress
         /\ nameOwner'[n] = nameOwner[n]
<1>1. ASSUME NEW w \in Wallets, NEW m \in Names, NEW k \in Keys,
             NEW a \in DmailAddresses, register(w, m, k, a)
      PROVE  /\ identities'[n] = identities[n]
             /\ nameOwner'[n] = nameOwner[n]
  <2>1. m # n
    BY <1>1 DEF register, NameFree
  <2> QED BY <1>1, <2>1 DEF register, RegistryTypeOK
<1>2. ASSUME NEW w \in Wallets, NEW m \in ValidNames, NEW k \in Keys,
             updateKeys(w, m, k)
      PROVE  /\ identities'[n].exists
             /\ identities'[n].dmailAddress = identities[n].dmailAddress
             /\ nameOwner'[n] = nameOwner[n]
  <2>1. identities[n] \in Identity
    BY DEF RegistryTypeOK
  <2> QED BY <1>2, <2>1 DEF updateKeys, RegistryTypeOK, Identity
<1> QED
  BY <1>1, <1>2 DEF RegistryStep, Stamp, NextBlock, registryVars

(* The same for the proof of a message.                                     *)
LEMMA ProofKept ==
  ASSUME RegistryTypeOK, RegistryStep, NEW h \in Hashes,
         messageProofs[h].timestamp # 0
  PROVE  messageProofs'[h] = messageProofs[h]
<1>1. ASSUME NEW w \in Wallets, NEW g \in Hashes, NEW f \in DmailAddresses,
             NEW t \in DmailAddresses, NEW c \in Cids \cup {NoName},
             Stamp(w, g, f, t, c)
      PROVE  messageProofs'[h] = messageProofs[h]
  BY <1>1 DEF Stamp, StampFree, RegistryTypeOK
<1> QED
  BY <1>1 DEF RegistryStep, register, updateKeys, NextBlock, registryVars

(* A step of the contract keeps the reverse lookups true.                   *)
LEMMA ReverseStep ==
  ASSUME RegistryTypeOK, ReverseAgrees, RegistryStep
  PROVE  ReverseAgrees'
<1> SUFFICES ASSUME NEW a \in DmailAddresses, addressToName'[a] # NoName
             PROVE  /\ identities'[addressToName'[a]].exists
                    /\ identities'[addressToName'[a]].dmailAddress = a
  BY DEF ReverseAgrees
<1>1. CASE addressToName'[a] = addressToName[a]
  <2>1. addressToName[a] \in Names
    BY <1>1, RegistryAssumption DEF RegistryTypeOK
  <2>2. /\ identities[addressToName[a]].exists
        /\ identities[addressToName[a]].dmailAddress = a
    BY <1>1 DEF ReverseAgrees
  <2> QED BY <1>1, <2>1, <2>2, NameKept
<1>2. CASE addressToName'[a] # addressToName[a]
  <2>1. PICK w \in Wallets, n \in Names, k \in Keys, b \in DmailAddresses :
          register(w, n, k, b)
    BY <1>2
    DEF RegistryStep, updateKeys, Stamp, NextBlock, registryVars
  <2>2. b = a /\ addressToName'[a] = n
    BY <1>2, <2>1 DEF register, ReverseEntry, RegistryTypeOK
  <2>3. identities'[n].exists /\ identities'[n].dmailAddress = b
    BY <2>1 DEF register, RegistryTypeOK
  <2> QED BY <2>2, <2>3
<1> QED BY <1>1, <1>2

-----------------------------------------------------------------------------
(* The lookup in progress has read a name registered for the address it is  *)
(* about: what makes its second read safe.                                  *)
LookupSound ==
  lookup # NoLookup =>
    /\ identities[lookup.name].exists
    /\ identities[lookup.name].dmailAddress = lookup.address

(* A step that leaves the lookup alone keeps it sound: names do not change. *)
LEMMA LookupKept ==
  ASSUME TypeOK, RegistryStep, LookupSound, UNCHANGED lookup
  PROVE  LookupSound'
<1> SUFFICES ASSUME lookup # NoLookup
             PROVE  /\ identities'[lookup.name].exists
                    /\ identities'[lookup.name].dmailAddress = lookup.address
  BY DEF LookupSound
<1>1. lookup.name \in Names
  BY RegistryAssumption DEF TypeOK
<1> QED BY <1>1, NameKept DEF LookupSound, TypeOK

(* The first read finds a name registered for the address, the second one   *)
(* answers with what that name still holds.                                 *)
LEMMA LookupStep ==
  ASSUME TypeOK, ReverseAgrees, LookupSound, LookupAgrees, [Next]_vars
  PROVE  LookupSound' /\ LookupAgrees'
<1>1. RegistryStep
  BY EveryStep
<1>2. CASE LookingUp
  <2>1. ASSUME NEW a \in DmailAddresses, LookupName(a)
        PROVE  LookupSound' /\ LookupAgrees'
    <3>1. CASE getName(a) = NoName
      BY <2>1, <3>1, <1>1, LookupKept DEF LookupName, LookupAgrees
    <3>2. CASE getName(a) # NoName
      <4>1. /\ lookup' = [address |-> a, name |-> addressToName[a]]
            /\ UNCHANGED <<identities, answer>>
        BY <2>1, <3>2 DEF LookupName, getName, registryVars
      <4>2. /\ identities[addressToName[a]].exists
            /\ identities[addressToName[a]].dmailAddress = a
        BY <3>2 DEF ReverseAgrees, getName
      <4> QED BY <4>1, <4>2 DEF LookupSound, LookupAgrees
    <3> QED BY <3>1, <3>2
  <2>2. CASE LookupIdentity
    BY <2>2 DEF LookupIdentity, LookupSound, LookupAgrees
  <2> QED BY <1>2, <2>1, <2>2 DEF LookingUp
<1>3. CASE UNCHANGED <<lookup, answer>>
  BY <1>1, <1>3, LookupKept DEF LookupAgrees
<1> QED
  BY <1>2, <1>3
  DEF Next, Registering, Timestamping, registerIdentity, timestampEnvelope,
      timestampAndStoreEnvelope, Send, Mine, Killed, Chain, clientVars, vars

-----------------------------------------------------------------------------
(* What is true of one report.                                              *)
ReportTrue(r) ==
  IF r.call.op = "register"
  THEN /\ identities[r.call.name].exists
       /\ nameOwner[r.call.name] = r.wallet
       /\ identities[r.call.name].dmailAddress = r.call.address
  ELSE ProofOf(r.wallet, r.call)

(* A true report stays true.                                                *)
LEMMA ReportKept ==
  ASSUME RegistryTypeOK, RegistryStep,
         NEW r, r.call \in Calls, ReportTrue(r)
  PROVE  ReportTrue(r)'
<1>1. CASE r.call.op = "register"
  <2>1. r.call.name \in Names
    BY <1>1 DEF Calls, RegisterCall, StampCall
  <2> QED BY <1>1, <2>1, NameKept DEF ReportTrue
<1>2. CASE r.call.op # "register"
  <2>1. r.call.envelope.hash \in Hashes
    BY <1>2, ClientAssumption DEF Calls, RegisterCall, StampCall
  <2>2. messageProofs[r.call.envelope.hash].timestamp # 0
    BY <1>2 DEF ReportTrue, ProofOf
  <2> QED BY <1>2, <2>1, <2>2, ProofKept DEF ReportTrue, ProofOf
<1> QED BY <1>1, <1>2

(* What a client reports of its own transaction is true when it is mined.   *)
LEMMA ReportBecomes ==
  ASSUME RegistryTypeOK, NEW w \in Wallets, NEW call \in Calls,
         ~Reverts(w, call), Execute(w, call)
  PROVE  ReportTrue([wallet |-> w, call |-> call])'
<1>1. CASE call.op = "register"
  <2>1. call \in RegisterCall
    BY <1>1 DEF Calls, StampCall
  <2>2. register(w, call.name, call.keys, call.address)
    BY <1>1 DEF Execute
  <2>3. /\ identities'[call.name].exists
        /\ identities'[call.name].dmailAddress = call.address
        /\ nameOwner'[call.name] = w
    BY <2>1, <2>2 DEF register, RegistryTypeOK, RegisterCall
  <2> QED BY <1>1, <2>3 DEF ReportTrue
<1>2. CASE call.op # "register"
  <2>1. call \in StampCall
    BY <1>2 DEF Calls, RegisterCall
  <2>2. call.envelope.hash \in Hashes
    BY <2>1, ClientAssumption DEF StampCall
  <2>3. Stamp(w, call.envelope.hash, call.envelope.from, call.envelope.to,
              call.cid)
    BY <1>2 DEF Execute, timestampMessage, timestampAndStore
  <2>4. messageProofs'[call.envelope.hash] =
          [sender |-> w, senderDmail |-> call.envelope.from,
           recipientDmail |-> call.envelope.to, ipfsCid |-> call.cid,
           timestamp |-> now]
    BY <2>2, <2>3 DEF Stamp, RegistryTypeOK
  <2>5. now # 0
    BY RegistryAssumption DEF RegistryTypeOK
  <2> QED BY <1>2, <2>4, <2>5 DEF ReportTrue, ProofOf
<1> QED BY <1>1, <1>2

(* Reports true of what is in the contract, in every step.                  *)
LEMMA ReportStep ==
  ASSUME TypeOK, \A r \in reports : ReportTrue(r), [Next]_vars
  PROVE  (\A r \in reports : ReportTrue(r))'
<1>1. RegistryStep
  BY EveryStep
<1>2. \A r \in reports : ReportTrue(r)'
  BY <1>1, ReportKept DEF TypeOK, Calls
<1>3. ASSUME NEW w \in Wallets, Mine(w)
      PROVE  (\A r \in reports : ReportTrue(r))'
  <2>1. PICK call \in Calls : call = Head(mempool[w])
    BY <1>3, FirstCall DEF Mine
  <2>2. CASE reports' = reports
    BY <1>2, <2>2
  <2>3. CASE reports' # reports
    <3>1. /\ reports' = reports \cup
               {[wallet |-> w, call |-> call]}
          /\ ~Reverts(w, call)
      BY <1>3, <2>1, <2>3 DEF Mine, Report
    <3>2. Execute(w, call)
      BY <1>3, <2>1, <3>1 DEF Mine
    <3>3. ReportTrue([wallet |-> w, call |-> call])'
      BY <3>1, <3>2, ReportBecomes DEF TypeOK
    <3> QED BY <1>2, <3>1, <3>3
  <2> QED BY <2>2, <2>3
<1>4. CASE UNCHANGED reports
  BY <1>2, <1>4
<1> QED
  BY <1>3, <1>4
  DEF Next, Registering, Timestamping, LookingUp, registerIdentity,
      timestampEnvelope, timestampAndStoreEnvelope, Send, Killed, LookupName,
      LookupIdentity, Chain, clientVars, vars

-----------------------------------------------------------------------------
(* The inductive invariant: with the types, that the lookup in progress is  *)
(* sound and that a reported name exists are what the three properties need. *)
Safe ==
  /\ TypeOK
  /\ ReverseAgrees
  /\ LookupSound
  /\ LookupAgrees
  /\ \A r \in reports : ReportTrue(r)

(* It holds at the start: nothing is registered, looked up or reported.     *)
LEMMA SafeInit == Init => Safe
<1> SUFFICES ASSUME Init
             PROVE  Safe
  OBVIOUS
<1> QED
  BY TypeInit
  DEF Init, RegistryInit, Safe, ReverseAgrees, LookupSound, LookupAgrees

(* Every step keeps it.                                                     *)
LEMMA SafeNext == Safe /\ [Next]_vars => Safe'
<1> SUFFICES ASSUME Safe, [Next]_vars
             PROVE  Safe'
  OBVIOUS
<1>1. RegistryStep
  BY EveryStep DEF Safe
<1>2. TypeOK'
  BY TypeNext DEF Safe
<1>3. ReverseAgrees'
  BY <1>1, ReverseStep DEF Safe, TypeOK
<1>4. LookupSound' /\ LookupAgrees'
  BY LookupStep DEF Safe
<1>5. (\A r \in reports : ReportTrue(r))'
  BY ReportStep DEF Safe
<1> QED BY <1>2, <1>3, <1>4, <1>5 DEF Safe

(* The invariant gives the property of the reports.                         *)
LEMMA SafeReports == Safe => ReportsTrue
BY DEF Safe, ReportsTrue, ReportTrue

(* The reverse lookup of an address always leads to a name of that address, *)
(* for any number of wallets registering names for any addresses.           *)
THEOREM ReverseAlwaysAgrees == Spec => []ReverseAgrees
<1>1. Safe => ReverseAgrees
  BY DEF Safe
<1> QED BY SafeInit, SafeNext, <1>1, PTL DEF Spec

(* A lookup by address never answers with another identity, however many    *)
(* registrations are mined between its two reads.                           *)
THEOREM LookupsAgree == Spec => []LookupAgrees
<1>1. Safe => LookupAgrees
  BY DEF Safe
<1> QED BY SafeInit, SafeNext, <1>1, PTL DEF Spec

(* What a client reported as registered or stamped stays true, to the       *)
(* addresses and the stored content of its own call, whatever is mined.     *)
THEOREM ReportsStayTrue == Spec => []ReportsTrue
BY SafeInit, SafeNext, SafeReports, PTL DEF Spec

-----------------------------------------------------------------------------
(* The two books start empty.                                               *)
LEMMA BooksInit ==
  ASSUME Init
  PROVE  NameBook!Init /\ ProofBook!Init
<1>1. Registered = {} /\ Stamped = {}
  BY DEF Init, RegistryInit, Registered, Stamped, NoIdentity, NoProof
<1> QED BY <1>1 DEF NameBook!Init, ProofBook!Init

(* A registration writes one entry of the book of names; no other call      *)
(* changes it, an update of the keys included.                              *)
LEMMA NameBookStep ==
  ASSUME RegistryTypeOK, RegistryStep
  PROVE  [NameBook!Next]_([n \in Registered |->
           <<nameOwner[n], identities[n].dmailAddress>>])
<1> DEFINE entry(n) == <<nameOwner[n], identities[n].dmailAddress>>
           book == [n \in Registered |-> entry(n)]
<1>1. \A n \in Registered : n \in Registered' /\ entry(n)' = entry(n)
  BY NameKept DEF Registered
<1>2. CASE Registered' = Registered
  BY <1>1, <1>2
<1>3. CASE Registered' # Registered
  <2>1. PICK w \in Wallets, n \in Names, k \in Keys, a \in DmailAddresses :
          register(w, n, k, a)
    <3>1. ASSUME NEW w \in Wallets, NEW m \in ValidNames, NEW k \in Keys,
                 updateKeys(w, m, k)
          PROVE  Registered' = Registered
      <4>1. \A n \in Names : identities[n] \in Identity
        BY DEF RegistryTypeOK
      <4> QED BY <3>1, <4>1 DEF updateKeys, Registered, RegistryTypeOK, Identity
    <3> QED
      BY <1>3, <3>1 DEF RegistryStep, Stamp, NextBlock, registryVars, Registered
  <2>2. n \in ValidNames /\ n \notin Registered /\ a \in Dm1Addresses
    BY <2>1 DEF register, NameFree, Registered
  <2>3. Registered' = Registered \cup {n}
    BY <2>1 DEF register, Registered, RegistryTypeOK
  <2>4. entry(n)' = <<w, a>>
    BY <2>1 DEF register, RegistryTypeOK
  <2>5. NameBook!Write(n)
    BY <1>1, <2>2, <2>3, <2>4 DEF NameBook!Write
  <2> QED BY <2>2, <2>5 DEF NameBook!Next
<1> QED BY <1>2, <1>3

(* A stamp writes one entry of the book of proofs; no other call changes it. *)
LEMMA ProofBookStep ==
  ASSUME RegistryTypeOK, RegistryStep
  PROVE  [ProofBook!Next]_([h \in Stamped |-> messageProofs[h]])
<1>1. \A h \in Stamped : h \in Stamped' /\ messageProofs'[h] = messageProofs[h]
  BY ProofKept DEF Stamped
<1>2. CASE Stamped' = Stamped
  BY <1>1, <1>2
<1>3. CASE Stamped' # Stamped
  <2>1. PICK w \in Wallets, h \in Hashes, f \in DmailAddresses,
             t \in DmailAddresses, c \in Cids \cup {NoName} :
          Stamp(w, h, f, t, c)
    BY <1>3
    DEF RegistryStep, register, updateKeys, NextBlock, registryVars, Stamped
  <2>2. h \notin Stamped
    BY <2>1 DEF Stamp, StampFree, Stamped
  <2>3. /\ messageProofs'[h] \in MessageProof
        /\ messageProofs'[h].timestamp = now
    <3>1. messageProofs' \in [Hashes -> MessageProof]
      BY <2>1, StampType DEF RegistryTypeOK
    <3> QED BY <2>1, <3>1 DEF Stamp, RegistryTypeOK
  <2>4. now # 0
    BY RegistryAssumption DEF RegistryTypeOK
  <2>5. Stamped' = Stamped \cup {h}
    BY <2>1, <2>3, <2>4 DEF Stamp, Stamped, RegistryTypeOK
  <2>6. ProofBook!Write(h)
    BY <1>1, <2>2, <2>3, <2>5 DEF ProofBook!Write
  <2> QED BY <2>6 DEF ProofBook!Next
<1> QED BY <1>2, <1>3

(* The registry implements two books whose entries are written once and     *)
(* never change: registrations and stamps are never lost, replaced or moved. *)
THEOREM RegistryImplementsBooks == Spec => BooksWrittenOnce
<1>1. TypeOK /\ [Next]_vars =>
        [NameBook!Next]_([n \in Registered |->
          <<nameOwner[n], identities[n].dmailAddress>>])
  BY EveryStep, NameBookStep DEF TypeOK
<1>2. TypeOK /\ [Next]_vars =>
        [ProofBook!Next]_([h \in Stamped |-> messageProofs[h]])
  BY EveryStep, ProofBookStep DEF TypeOK
<1>3. Init => NameBook!Init /\ ProofBook!Init
  BY BooksInit
<1> QED
  BY <1>1, <1>2, <1>3, TypeCorrect, PTL
  DEF Spec, BooksWrittenOnce, NameBook!Spec, ProofBook!Spec
=============================================================================
