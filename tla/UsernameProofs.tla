---------------------------- MODULE UsernameProofs ----------------------------
(***************************************************************************)
(* Proofs about UsernameRegistry, for any users, names and number of       *)
(* registrations handled at once.                                          *)
(***************************************************************************)
EXTENDS UsernameRegistry, TLAPS

Pending == [step : {"user", "dmail", "wallet"}, record : Records]

(* The record of a request that is busy.                                   *)
LEMMA BusyRequest ==
  ASSUME TypeOK, NEW q \in Requests, requests[q].step # "idle"
  PROVE  requests[q] \in Pending
BY DEF TypeOK, Idle, Pending

(* What a request registers for an identity is a record.                   *)
LEMMA CheckedRecord ==
  ASSUME NEW id \in Identities, NEW s \in Spellings
  PROVE  [username |-> Lower[s], dmail |-> id.dmail, wallet |-> id.wallet]
           \in Records
BY DEF Records, Names, Addresses, Wallets

(* A put stores the record of its request.                                 *)
LEMMA WriteType ==
  ASSUME TypeOK, NEW q \in Requests, Write(q)
  PROVE  TypeOK'
<1>1. requests[q] \in Pending
  BY BusyRequest DEF Write, PutUser, PutDmail, PutWallet, At
<1>2. /\ requests[q].record \in Records
      /\ requests[q].record.username \in Names
      /\ requests[q].record.dmail \in Addresses
      /\ requests[q].record.wallet \in Wallets
  BY <1>1 DEF Pending, Records
<1>3. CASE PutUser(q)
  <2>1. [requests[q] EXCEPT !.step = "dmail"] \in Pending
    BY <1>1 DEF Pending
  <2> QED BY <1>2, <1>3, <2>1 DEF PutUser, Advance, TypeOK, Pending
<1>4. CASE PutDmail(q)
  <2>1. [requests[q] EXCEPT !.step = "wallet"] \in Pending
    BY <1>1 DEF Pending
  <2> QED BY <1>2, <1>4, <2>1 DEF PutDmail, Advance, TypeOK, Pending
<1>5. CASE PutWallet(q)
  BY <1>2, <1>5 DEF PutWallet, TypeOK
<1> QED BY <1>3, <1>4, <1>5 DEF Write

(* Every step keeps the types.                                             *)
LEMMA TypeNext == TypeOK /\ [Next]_vars => TypeOK'
<1> SUFFICES ASSUME TypeOK, [Next]_vars
             PROVE  TypeOK'
  OBVIOUS
<1>1. ASSUME NEW q \in Requests, NEW id \in Identities, NEW s \in Spellings,
             NEW w \in Wallets, Check(q, id, s, w)
      PROVE  TypeOK'
  <2>1. Lower[s] \in Names
    BY DEF Names
  <2>2. [step |-> "user",
         record |-> [username |-> Lower[s], dmail |-> id.dmail,
                     wallet |-> id.wallet]] \in Pending
    BY CheckedRecord DEF Pending
  <2>3. requests' \in [Requests -> {Idle} \cup Pending]
    BY <1>1, <2>2 DEF Check, TypeOK, Pending
  <2>4. raced' \subseteq Names
    BY <1>1, <2>1 DEF Check, TypeOK
  <2> QED BY <1>1, <2>3, <2>4 DEF Check, tables, TypeOK, Pending
<1>2. CASE Crash
  BY <1>2 DEF Crash, tables, TypeOK
<1>3. CASE UNCHANGED vars
  BY <1>3 DEF vars, TypeOK
<1> QED BY <1>1, <1>2, <1>3, WriteType DEF Next

-----------------------------------------------------------------------------
(* What a request in progress has put so far.                              *)
PutSoFar ==
  \A q \in Requests :
    LET r == requests[q].record
    IN  /\ requests[q].step \in {"dmail", "wallet"} => users[r.username] # None
        /\ requests[q].step = "wallet" => dmails[r.dmail] # None

BackedInv == TypeOK /\ PutSoFar /\ ReverseBacked

(* No put takes a record away, so what was put before stays backed.        *)
LEMMA TablesGrow ==
  ASSUME TypeOK, [Next]_vars
  PROVE  /\ \A n \in Names : users[n] # None => users'[n] # None
         /\ \A d \in Addresses : dmails[d] # None => dmails'[d] # None
<1>1. ASSUME NEW q \in Requests, Write(q)
      PROVE  /\ \A n \in Names : users[n] # None => users'[n] # None
             /\ \A d \in Addresses : dmails[d] # None => dmails'[d] # None
  <2>1. requests[q].record \in Records
    BY <1>1, BusyRequest
    DEF Write, PutUser, PutDmail, PutWallet, At, Pending
  <2> QED
    BY <1>1, <2>1, RecordAssumption
    DEF Write, PutUser, PutDmail, PutWallet, TypeOK
<1> QED BY <1>1 DEF Next, Check, Crash, tables, vars

(* A request has put what its step says.                                   *)
LEMMA PutSoFarStep ==
  ASSUME BackedInv, [Next]_vars
  PROVE  PutSoFar'
<1> SUFFICES ASSUME NEW q \in Requests
             PROVE  /\ requests'[q].step \in {"dmail", "wallet"}
                         => users'[requests'[q].record.username] # None
                    /\ requests'[q].step = "wallet"
                         => dmails'[requests'[q].record.dmail] # None
  BY DEF PutSoFar
<1>1. TypeOK
  BY DEF BackedInv
<1>2. CASE requests'[q] = requests[q]
  <2>1. CASE requests[q].step = "idle"
    BY <1>2, <2>1
  <2>2. CASE requests[q].step # "idle"
    <3>1. /\ requests[q].record.username \in Names
          /\ requests[q].record.dmail \in Addresses
      BY <1>1, <2>2, BusyRequest DEF Pending, Records
    <3> QED BY <1>1, <1>2, <3>1, TablesGrow DEF BackedInv, PutSoFar
  <2> QED BY <2>1, <2>2
<1>3. CASE Write(q)
  <2>1. /\ requests[q].record \in Records
        /\ requests[q].record.username \in Names
        /\ requests[q].record.dmail \in Addresses
    BY <1>1, <1>3, BusyRequest
    DEF Write, PutUser, PutDmail, PutWallet, At, Pending, Records
  <2>2. CASE PutUser(q)
    BY <1>1, <2>1, <2>2, RecordAssumption DEF PutUser, Advance, TypeOK
  <2>3. CASE PutDmail(q)
    BY <1>1, <2>1, <2>3, RecordAssumption
    DEF PutDmail, Advance, At, TypeOK, BackedInv, PutSoFar
  <2>4. CASE PutWallet(q)
    BY <1>1, <2>4 DEF PutWallet, Idle, TypeOK
  <2> QED BY <1>3, <2>2, <2>3, <2>4 DEF Write
<1>4. CASE requests'[q].step \in {"idle", "user"}
  BY <1>4
<1>5. ASSUME NEW p \in Requests, NEW id \in Identities, NEW s \in Spellings,
             NEW w \in Wallets, Check(p, id, s, w)
      PROVE  requests'[q] = requests[q] \/ requests'[q].step = "user"
  BY <1>1, <1>5 DEF Check, TypeOK
<1>6. ASSUME NEW p \in Requests, Write(p), p # q
      PROVE  requests'[q] = requests[q]
  BY <1>1, <1>6 DEF Write, PutUser, PutDmail, PutWallet, Advance, TypeOK
<1>7. CASE Crash
  BY <1>4, <1>7 DEF Crash, Idle
<1>8. CASE UNCHANGED vars
  BY <1>2, <1>8 DEF vars
<1> QED
  BY <1>2, <1>3, <1>4, <1>5, <1>6, <1>7, <1>8 DEF Next

(* A reverse record is put when the records it refers to are there.        *)
LEMMA BackedStep ==
  ASSUME BackedInv, [Next]_vars
  PROVE  ReverseBacked'
<1>1. TypeOK
  BY DEF BackedInv
<1>2. CASE UNCHANGED <<dmails, wallets>>
  <2>1. \A d \in Addresses : dmails[d] # None => dmails[d].username \in Names
    BY <1>1 DEF TypeOK, Records
  <2>2. \A w \in Wallets : wallets[w] # None =>
          wallets[w].username \in Names /\ wallets[w].dmail \in Addresses
    BY <1>1 DEF TypeOK, Records
  <2> QED
    BY <1>1, <1>2, <2>1, <2>2, TablesGrow DEF BackedInv, ReverseBacked
<1>3. ASSUME NEW q \in Requests, PutDmail(q) \/ PutWallet(q)
      PROVE  ReverseBacked'
  <2> DEFINE r == requests[q].record
  <2>1. /\ r \in Records /\ r.username \in Names
        /\ r.dmail \in Addresses /\ r.wallet \in Wallets
    BY <1>1, <1>3, BusyRequest DEF PutDmail, PutWallet, At, Pending, Records
  <2>2. users' = users /\ users[r.username] # None
    BY <1>3 DEF PutDmail, PutWallet, At, BackedInv, PutSoFar
  <2>3. CASE PutDmail(q)
    <3>1. /\ dmails' = [dmails EXCEPT ![r.dmail] = r]
          /\ wallets' = wallets
      BY <2>3 DEF PutDmail
    <3>2. \A d \in Addresses :
            dmails'[d] = dmails[d] \/ dmails'[d] = r
      BY <1>1, <3>1 DEF TypeOK
    <3>3. \A d \in Addresses :
            dmails'[d] # None => users'[dmails'[d].username] # None
      BY <2>2, <3>2 DEF BackedInv, ReverseBacked
    <3>4. \A w \in Wallets : wallets[w] # None => wallets[w].dmail \in Addresses
      BY <1>1 DEF TypeOK, Records
    <3> QED
      BY <1>1, <2>2, <3>1, <3>3, <3>4, TablesGrow
      DEF BackedInv, ReverseBacked
  <2>4. CASE PutWallet(q)
    <3>1. /\ wallets' = [wallets EXCEPT ![r.wallet] = r]
          /\ dmails' = dmails /\ dmails[r.dmail] # None
      BY <2>4 DEF PutWallet, At, BackedInv, PutSoFar
    <3>2. \A w \in Wallets : wallets'[w] = wallets[w] \/ wallets'[w] = r
      BY <1>1, <3>1 DEF TypeOK
    <3> QED BY <2>2, <3>1, <3>2 DEF BackedInv, ReverseBacked
  <2> QED BY <1>3, <2>3, <2>4
<1> QED
  BY <1>2, <1>3 DEF Next, vars, tables, Check, Crash, Write, PutUser

(* Nothing is registered at the start.                                     *)
LEMMA BackedInit == Init => BackedInv
BY DEF Init, BackedInv, TypeOK, PutSoFar, ReverseBacked, Idle

(* No address and no wallet carries a name that is still free, however      *)
(* registrations race and wherever the process dies: the order of the three *)
(* puts is what makes it so.                                                *)
THEOREM ReverseAlwaysBacked == Spec => []ReverseBacked
<1>1. BackedInv /\ [Next]_vars => BackedInv'
  BY TypeNext, PutSoFarStep, BackedStep DEF BackedInv
<1>2. BackedInv => ReverseBacked
  BY DEF BackedInv
<1> QED BY <1>1, <1>2, BackedInit, PTL DEF Spec

-----------------------------------------------------------------------------
(* A taken name nobody is busy with stays as it is: a later request finds  *)
(* it taken.                                                               *)
LEMMA SettledStep ==
  ASSUME TypeOK, [Next]_vars, NEW n \in Names, NEW r \in Records,
         users[n] = r, ~Busy(n)
  PROVE  users'[n] = r /\ ~Busy(n)'
<1>1. ASSUME NEW q \in Requests, NEW id \in Identities, NEW s \in Spellings,
             NEW w \in Wallets, Check(q, id, s, w)
      PROVE  users'[n] = r /\ ~Busy(n)'
  <2>1. Lower[s] # n
    BY <1>1, RecordAssumption DEF Check, isAvailable, Taken, getByUsername
  <2> QED BY <1>1, <2>1 DEF Check, tables, Busy, TypeOK
<1>2. ASSUME NEW q \in Requests, Write(q)
      PROVE  users'[n] = r /\ ~Busy(n)'
  <2>1. requests[q] \in Pending /\ requests[q].step # "idle"
    BY <1>2, BusyRequest DEF Write, PutUser, PutDmail, PutWallet, At
  <2>2. requests[q].record.username # n
    BY <2>1 DEF Busy
  <2>3. users'[n] = r
    BY <1>2, <2>2 DEF Write, PutUser, PutDmail, PutWallet, TypeOK
  <2>4. \A p \in Requests :
          requests'[p].step # "idle"
            => /\ requests[p].step # "idle"
               /\ requests'[p].record = requests[p].record
    <3>1. /\ \/ requests' = [requests EXCEPT ![q].step = "dmail"]
             \/ requests' = [requests EXCEPT ![q].step = "wallet"]
             \/ requests' = [requests EXCEPT ![q] = Idle]
      BY <1>2 DEF Write, PutUser, PutDmail, PutWallet, Advance
    <3>2. CASE requests' = [requests EXCEPT ![q].step = "dmail"]
      BY <2>1, <3>2 DEF TypeOK, Pending
    <3>3. CASE requests' = [requests EXCEPT ![q].step = "wallet"]
      BY <2>1, <3>3 DEF TypeOK, Pending
    <3>4. CASE requests' = [requests EXCEPT ![q] = Idle]
      BY <3>4 DEF TypeOK, Idle
    <3> QED BY <3>1, <3>2, <3>3, <3>4
  <2> QED BY <2>3, <2>4 DEF Busy
<1>3. CASE Crash
  BY <1>3 DEF Crash, tables, Busy, Idle
<1>4. CASE UNCHANGED vars
  BY <1>4 DEF vars, Busy
<1> QED BY <1>1, <1>2, <1>3, <1>4 DEF Next

(* The types hold at the start.                                            *)
LEMMA TypeInit == Init => TypeOK
BY BackedInit DEF BackedInv

(* Only registrations of one name that overlap can overwrite each other:    *)
(* a name that is taken when nobody is busy with it is final.               *)
THEOREM SettledNamesKept == Spec => SettledKept
<1> SUFFICES ASSUME NEW n \in Names, NEW r \in Records
             PROVE  Spec => [](users[n] = r /\ ~Busy(n) => [](users[n] = r))
  BY DEF SettledKept
<1> DEFINE Settled == users[n] = r /\ ~Busy(n)
<1>1. TypeOK /\ [Next]_vars /\ Settled => Settled'
  BY SettledStep
<1>2. Settled => users[n] = r
  OBVIOUS
<1> HIDE DEF Settled
<1>3. Spec => []TypeOK
  BY TypeInit, TypeNext, PTL DEF Spec
<1>4. Spec => [](Settled => []Settled)
  BY <1>1, <1>3, PTL DEF Spec
<1>5. Spec => [](Settled => [](users[n] = r))
  BY <1>2, <1>4, PTL
<1> QED BY <1>5 DEF Settled

-----------------------------------------------------------------------------
(* A name that no two requests were busy with at once: at most one is now,  *)
(* it has put its own record or none, and the address that carries the name *)
(* is the one the name is registered for.                                   *)
Alone ==
  \A p, q \in Requests :
    (/\ p # q
     /\ requests[p].step # "idle" /\ requests[q].step # "idle"
     /\ requests[p].record.username = requests[q].record.username)
    => requests[p].record.username \in raced

OwnRecord ==
  \A q \in Requests :
    requests[q].step # "idle" /\ requests[q].record.username \notin raced =>
      users[requests[q].record.username] =
        IF requests[q].step = "user" THEN None ELSE requests[q].record

DmailsAgree ==
  \A d \in Addresses : dmails[d] # None =>
    /\ dmails[d].dmail = d
    /\ dmails[d].username \notin raced
         => users[dmails[d].username] = dmails[d]

AgreeInv == BackedInv /\ Alone /\ OwnRecord /\ DmailsAgree

(* A request that begins finds its name free; if another is busy with it    *)
(* the name has been raced for.                                             *)
LEMMA AgreeCheck ==
  ASSUME AgreeInv, NEW q \in Requests, NEW id \in Identities,
         NEW s \in Spellings, NEW w \in Wallets, Check(q, id, s, w)
  PROVE  Alone' /\ OwnRecord' /\ DmailsAgree'
<1> DEFINE n == Lower[s]
           r == [username |-> n, dmail |-> id.dmail, wallet |-> id.wallet]
<1>1. TypeOK
  BY DEF AgreeInv, BackedInv
<1>2. /\ requests' = [requests EXCEPT ![q] = [step |-> "user", record |-> r]]
      /\ UNCHANGED <<users, dmails>>
      /\ users[n] = None
      /\ raced \subseteq raced'
  BY DEF Check, tables, isAvailable, Taken, getByUsername
<1>3. \A p \in Requests :
        requests[p].step # "idle" /\ requests[p].record.username = n
          => n \in raced'
  BY DEF Check
<1>4. \A p \in Requests : p # q => requests'[p] = requests[p]
  BY <1>1, <1>2 DEF TypeOK
<1>5. requests'[q].step = "user" /\ requests'[q].record.username = n
  BY <1>1, <1>2 DEF TypeOK
<1> HIDE DEF n, r
<1>6. Alone'
  BY <1>2, <1>3, <1>4, <1>5 DEF AgreeInv, Alone
<1>7. OwnRecord'
  <2> SUFFICES ASSUME NEW p \in Requests, requests'[p].step # "idle",
                      requests'[p].record.username \notin raced'
               PROVE  users'[requests'[p].record.username] =
                        IF requests'[p].step = "user" THEN None
                        ELSE requests'[p].record
    BY DEF OwnRecord
  <2>1. CASE p = q
    BY <1>2, <1>5, <2>1
  <2>2. CASE p # q
    BY <1>2, <1>4, <2>2 DEF AgreeInv, OwnRecord
  <2> QED BY <2>1, <2>2
<1>8. DmailsAgree'
  BY <1>2 DEF AgreeInv, DmailsAgree
<1> QED BY <1>6, <1>7, <1>8

(* A put of a request alone with its name keeps the tables in agreement.    *)
LEMMA AgreeWrite ==
  ASSUME AgreeInv, NEW q \in Requests, Write(q)
  PROVE  Alone' /\ OwnRecord' /\ DmailsAgree'
<1> DEFINE r == requests[q].record
<1>1. TypeOK
  BY DEF AgreeInv, BackedInv
<1>2. requests[q] \in Pending /\ requests[q].step # "idle" /\ raced' = raced
  BY <1>1, BusyRequest DEF Write, PutUser, PutDmail, PutWallet, At
<1>3. /\ r \in Records /\ r.username \in Names /\ r.dmail \in Addresses
      /\ r # None
  BY <1>2, RecordAssumption DEF Pending, Records
<1>4. \A p \in Requests : p # q => requests'[p] = requests[p]
  BY <1>1 DEF Write, PutUser, PutDmail, PutWallet, Advance, TypeOK
<1>5. requests'[q].step # "idle" => requests'[q].record = r
  <2>1. CASE PutUser(q) \/ PutDmail(q)
    BY <1>1, <1>2, <2>1 DEF PutUser, PutDmail, Advance, TypeOK, Pending
  <2>2. CASE PutWallet(q)
    BY <1>1, <2>2 DEF PutWallet, Idle, TypeOK
  <2> QED BY <2>1, <2>2 DEF Write
<1>6. Alone'
  BY <1>2, <1>4, <1>5 DEF AgreeInv, Alone
<1>7. \A p \in Requests :
        p # q /\ requests[p].step # "idle"
          /\ requests[p].record.username \notin raced
          => requests[p].record.username # r.username
  BY <1>2 DEF AgreeInv, Alone
<1>8. CASE PutUser(q)
  <2>1. /\ users' = [users EXCEPT ![r.username] = r]
        /\ dmails' = dmails
        /\ requests[q].step = "user"
    BY <1>8 DEF PutUser, At
  <2>2. users'[r.username] = r
    BY <1>1, <1>3, <2>1 DEF TypeOK
  <2>3. \A n \in Names : n # r.username => users'[n] = users[n]
    BY <1>1, <2>1 DEF TypeOK
  <2>4. requests'[q].step = "dmail"
    BY <1>1, <1>2, <1>8 DEF PutUser, Advance, TypeOK, Pending
  <2>5. OwnRecord'
    <3> SUFFICES ASSUME NEW p \in Requests, requests'[p].step # "idle",
                        requests'[p].record.username \notin raced
                 PROVE  users'[requests'[p].record.username] =
                          IF requests'[p].step = "user" THEN None
                          ELSE requests'[p].record
      BY <1>2 DEF OwnRecord
    <3>1. CASE p = q
      BY <1>5, <2>2, <2>4, <3>1
    <3>2. CASE p # q
      <4>1. requests[p].record.username \in Names
        BY <1>1, <1>4, <3>2, BusyRequest DEF Pending, Records
      <4> QED BY <1>4, <1>7, <2>3, <3>2, <4>1 DEF AgreeInv, OwnRecord
    <3> QED BY <3>1, <3>2
  <2>6. DmailsAgree'
    <3> SUFFICES ASSUME NEW d \in Addresses, dmails[d] # None
                 PROVE  /\ dmails[d].dmail = d
                        /\ dmails[d].username \notin raced
                             => users'[dmails[d].username] = dmails[d]
      BY <1>2, <2>1 DEF DmailsAgree
    <3>1. /\ dmails[d].dmail = d
          /\ dmails[d].username \notin raced
               => users[dmails[d].username] = dmails[d]
      BY DEF AgreeInv, DmailsAgree
    <3>2. dmails[d].username \in Names
      BY <1>1 DEF TypeOK, Records
    <3>3. r.username \notin raced => users[r.username] = None
      BY <1>2, <2>1 DEF AgreeInv, OwnRecord
    <3> QED BY <2>3, <3>1, <3>2, <3>3
  <2> QED BY <1>6, <2>5, <2>6
<1>9. CASE PutDmail(q)
  <2>1. /\ dmails' = [dmails EXCEPT ![r.dmail] = r]
        /\ users' = users
        /\ requests[q].step = "dmail"
    BY <1>9 DEF PutDmail, At
  <2>2. requests'[q].step = "wallet"
    BY <1>1, <1>2, <1>9 DEF PutDmail, Advance, TypeOK, Pending
  <2>3. OwnRecord'
    BY <1>2, <1>4, <1>5, <2>1, <2>2 DEF AgreeInv, OwnRecord
  <2>4. r.username \notin raced => users[r.username] = r
    BY <1>2, <2>1 DEF AgreeInv, OwnRecord
  <2>5. \A d \in Addresses :
          dmails'[d] = IF d = r.dmail THEN r ELSE dmails[d]
    BY <1>1, <2>1 DEF TypeOK
  <2>6. DmailsAgree'
    BY <1>2, <2>1, <2>4, <2>5 DEF AgreeInv, DmailsAgree
  <2> QED BY <1>6, <2>3, <2>6
<1>10. CASE PutWallet(q)
  <2>1. requests'[q].step = "idle"
    BY <1>1, <1>10 DEF PutWallet, Idle, TypeOK
  <2>2. OwnRecord'
    BY <1>2, <1>4, <1>10, <2>1 DEF AgreeInv, OwnRecord, PutWallet
  <2>3. DmailsAgree'
    BY <1>2, <1>10 DEF AgreeInv, DmailsAgree, PutWallet
  <2> QED BY <1>6, <2>2, <2>3
<1> QED BY <1>8, <1>9, <1>10 DEF Write

(* Every step keeps the agreement.                                          *)
LEMMA AgreeStep == AgreeInv /\ [Next]_vars => AgreeInv'
<1> SUFFICES ASSUME AgreeInv, [Next]_vars
             PROVE  AgreeInv'
  OBVIOUS
<1>1. BackedInv'
  BY TypeNext, PutSoFarStep, BackedStep DEF AgreeInv, BackedInv
<1>2. Alone' /\ OwnRecord' /\ DmailsAgree'
  <2>1. CASE Crash
    BY <2>1
    DEF Crash, tables, Idle, AgreeInv, Alone, OwnRecord, DmailsAgree
  <2>2. CASE UNCHANGED vars
    BY <2>2 DEF vars, AgreeInv, Alone, OwnRecord, DmailsAgree
  <2> QED BY <2>1, <2>2, AgreeCheck, AgreeWrite DEF Next
<1> QED BY <1>1, <1>2 DEF AgreeInv

(* The name an address is shown leads back to that address, unless two      *)
(* requests were busy with the name at once or it reads as an address.      *)
THEOREM NamesAgree == Spec => []MeAgrees
<1>1. ASSUME Init
      PROVE  AgreeInv
  <2>1. \A q \in Requests : requests[q].step = "idle"
    BY <1>1 DEF Init, Idle
  <2>2. \A d \in Addresses : dmails[d] = None
    BY <1>1 DEF Init
  <2>3. Alone
    BY <2>1, Zenon DEF Alone
  <2>4. OwnRecord
    BY <2>1, Zenon DEF OwnRecord
  <2>5. DmailsAgree
    BY <2>2, Zenon DEF DmailsAgree
  <2> QED BY <1>1, <2>3, <2>4, <2>5, BackedInit, Zenon DEF AgreeInv
<1>2. AgreeInv => MeAgrees
  <2> SUFFICES ASSUME AgreeInv, NEW d \in Addresses,
                      me(d) \notin {None} \cup raced \cup Dm1Names
               PROVE  resolve(me(d)) = d
    BY DEF MeAgrees
  <2>1. dmails[d] # None /\ me(d) = dmails[d].username
    BY DEF me, getByDmailAddress
  <2>2. users[me(d)] = dmails[d] /\ dmails[d].dmail = d
    BY <2>1 DEF AgreeInv, DmailsAgree
  <2> QED BY <2>1, <2>2 DEF resolve
<1> QED BY <1>1, <1>2, AgreeStep, PTL DEF Spec
=============================================================================
