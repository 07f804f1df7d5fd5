-------------------------- MODULE UsernameRegistry --------------------------
(***************************************************************************)
(* src/registry/username-registry.js behind the username routes of         *)
(* src/server/secure-server.js.  register() checks the name, awaits, and   *)
(* puts three records one after another; requests interleave at every      *)
(* await, and the process may die between two puts.                        *)
(***************************************************************************)

CONSTANTS
  Spellings,           \* the strings users type as a username
  Lower,               \* Lower[s]: s in lower case
  WellFormed,          \* lower-case names that match USERNAME_REGEX
  Reserved,            \* RESERVED_USERNAMES
  Dm1Names,            \* those of them that start with "dm1"
  Identities,          \* records [dmail, wallet] of the server's sessions
  Requests,            \* bound: registrations handled at the same time
  None                 \* no record, or null

ASSUME UsernameAssumption ==
  /\ Lower \in [Spellings -> {Lower[s] : s \in Spellings}]
  /\ Dm1Names \subseteq WellFormed

VARIABLES
  users,               \* "user:<name>"    -> record
  dmails,              \* "dmail:<address>" -> record
  wallets,             \* "wallet:<address>" -> record
  requests,            \* register() calls in progress
  raced                \* history: names two calls were busy with at once

vars == <<users, dmails, wallets, requests, raced>>
tables == <<users, dmails, wallets>>

Names == {Lower[s] : s \in Spellings}
Addresses == {id.dmail : id \in Identities}
Wallets == {id.wallet : id \in Identities}
Records == [username : Names, dmail : Addresses, wallet : Wallets]

ASSUME RecordAssumption == None \notin Records

Idle == [step |-> "idle", record |-> None]

Init ==
  /\ users = [n \in Names |-> None]
  /\ dmails = [d \in Addresses |-> None]
  /\ wallets = [w \in Wallets |-> None]
  /\ requests = [q \in Requests |-> Idle]
  /\ raced = {}

-----------------------------------------------------------------------------
(* validateUsername                                                        *)
ValidUsername(spelling) ==
  Lower[spelling] \in WellFormed \ Reserved

(* getByUsername: lower case, and what precedes an @.                      *)
getByUsername(spelling) == users[Lower[spelling]]

(* Faulty variant: looks for the name as it was typed.                     *)
TakenAsTyped(spelling) ==
  spelling \in Names /\ users[spelling] # None

Taken(spelling) == getByUsername(spelling) # None

isAvailable(spelling) == ValidUsername(spelling) /\ ~Taken(spelling)

(* resolve() of a name, with or without the domain.                        *)
resolve(name) ==
  IF name \in Dm1Names THEN name              \* taken for an address
  ELSE IF users[name] # None THEN users[name].dmail
  ELSE None

getByDmailAddress(d) == dmails[d]

(* GET /api/username/me, for the session's address.                        *)
me(d) ==
  IF getByDmailAddress(d) = None THEN None ELSE getByDmailAddress(d).username

(* register() up to the first put: POST /api/username/register reads the   *)
(* identity of the session, the name is looked up, and the signature must  *)
(* be the wallet's.                                                        *)
Check(q, id, spelling, signer) ==
  LET name == Lower[spelling]
  IN  /\ requests[q].step = "idle"
      /\ isAvailable(spelling)
      /\ signer = id.wallet
      /\ requests' = [requests EXCEPT ![q] =
           [step |-> "user",
            record |-> [username |-> name, dmail |-> id.dmail,
                        wallet |-> id.wallet]]]
      /\ raced' = IF \E p \in Requests :
                       /\ requests[p].step # "idle"
                       /\ requests[p].record.username = name
                  THEN raced \cup {name} ELSE raced
      /\ UNCHANGED tables

At(q, step) == requests[q].step = step

Advance(q, step) == requests' = [requests EXCEPT ![q].step = step]

PutUser(q) ==
  /\ At(q, "user")
  /\ users' = [users EXCEPT ![requests[q].record.username] = requests[q].record]
  /\ Advance(q, "dmail")
  /\ UNCHANGED <<dmails, wallets, raced>>

PutDmail(q) ==
  /\ At(q, "dmail")
  /\ dmails' = [dmails EXCEPT ![requests[q].record.dmail] = requests[q].record]
  /\ Advance(q, "wallet")
  /\ UNCHANGED <<users, wallets, raced>>

(* The last put; register() returns the record.                            *)
PutWallet(q) ==
  /\ At(q, "wallet")
  /\ wallets' =
       [wallets EXCEPT ![requests[q].record.wallet] = requests[q].record]
  /\ requests' = [requests EXCEPT ![q] = Idle]
  /\ UNCHANGED <<users, dmails, raced>>

(* Faulty variant of Write: the reverse record first.                      *)
WriteReverseFirst(q) ==
  \/ /\ At(q, "user")
     /\ dmails' =
          [dmails EXCEPT ![requests[q].record.dmail] = requests[q].record]
     /\ Advance(q, "dmail")
     /\ UNCHANGED <<users, wallets, raced>>
  \/ /\ At(q, "dmail")
     /\ users' =
          [users EXCEPT ![requests[q].record.username] = requests[q].record]
     /\ Advance(q, "wallet")
     /\ UNCHANGED <<dmails, wallets, raced>>
  \/ PutWallet(q)

Write(q) == PutUser(q) \/ PutDmail(q) \/ PutWallet(q)

(* The process dies and is started again: the calls are gone, what they    *)
(* put is not.                                                             *)
Crash ==
  /\ \E q \in Requests : requests[q].step # "idle"
  /\ requests' = [q \in Requests |-> Idle]
  /\ UNCHANGED <<tables, raced>>

Next ==
  \/ \E q \in Requests, id \in Identities, s \in Spellings, w \in Wallets :
       Check(q, id, s, w)
  \/ \E q \in Requests : Write(q)
  \/ Crash

Spec == Init /\ [][Next]_vars

-----------------------------------------------------------------------------
Busy(name) ==
  \E q \in Requests :
    requests[q].step # "idle" /\ requests[q].record.username = name

TypeOK ==
  /\ users \in [Names -> Records \cup {None}]
  /\ dmails \in [Addresses -> Records \cup {None}]
  /\ wallets \in [Wallets -> Records \cup {None}]
  /\ requests \in [Requests ->
       {Idle} \cup [step : {"user", "dmail", "wallet"}, record : Records]]
  /\ raced \subseteq Names

(* However requests race and wherever the process dies, an address or a    *)
(* wallet never carries a name that is still free to be taken by somebody  *)
(* else.                                                                   *)
ReverseBacked ==
  /\ \A d \in Addresses :
       dmails[d] # None => users[dmails[d].username] # None
  /\ \A w \in Wallets :
       wallets[w] # None => /\ users[wallets[w].username] # None
                            /\ dmails[wallets[w].dmail] # None

(* The name GET /api/username/me shows leads back to the same address,     *)
(* unless two calls registered it at once or it reads as an address.       *)
MeAgrees ==
  \A d \in Addresses :
    me(d) \notin {None} \cup raced \cup Dm1Names => resolve(me(d)) = d

(* Once a name is taken and no call is busy with it, its record is final:  *)
(* only calls that overlap can overwrite each other.                       *)
SettledKept ==
  \A n \in Names, r \in Records :
    [](users[n] = r /\ ~Busy(n) => [](users[n] = r))
=============================================================================
