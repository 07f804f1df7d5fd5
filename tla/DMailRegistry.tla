---------------------------- MODULE DMailRegistry ----------------------------
(***************************************************************************)
(* contracts/DMailRegistry.sol: names for dMail addresses and proofs that  *)
(* a message existed.  One action per external function, its requires are  *)
(* its guards (a failing one reverts the call); block.timestamp ticks      *)
(* between blocks.  A signing and an encryption key are always written     *)
(* together and are one value here.                                        *)
(***************************************************************************)
EXTENDS Integers, Sequences, FiniteSets

CONSTANTS
  Wallets,             \* the accounts that call the contract
  NoWallet,            \* address(0)
  Names,               \* the strings passed as names
  ValidNames,          \* those of 1 to 32 bytes
  NoName,              \* "", the value of an unset string
  DmailAddresses,      \* the strings passed as addresses
  Dm1Addresses,        \* those that start with "dm1"
  Keys, NoKey,         \* pairs of public keys, and the unset pair
  Hashes,              \* message hashes
  Cids,                \* IPFS content ids
  MaxTime              \* bound: the last block.timestamp

ASSUME RegistryAssumption ==
  /\ NoWallet \notin Wallets
  /\ ValidNames \subseteq Names
  /\ NoName \notin ValidNames          \* it has no bytes
  /\ NoName \notin Dm1Addresses
  /\ Dm1Addresses \subseteq DmailAddresses
  /\ NoKey \notin Keys
  /\ MaxTime \in Nat \ {0}

VARIABLES
  identities,          \* name -> Identity
  addressToName,       \* dmail address -> name
  ownerNames,          \* wallet -> string[], only ever pushed to
  nameOwner,           \* name -> wallet
  messageProofs,       \* message hash -> MessageProof
  now                  \* block.timestamp, never 0

names == <<identities, addressToName, ownerNames, nameOwner>>
registryVars == <<identities, addressToName, ownerNames, nameOwner,
                  messageProofs, now>>

Identity ==
  [keys : Keys \cup {NoKey}, dmailAddress : DmailAddresses \cup {NoName},
   registeredAt : Nat, exists : BOOLEAN]

NoIdentity ==
  [keys |-> NoKey, dmailAddress |-> NoName, registeredAt |-> 0,
   exists |-> FALSE]

MessageProof ==
  [sender : Wallets \cup {NoWallet},
   senderDmail : DmailAddresses \cup {NoName},
   recipientDmail : DmailAddresses \cup {NoName},
   ipfsCid : Cids \cup {NoName}, timestamp : Nat]

NoProof ==
  [sender |-> NoWallet, senderDmail |-> NoName, recipientDmail |-> NoName,
   ipfsCid |-> NoName, timestamp |-> 0]

RegistryInit ==
  /\ identities = [n \in Names |-> NoIdentity]
  /\ addressToName = [a \in DmailAddresses |-> NoName]
  /\ ownerNames = [w \in Wallets |-> <<>>]
  /\ nameOwner = [n \in Names |-> NoWallet]
  /\ messageProofs = [h \in Hashes |-> NoProof]
  /\ now = 1

-----------------------------------------------------------------------------
(* Faulty variant: a name is tested by its owner's list, not by exists.    *)
FreeForCaller(sender, name) ==
  \A i \in DOMAIN ownerNames[sender] : ownerNames[sender][i] # name

(* Faulty variant: an owner may register its name again, for another       *)
(* address; the reverse entry of the first one is forgotten.               *)
FreeOrOwn(sender, name) ==
  ~identities[name].exists \/ nameOwner[name] = sender

(* NameAlreadyRegistered is not raised.                                    *)
NameFree(sender, name) == ~identities[name].exists

(* addressToName: whoever registers an address last owns its reverse entry. *)
ReverseEntry(name, dmailAddress) ==
  addressToName' = [addressToName EXCEPT ![dmailAddress] = name]

register(sender, name, keys, dmailAddress) ==
  /\ name \in ValidNames
  /\ dmailAddress \in Dm1Addresses
  /\ NameFree(sender, name)
  /\ identities' = [identities EXCEPT ![name] =
                      [keys |-> keys, dmailAddress |-> dmailAddress,
                       registeredAt |-> now, exists |-> TRUE]]
  /\ ReverseEntry(name, dmailAddress)
  /\ nameOwner' = [nameOwner EXCEPT ![name] = sender]
  /\ ownerNames' = [ownerNames EXCEPT ![sender] = Append(@, name)]
  /\ UNCHANGED <<messageProofs, now>>

(* Faulty variant: the owner may move the name to another address, and its *)
(* reverse entry moves with it.                                            *)
UpdateAndMove(sender, name, keys) ==
  /\ nameOwner[name] = sender
  /\ identities[name].exists
  /\ LET old == identities[name].dmailAddress
     IN  \E new \in Dm1Addresses \ {old} :
           /\ identities' = [identities EXCEPT ![name].keys = keys,
                                               ![name].dmailAddress = new]
           /\ addressToName' =
                [addressToName EXCEPT ![new] = name,
                   ![old] = IF @ = name THEN NoName ELSE @]
  /\ UNCHANGED <<ownerNames, nameOwner, messageProofs, now>>

(* An unregistered name's owner is address(0), which sends nothing.        *)
updateKeys(sender, name, keys) ==
  /\ nameOwner[name] = sender
  /\ identities[name].exists
  /\ identities' = [identities EXCEPT ![name].keys = keys]
  /\ UNCHANGED <<addressToName, ownerNames, nameOwner, messageProofs, now>>

(* MessageAlreadyTimestamped is not raised.                                *)
StampFree(sender, hash) == messageProofs[hash].timestamp = 0

Stamp(sender, hash, senderDmail, recipientDmail, ipfsCid) ==
  /\ StampFree(sender, hash)
  /\ messageProofs' = [messageProofs EXCEPT ![hash] =
       [sender |-> sender, senderDmail |-> senderDmail,
        recipientDmail |-> recipientDmail, ipfsCid |-> ipfsCid,
        timestamp |-> now]]
  /\ UNCHANGED <<identities, addressToName, ownerNames, nameOwner, now>>

timestampMessage(sender, hash, senderDmail, recipientDmail) ==
  Stamp(sender, hash, senderDmail, recipientDmail, NoName)

timestampAndStore(sender, hash, senderDmail, recipientDmail, ipfsCid) ==
  Stamp(sender, hash, senderDmail, recipientDmail, ipfsCid)

NextBlock ==
  /\ now < MaxTime
  /\ now' = now + 1
  /\ UNCHANGED <<identities, addressToName, ownerNames, nameOwner,
                 messageProofs>>

-----------------------------------------------------------------------------
(* The view lookups begin with.                                            *)
getName(dmailAddress) == addressToName[dmailAddress]

-----------------------------------------------------------------------------
RegistryTypeOK ==
  /\ identities \in [Names -> Identity]
  /\ addressToName \in [DmailAddresses -> ValidNames \cup {NoName}]
  /\ ownerNames \in [Wallets -> Seq(ValidNames)]
  /\ nameOwner \in [Names -> Wallets \cup {NoWallet}]
  /\ messageProofs \in [Hashes -> MessageProof]
  /\ now \in 1..MaxTime

(* The reverse lookup of an address leads to a name registered for that    *)
(* very address, although anyone may register a name for any address and   *)
(* the entry is then overwritten.                                          *)
ReverseAgrees ==
  \A a \in DmailAddresses :
    addressToName[a] # NoName =>
      /\ identities[addressToName[a]].exists
      /\ identities[addressToName[a]].dmailAddress = a

-----------------------------------------------------------------------------
(* The registry as two books that are only ever added to.                  *)
Registered == {n \in Names : identities[n].exists}
Stamped == {h \in Hashes : messageProofs[h].timestamp # 0}

NameBook == INSTANCE WriteOnce WITH
  Keys <- ValidNames,
  Values <- Wallets \X Dm1Addresses,
  book <- [n \in Registered |-> <<nameOwner[n], identities[n].dmailAddress>>]

ProofBook == INSTANCE WriteOnce WITH
  Keys <- Hashes,
  Values <- MessageProof,
  book <- [h \in Stamped |-> messageProofs[h]]
=============================================================================
