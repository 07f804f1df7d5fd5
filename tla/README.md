# chainmail-protocol (dMail): TLA+ specification

This directory holds the TLA+ models of dMail, the TLC configurations that check
them and the TLAPS proofs about them. Source paths below are relative to the
repository root (`src/` in PROJECT.json); `src/...` is the JavaScript library and
`api/src/...` the NestJS service.

## 1. The system and its parts

dMail is peer-to-peer mail. A sender publishes an envelope on one gossipsub topic
and offers it to the relays it is connected to; relays keep it in a LevelDB and
replicate it; the recipient gets it from pubsub or fetches it from relays. Relay
operators stake an ERC-20 token and are rewarded in it. Names are registered in a
contract or in the web server's own registry. A web server runs one client node for
each logged-in wallet; an API service runs one node and a local store for all
identities of a machine.

| Part | State | Operations | Talks to | Module |
|---|---|---|---|---|
| Token contract `contracts/DMailToken.sol` | balances, `relayNodes`, `peerIdToWallet`, `registeredNodes`, `minStake`, `relayRewardsDistributed` | register, addStake, claim, deactivate, withdraw, setMinStake, ERC-20 transfer | token clients | `DMailToken` |
| Token clients `src/blockchain/token.js`, `src/network/relay-node.js` | whether the relay believes it is registered | read, send, wait; claim on a timer | token contract | `TokenClient` |
| Registry contract `contracts/DMailRegistry.sol` | identities, owners, reverse names, message proofs | register, updateKeys, timestampMessage, timestampAndStore | registry clients | `DMailRegistry` |
| Registry clients `src/blockchain/registry.js`, `src/cli` | transactions waited for, a lookup in two reads | register, timestamp, lookups | registry contract | `RegistryClient` |
| Client node `src/network/node.js` | LevelDB of inbox entries, two fetch loops | sendMessage, handleIncomingMessage, getInbox and its fetches, markAsRead, deleteMessage | relays (pubsub, streams), web server | `DMailNode` |
| Relay `src/network/relay-node.js` | LevelDB of records, rate limiter | handleMessage, handleStoreRequest, handleDHTFetchRequest, handleFetchRequest | clients, relays | `RelayNode` |
| DHT storage `src/storage/dht-storage.js` | message records with id and expiry | store, getMessages, deleteMessage, cleanupExpired, storeWithReplication | relay | `RelayNode` |
| Double ratchet `src/crypto/double-ratchet.js` and its API port | chains, counters, `MKSKIPPED`; saved sessions | encrypt, decrypt, dhRatchet, skipMessageKeys; saveSession, getSession | two sessions over the network | `DoubleRatchet`, `RatchetSessions` |
| Rate limiter `src/network/rate-limiter.js` and its API port | timestamps, daily usage, reputations, global timestamps | checkAndRecord, reportSpam, markTrusted, cleanup | relay's pubsub handler, API node | `RateLimiter`, `RateLimiterService` |
| Web server `src/server/auth.js`, `secure-server.js` | nonces, sessions, node and identity of each token, `wsClients` | challenge, login, logout, node start and stop, WebSocket open and close, sweep | client nodes, browsers | `SecureServer` |
| Username registry `src/registry/username-registry.js` | three LevelDB keys per registration | register, lookups | web server | `UsernameRegistry` |
| Connection pool `src/network/connection-pool.js` and its API port | connections, relays and their scores | connect and disconnect events, identify, ping, recorded answers and failures | libp2p | `ConnectionPool` |
| Message queue (same files) | the queue, its timer, the batch with the handler | enqueue, processBatch, clear | handler | `MessageQueue` |
| Onion routing `src/network/onion-routing.js` and its API port | known relays, circuits | selectRelays, buildRoute, processPacket, cleanupCircuits | relays | `OnionRouting`, `OnionRoutingService` |
| API identities `api/src/crypto/identity-store.service.ts`, local part of `api/src/blockchain/registry.service.ts` | identity files, identities in memory, local registry | create, load, look up | file system | `IdentityStore` |
| API mail `api/src/messages`, `storage`, `network/p2p-node.service.ts` | shared local store, one database per identity, the node's identity | send, fetch, mark as read, delete, start | P2P network | `ApiMail` |
| API authentication, SMTP gateway, command-line key stores, legacy server | challenges and sessions; address map; files | | | not modelled (section 9) |
| Envelopes, encryption, proof of work, IPFS, CLI, web UI | none, or one user's | pure functions, I/O, views | | not modelled (section 9) |

What is hard in this code, with the lines, is the `hazards` list of PROJECT.json.
In short: awaits between a check and its use (node start, name registration, cleanup
loops, markAsRead, on-chain reads before a transaction); two ids for the same
envelope; deletion before delivery is known; crashes between two writes; lost,
reordered and repeated messages; sessions restored from an old save; boundaries of
windows, days, scores and pools; long legal sequences of contract calls; one shared
map or database under handlers of several identities.

What makes each part correct:

- token: tokens are conserved, stakes can always be paid back, the pool is not
  overdrawn, peer ids and wallets agree, a relay that believes it is registered is;
- registry: names and message proofs are written once, the reverse name leads back,
  what a client reported stays true, a lookup never gives somebody else;
- usernames: an address never carries a name that is free, and the name shown for it
  leads back to it; a name changes hands only between calls that overlap;
- mail: an inbox holds only its owner's mail, a relay keeps sealed mail until it
  expires, copies agree, a relay that goes on answering holds no mail back, expired
  mail goes away;
- ratchet: no key is used twice, first deliveries decrypt unless the gap before them is
  too long, used keys are gone;
- limiter: no window and no day admits more than its limit;
- web server: a nonce opens one session, a session acts for the wallet that
  signed, notifications stay with their login, ended sessions stay ended;
- pool and queue: a relay's score is earned; the queue has one run, keeps its order
  and drains;
- onion: no relay sees both ends, replies find their way;
- API: what is answered as sent was stored, a mailbox is its owner's, identities and
  the marks of read mail survive.

## 2. Modules

    DMailToken <- TokenClient <- MCDMailToken;                 TokenProofs
    WriteOnce, DMailRegistry <- RegistryClient <- MCRegistry;  RegistryProofs
    UsernameRegistry <- MCUsernames;                           UsernameProofs
    MailNetwork <- RelayNode, DMailNode <- MailDelivery
        <- MCMailDelivery, MCMailReplicas;                     MailProofs
    DoubleRatchet <- RatchetSessions;                          RatchetProofs
    SecureServer;                                              ServerProofs
    IdentityStore <- ApiMail <- MCApi;                         ApiProofs
    RateLimiter <- RateLimiterService <- MCRateLimiter
    ConnectionPool, MessageQueue <- ConnectionPoolService <- MCPool
    OnionRouting <- OnionRoutingService
        the three together:                                    NetworkProofs

An operator whose comment begins "Faulty variant" is a plausible bug: no
specification uses it. Each stands beside the definition it varies, and PROJECT.json
(`mutants`) names the property that notices it.

### DMailToken

One action per external function. A failed `require`, an arithmetic underflow or a
division by zero (`minStake = 0` in `calculateRewards`) reverts, so it is a guard.
Integer division is kept at every place Solidity has it. 256-bit overflow cannot
happen: amounts are bounded by the total supply. `registeredNodes` is a sequence
because the same wallet can be pushed twice: the "Already registered" test is
`peerId == bytes32(0)`, and bytes32(0) is itself accepted as a peer id. In that
case the second registration overwrites the first `stakedAmount`; the tokens stay
in the contract with no owner, which is why `Solvent` is an inequality.
`block.timestamp` and ERC-20 transfers, to the contract too, are the environment.

### TokenClient

A relay that starts reads the contract (`initializeTokenClient`), prepares
(`SendRegistration`), and its transaction is mined when the contract may have
changed (`MineRegistration`); claims work alike. `getNodeInfo` reverts for an active
node while `minStake` is 0, and the relay then goes on without rewards. A relay that
dies leaves its transaction behind: that is a call of its wallet like any other,
which `AnyCall` has.

### DMailRegistry, RegistryClient, WriteOnce

`register` overwrites the reverse name of an address that already had one. Names
are tested for their length and addresses for their prefix; both are sets here.
Clients put transactions into `mempool`: those of one wallet are mined in nonce
order, others in any order. A revert is an exception of `tx.wait()` and reported
nowhere. `lookupByAddress` is two reads. What a client reports of a stamp is the call it
made; the time it prints with it is its own clock (section 5) and is left out.

`WriteOnce` is the abstract specification: a book whose entries appear one at a time
and never change. `NameBook` and `ProofBook` instantiate it with the names' owners and
addresses, and with the message proofs; `BooksWrittenOnce` says that the contract with
its clients implements both.

### UsernameRegistry

`Check` is `register()` up to the first put; `PutUser`, `PutDmail` and `PutWallet`
are one put each; `Crash` forgets the calls in progress and keeps what they put. Names
are spelled in several ways and lower-cased by the code. `raced` remembers the names
two calls were busy with at once: the code does nothing against that race, and the
properties say what holds in spite of it.

### MailNetwork, RelayNode, DMailNode, MailDelivery

An envelope is an opaque value with sender, recipient and a flag "sealed". Relays
file a plain envelope under the recipient's address and a sealed one under the
routing token (`storageKey`).

`net` holds what will arrive. What is lost (no mesh yet, broken stream, relay down,
rate limiter) is never put there: `sendMessage` picks any subset of nodes. What is
there arrives in any order and any time later, or disappears when its addressee
dies.

Each action is the code between two awaits that another task can come between:

- a relay's pubsub handler stores the record locally (`handleMessage`); the second
  half of the handler stores it again under another id and sends replicas
  (`storeWithReplication`). A crash in between loses the second half.
- `cleanupExpired` and the legacy fetch collect keys into `toDelete`;
  `deleteMessage` is one `db.del`.
- A client has two fetch loops, the one after start (ids from the envelope) and the
  one of getInbox (ids from the record). Each asks peers one by one (`FetchDHT`,
  `FetchLegacy`, `FetchFails`) and stores one message at a time (`StoreFetched`).
- `markAsRead` is a read and, later, a put.
- `Crash`, `Restart`, `Quit` lose everything that is not in a database. Restart
  includes the cleanup that `init` awaits.

Records carry an id and an expiry; the read flag, timestamps and the `sent:` copies
have no property and are left out. In `replicateTo` the code passes string peer ids
to libp2p; whether these dials succeed is libp2p's matter, and every choice of
targets, none included, is in the model.

### DoubleRatchet, RatchetSessions

Keys are symbolic: a Diffie-Hellman output is the set of the two key pairs, a root
key is the sequence of outputs mixed in, a chain key is its root step and a number
of `kdfCK` steps, a message key is named by its chain key, and an AEAD opens only
under the key that sealed it. `decrypt` is `DecryptSkipped` (a key put aside) or
`DecryptNext` (turn the ratchet if the header's key is new, skip, derive). State
changed before an exception stays changed, as in the code: the ratchet turn before
"Too many skipped messages", the chain step before an AEAD failure. `Refuses` says when
that exception is thrown, for the old chain or for the message's own; a refused message
is neither accepted nor failed and may be delivered again.

`RatchetSessions` adds the database: a session is saved when created, and afterwards
only when a caller asks (`saveSession`); a restart continues from the last save
(`getSession`). `rolledBack` names the parties that continued from a state they had
left. They repeat keys, as the code lets them; everything else must still hold.

### RateLimiter, RateLimiterService

`checkAndRecord` is the call a relay makes for each pubsub message; a refused call
changes nothing. Scores are in tenths of a point. `getAdjustedLimit` reads a missing
score as 0 (half the base limit), `adjustReputation` reads a missing score, and a
score of 0, as 25: both are kept. The API's service is one object with a plain
limiter that tests a global limit and the limiter by reputation, which does not;
both use the same timestamps. An array of timestamps is the set of the messages they are
of: the code reads how many are in the window, and two messages of one moment are two.

### SecureServer

`nonces` and `sessions` are the maps of `auth.js`; `data` is the map of
`secure-server.js`. Handlers with an await are split there: `nodeStart` and
`nodeStarted` or `nodeStartFails`; `nodeStop` and `nodeStopped` or `nodeStopFails`.
`login` has no await and is one step. A signature is the pair of wallet and nonce,
and the identity derived from it is named by it. Logging out ends the session and
leaves `data`, the node and the socket, as the code does. The `node` of a session is
`Undefined` until it starts one and `Null` after it stopped one: a WebSocket of a session
whose node is undefined makes the listener throw after it is in `wsClients` and before
its close handler is set, and since nothing catches that the process ends
(`wsConnectThrows`); what it starts again with is empty maps. `broadcast` changes no
state; it is the operator that says which sockets a node's notification reaches.

### ConnectionPool, MessageQueue, ConnectionPoolService

`identify` and `ping` are awaited: the answer goes to the record the call began with,
though the peer may have gone or come back. Scores are integers in 600ths of a point,
which makes every division of the code exact for up to five recorded requests; the
moving average of the latencies may be any value of the grid between the old average and
the new latency. A stable sort puts a new message behind those at least as urgent
(`Placed`), since the rest of the queue is sorted already. The queue is one timer or one
awaited handler; a handler that rejects leaves `processing` true and the queue still
(`HandlerRejected`). The API's service outlives its node: a second node's connection to
a connected peer replaces the record (`OtherNodeConnects`).

### OnionRouting, OnionRoutingService

An encrypted layer is a record that names the relay and the key it was made for.
Packets are lost (`Lose`) or stay in flight when they are delivered (`again`); a
restarted relay has another key and no circuits. `learned` records what each relay
saw of a circuit. `processPacket` only returns what is to be sent on and has no caller in
the repository: `Forward` is that function and a caller who sends what it returns. The
service, before `setSendFunction`, builds a route and sends
nothing (`SendUnwired`).

### IdentityStore, ApiMail

`writeFile` truncates first, so a file is absent, torn or saved. An identity has a
file of its own and identity.json holds the latest one. The local registry maps an
address to a name and a name to an identity.

`ApiMail` runs requests: a request is a record that names its next step, and every
await is a step boundary. The local store is one Level shared by all identities; two
requests that initialise it at once open the same path twice, and the second Level is
locked: its operations fail. The P2P node has one database per identity and replaces
its `identity` and `db` when another identity is loaded, while what awaits continues
with whatever they are by then. A fetch is a request that names the identity of the
moment (`Asks`), the answer for that identity, from what has reached the relay by then
(`Answer`, or `AskAgain` for the legacy protocol and other relays), and the puts; it asks
one relay at a time, and a relay answers with any part of what it has. `crossed` remembers
what was held when the node changed, or answered for the identity before, and the mailbox
it may land in. The cleanup of the local store reads every entry as a message record
(`isExpired`): a read mark has no expiry, and the constructor gives it a fresh one. The
cleanup of a first `init` deletes from the database of the moment, so it fails when a
second `init` has replaced that by a locked one (`StorageOpened`).

## 3. Runs that pass

| Run | Properties | Bounds and why they are enough |
|---|---|---|
| `token` | SupplyConserved, Solvent, PeerIdsAgree, CountedOnce, RegisteredTrue | Two wallets (one the owner, one with a relay), three peer ids with bytes32(0), two ticks, a pool that two claims exhaust, minimum stakes 12, 1 and 0. All values of the constants are covered by the proofs. |
| `mail` | InboxAddressed, SealedKept | Two clients, one relay, a sealed and a plain envelope, of which one is sent (both choices are explored), two record ids, TTL 0 over two ticks so that records expire; both loops, both protocols, crashes, the user's edits. |
| `mail_replicas` | ReplicasAgree, Delivered, ExpiredRemoved | Two relays, one client, one sealed envelope, two record ids: enough for a stored copy and its replica, for a crash of either relay and for expiry while a replica is in flight. |
| `ratchet` | KeysOnce, InStepKept, SecrecyKept | Five messages, six key pairs (turns of the ratchet each way), MAX_SKIP 1, one replay, one restart: gaps at and over the limit, inside a chain, at its start after a turn and at the end of the chain before (which takes five messages), and a restart from a fresh or an old save. One call then puts aside at most one key; longer gaps are left to the proofs, for any MAX_SKIP. |
| `limiter` | RateBound, DailyBound, GlobalBound | Two senders, window and day of two ticks over four ticks, sizes 2 (fits) and 3 (too large), limits of two messages for a sender and for all of them, five bytes a day, up to three accepted messages a sender. |
| `server` | TypeOK, NonceOnce, SessionOwner, NotifiedOwner, EndedStaysEnded, Swept | Two wallets, two nonces (so two sessions, of one wallet or two), two nodes, two sockets; durations 0, so a nonce or session ends with the next tick. |
| `registry` | ReverseAgrees, LookupAgrees, ReportsTrue, BooksWrittenOnce | Two wallets, two valid names and one too long, two dMail addresses and one other, one message hash, three transactions: two names for one address, two claims of one name, a stamp raced by another; wallets and names are symmetric. |
| `usernames` | ReverseBacked, MeAgrees, SettledKept | Two requests at once, three identities of which two share a wallet, one name typed in two ways, one that reads as an address and one reserved. |
| `pool` | ScoreEarned, OneRun, UrgentFirst, Drains | One relay (relays share no state a property compares), latencies 0 and 700 ms, three recorded requests; three messages of two priorities in batches of two. |
| `onion` | Unlinkable, ReplyPath | Three relays and the code's three hops, so that every relay is on every route; one circuit, one restart. Circuits share no entry, and the proofs cover any number of them. |
| `api` | SentBacked, MailboxOwned, ReadBacked, IdentityKept | Two identities, which may have the same name, one message, three requests (a sender, a change of identity and a fetch are three), any number of restarts. |

What they show:

- **token**: whatever two wallets call in whatever order, rewards are never paid out
  of stakes nor stakes out of rewards, and a relay is registered when it thinks so.
- **mail**: mail gets only into the recipient's inbox, by pubsub, either fetch loop,
  either protocol or self-delivery; and no fetch, crash or half-finished cleanup
  removes sealed mail early. (Plain mail is removed early, see section 5.)
- **mail_replicas**: an id stands for the same envelope and expiry at every relay;
  a sealed envelope at a relay that answers its recipient again and again gets into the
  inbox or expires, whatever fetches, crashes and deletions interleave; expired records
  are removed.
- **ratchet**: no two messages share a key, replays included; without replays no AEAD
  fails, and a message is refused only for more than MAX_SKIP messages in a row before it
  that have not been decrypted; a decrypted message's key can no longer be derived. A
  restart costs these only the party that fell back.
- **limiter**: a sender nobody vouched for never gets past the base limit in any window
  until it has had 250 messages accepted, more than a run can have (the theorem covers
  what they earn), and a vouched one never past three times it; what the global limit let
  pass stays within it though half of the records come from the other limiter.
- **registry**: names and proofs are never overwritten, receipts tell the truth, and
  the two reads of a lookup are safe although the first entry may be overwritten.
- **usernames**: the order of the three puts keeps the reverse records backed through
  any race and any crash; a name is overwritten only by calls that overlap.
- **pool**: penalty and recomputation of a score agree in every order; the queue is
  handed over in order by one run and drains as long as its handler does not reject.
- **onion**, **api**, **server**: see the properties in section 1; the interleavings are those
  of packets, requests, starts and stops in flight, expiries, crashes and identities
  replacing one another.

`CHECK_DEADLOCK FALSE` is set where the bounded system really stops: all tokens
withdrawn at the last tick, all transactions sent and mined, all ratchet messages
delivered, all packets gone, all messages handed over, all requests answered, all
sessions ended. Symmetry is used only in runs without liveness properties.

## 4. A run that finds a defect

`api_lookup` checks RecipientCanRead: what the API stores for a recipient is
encrypted with the recipient's key. `registerLocal`
(api/src/blockchain/registry.service.ts:117) replaces whatever identity was under the
name, and `lookupLocalByAddress` (:133), which the comment calls "Look up identity in
local registry by address", goes through the name. After two identities were created
with one name, mail to the first one's address is encrypted with the second one's
key, and its recipient cannot read it.

## 5. Disagreements met while modelling

Of the same kind, visible in the modules, without a run of their own:

- contracts/DMailToken.sol:164 speaks of a 7-day waiting period; `withdrawStake`
  (:166) can be called in the block of `deactivateNode`.
- src/network/node.js:326 collects messages "without storing (for deduplication)";
  the same envelope is filed under its own id by pubsub (:308) and under a random
  record id by a fetch, so it can be in an inbox several times.
- src/storage/dht-storage.js:279 deletes "after delivery confirmation"; the legacy
  fetch (src/network/relay-node.js:732) deletes when the response is written.
- src/server/secure-server.js:96 says "Send current state"; for a session that never
  started a node, `node !== null && node.node !== null` (:102) is a TypeError, since
  `getSessionData` has no `node` for it and not a null one (:153). Nothing in the
  repository catches it, and the process ends, with every session and node.
- src/blockchain/registry.js:199 and :231 (in the API, registry.service.ts:264 and :299)
  report the client's clock as the time of a stamp, and the contract keeps
  `block.timestamp`: `verifyMessageTime` of the reported time can be false.
- src/crypto/double-ratchet.js:28 calls MAX_SKIP the maximum of keys to store; it
  bounds each gap (:328) and not their sum.
- src/network/rate-limiter.js:323 says "Slowly increase reputation"; a score of 0 is
  read as 25 (:344), so one message lifts it to 25.1.
- docs/SECURITY.md:65 says that the same wallet always gives the same dMail address;
  `login` (src/server/secure-server.js:147) derives it from a signature over a fresh
  nonce.
- The reconnection timer (src/network/connection-pool.js:209) dials a `multiaddr` that
  nothing sets: it never reconnects.
- `claimRewards` of src/blockchain/token.js:250 reports the amount it read before it
  sent, not what was paid.
- In the API, an identity loaded twice opens the node's database twice and the second
  Level is locked (api/src/network/p2p-node.service.ts:113); two first requests do the
  same to the local store (api/src/messages/messages.service.ts:60). Operations then
  fail until the service restarts. The inbox of an address reads the local store only
  (:224), so mail that came by the P2P node is not in it.

## 6. Fairness

- `SecureServer!FairSpec`: weak fairness of `sweep`, a `setInterval`.
- `MailDelivery!FairSpec`: from some point on relays stay up (`FaultsEnd`, an assumption
  on the environment), and then weak fairness of the hourly cleanup, a `setInterval`, and
  of the deletions a loop awaits. Clients are under no fairness. In particular nothing
  makes a client ask a relay again: relays are dialled once, at the start
  (src/network/node.js:122-141), nothing redials one that failed or restarted, and a
  stream that hangs holds the loop up. So `Delivered` has that as its premise
  (`KeepsAsking`): a relay that is asked and answers again and again, by a client that
  stays, keeps nothing back.
- `ConnectionPoolService!Spec`: weak fairness of the queue's timer and of its handler
  settling, in either way. `Drains` excuses the messages left when it rejects.
- The onion router is under no fairness: nothing in the repository processes or forwards
  its packets, so nothing is promised about their arrival.
- Clocks are bounded, so `Delivered` and `ExpiredRemoved` speak about both
  endings: records that expire within the bound and records that never do.

## 7. Proofs

All theorems hold for every value of the constants that satisfies the named
assumptions beside their declarations: any wallets, peers, clients, relays, names and
messages, any hop count, any number of steps, and any value of the constants that only
bound a run.

**TokenProofs.** The contract: `TypeCorrect`; `LedgerSafe`:
`Spec => [](SupplyConserved /\ Solvent /\ PoolBound)`; `StakesCovered`: each single
stake is covered by the contract's balance; `IdentitiesSafe`:
`Spec => [](PeerIdsAgree /\ CountedOnce)`. The sum of a function into the naturals is
the cardinality of a set of coins: entry k owns `<<k, 1>>` to `<<k, f[k]>>`. So sums
need no recursion, and `TotalUpdate` (changing one entry changes the total by the
difference) follows from the library's facts on finite sets. `LedgerInv` is TypeOK with
the three ledger properties. They need one another: Solvent is kept by a claim because
PoolBound's require says the payment fits into what is left of the pool, and by a
withdrawal because the stake is a part of the sum; without TypeOK balances could be
anything. `IdentityInv` adds `RegistrationVisible`: a wallet in `registeredNodes` has a
peer id or is the one that registered bytes32(0). CountedOnce alone is not inductive:
nothing else connects being in the list with failing the "Already registered" test.

With relays: `ClientsCallTheContract`: `ClientSpec => Spec`, each step of a
relay is a call of the contract or a stutter; so `LedgerSafeAmongClients` follows from
LedgerSafe. `RelaysRegistered`: `ClientSpec => []RegisteredTrue`; the invariant adds
that an active node is listed, because a relay that finds its wallet active believes it
without a transaction. `NodesCountedOnce` and `ActiveNodesCounted` carry the counting over
to any number of relays: `getActiveNodeCount`, the divisor of every reward, is the number
of active wallets, as long as nobody holds bytes32(0). A list without repetitions maps its
positions one to one to the wallets in it.

**RegistryProofs.** `TypeCorrect`, `ReverseAlwaysAgrees`, `LookupsAgree`,
`ReportsStayTrue` and `RegistryImplementsBooks`. The invariant `Safe` adds to the
properties that a lookup in progress has read a name registered for its address
(`LookupSound`) and says of each report what makes it true for good. The refinement is
shown per book: registering is `Write`, everything else leaves the book as it is, of
which `updateKeys` is the case to look at.

**UsernameProofs.** `ReverseAlwaysBacked` needs `PutSoFar`: a request that has reached a
put has made those before it. `SettledNamesKept` is a temporal formula under two boxes;
its step lemma says that a name taken and not busy stays both. `NamesAgree` needs three
more facts for names nobody raced for: only one request is busy with it (`Alone`), which
has put its own record or none (`OwnRecord`), and the address carrying it is the one it
is registered for (`DmailsAgree`).

**ServerProofs.** `ServerTypeCorrect`, `NoncesOnce`, `SessionsOwned`, `OwnersNotified`,
`EndedSessionsStayEnded`. `ServerInv` adds that a nonce in use is marked as used until
its record is gone and never handed out again (`UsedNonces`), that nodes keep the
identity of their token (`OwnersAgree`), and that an entry of `wsClients` is an open
socket of that token (`SocketsAgree`): a socket that closes takes its token's entry with
it, whichever socket is in it. The type invariant is hard in one place: tokens are numbered
up to the number of challenges, so that a session always gets one needs that no two
sessions took the same nonce - a pigeonhole argument on `NonceOnce`.

**MailProofs.** `TypeCorrect`, `InboxesAddressed`, `CopiesAgree`, `SealedAlwaysKept`.
InboxAddressed needs that envelopes known to a relay or on their way were sent
(`OnlySent`) and that what a client has fetched or read is its own (`OwnMail`). The other
two need that an id stands for one record wherever it is, also in flight (`OneRecordPerId`),
that ids in use were drawn (`IdsDrawn`), and that every id a loop is about to delete is
expired or plain (`DoomedIds`): the deletion runs long after the check.

**NetworkProofs.** Three components of one process that share no state.

- Onion router: `NobodySeesBothEnds` (for more than one hop; with one, the relay sees
  both ends) and `EntriesLeadBack`. `OnionInv` says that routes visit no relay twice,
  that each packet is between two stops of its route with the rest of the layers in its
  onion, and that what a relay saw or keeps is its place on the route.
- Queue: `OneRunAlways`: the queue is quiet, waits for its timer, is with its handler, or
  stuck after a rejection (`RunInv`). `UrgentFirstAlways`: `OrderInv` adds to the order
  that everything in the queue came earlier than what comes next, because the time of an
  entry is the number of messages seen; in a sorted queue the entries at least as urgent
  as a new one are a prefix (`AheadIsPrefix`), so it is put between two sorted parts.
- Pool: `ScoresEarned`, for any number of requests. The case to look at is a failure: it
  takes ten points off the score without recomputing it, and what was earned falls by no
  more: the reliability 100 s / (n + 1) of s successes in n requests falls by at most a
  sixth of 100 when n grows (`ReliabilityFalls`: 6 n <= (n + 1) (n + 2) for every n), and
  it counts six tenths.
- Limiter: `SendersLimited`, `StorageLimited`, `NodeLimited` from `LimiterInvariant`.
  `LimiterInv` says of each sender that what it got accepted in the window is still in its
  array (cleanup must not forget it), within what it is trusted with, and that a new
  message is none of those logged (`Logged`); that a reputation nobody vouched for was
  earned message by message from 25 points (`Rated`), so that no alternation of reports
  and messages gives a higher limit; that the entry of a sender's last day has that day's
  bytes (`Used`); and the same of the global array and the messages it let pass
  (`SharedInv`). The limit a sender is trusted with grows with its accepted messages
  (`EarnedLimit`: a reputation is at most 25 points and a tenth for each of them), so
  `SendersLimited` holds for any number of messages.

**RatchetProofs.** Four theorems about two parties, their saved states and a network that
loses, delays, reorders and duplicates.

- `RatchetTypeCorrect`.
- `KeysSealOnce`: every message was sealed on a chain whose last output has the pair in
  its header (`AllDrawn`), so two messages with one key have one pair. If one party sent
  both, it has sent one message for each number of a pair (`OwnChain`); if both did, then
  nobody fell back, and the two never send under one pair (`Apart`).
- `SecretsForgotten`: `Forgets` says that a key is not among those put aside and behind the
  receiving chain; `Onward` that no step of a session undoes that. `Receiving` excludes
  that a chain that was left is taken up again under another pair.
- `MessagesDecrypt`: as long as there is no replay and nobody fell back, all keys of a
  session follow from the number of its own pair (`InPlace`: the parties draw even and odd
  pairs in turn, `Adjacent`), each message on the way has the key of its pair and number
  (`Proper`), and a session has put aside the keys of exactly those messages on the way
  that its chain has passed (`Covers`). For refusals it adds that every message counted was
  sent (`Counted`) and that what a session opened it has passed (`Overtakes`): the messages
  between the chain and one that is too far ahead exist, and none of them was decrypted
  (`RefusedForGap`). A restart from an up-to-date save changes none of it.
  `skipMessageKeys` is a function on the numbers skipped, so that the proof needs no
  induction.

**ApiProofs.** `ApiInvariant`, and from it `SendersBacked`, `MailboxesOwned`, `ReadsBacked`
and `IdentitiesKept`. A request is a record that names its next step, and `RequestInv` says
what it may rely on there: a send that will put a copy has stored the recipient's record, a
request that will put an entry holds mail of the node's identity or mail noted as crossed,
one that marks an entry has put the mark in the local store, a creation that will remember
an identity has written its file. Then each step needs two facts: it makes true what its
request relies on next, and it takes nothing from the others (`RequestsMove`). The change of
the node's identity is the step that would, and `crossed` is what it takes away; for read
marks it is the cleanup, and what saves them is that a mark is never expired (`MarksFresh`,
`RemovedKeeps`).

Only model-checked: liveness (`Delivered`, `ExpiredRemoved`, `Swept`, `Drains`), which is
out of the prover's reach. Every invariant and every action property of the passing runs is
a theorem.

## 8. From the code to the modules

PROJECT.json `map` gives the lines of every definition. Conventions: an action has the
name of the function it models, or a capital letter when it is a part of one between two
awaits, or an event of the environment. A request that is refused and changes nothing is
no step. History variables (`crossed`, `raced`, `rolledBack`, `learned`, `log`, `stored`
and others, marked "history" at their declaration) are read by properties, never by guards
of the code they accompany, save for the bounds, which are named so.

## 9. Not modelled

- Envelope formats, encryption, signatures and proof of work: pure functions of
  bytes; the models treat them as opaque and injective.
- IPFS gateways, the command line but for its registry commands, the legacy
  single-user server, the web pages: I/O and views over the parts above.
- The SMTP gateway: it forwards mail as it arrives and keeps no queue.
- The API's authentication: challenges and sessions in maps, each handler without an
  await between its test and its effect; `SecureServer` has the same questions with
  more interleavings.
- Relay statistics, storage proofs, metrics, logging; `deleteSession`; dialling of
  libp2p, which the pool only sees as connect events.
- Classes and methods without a caller: `ProofOfWorkLimiter`, `RateLimiter.check` of
  the library and `reset`, `fetchFromNetwork`, the Ethereum username registry. Relays
  write `globalRequests` and never read it; the API's service reads it, and there it is
  modelled.
- In the web server the message routes only call the client node; its rate limit per IP
  address is not modelled. In the API node, relay mode and replication are those of the
  relay modules and are left out.
- `totalActiveNodes` is taken at claim time, so a node's share depends on who registers
  before it claims; no document states a bound on that, and none is checked.
