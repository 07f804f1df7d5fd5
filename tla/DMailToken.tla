------------------------------ MODULE DMailToken ------------------------------
(***************************************************************************)
(* contracts/DMailToken.sol: the ERC-20 token that relay operators stake   *)
(* and are rewarded in.  One action per external function; a call whose    *)
(* require fails reverts, so the requires are the action's guards.  Ticks  *)
(* of block.timestamp and the ERC-20 transfers inherited from OpenZeppelin *)
(* are the environment.                                                    *)
(***************************************************************************)
EXTENDS Integers, Sequences, FiniteSets

CONSTANTS
  Wallets,             \* the externally owned accounts that call the contract
  This,                \* address(this)
  NoWallet,            \* address(0)
  Owner,               \* the deployer, Ownable's owner
  PeerIds,             \* the bytes32 peer ids callers pass
  ZeroPeer,            \* bytes32(0), the value of an unset peerId
  TOTAL_SUPPLY,
  RELAY_REWARDS_POOL,
  REWARD_DURATION,
  InitialMinStake,     \* 10_000 DMAIL in the source
  MinStakes,           \* bound: the values setMinStake is called with
  Amounts,             \* bound: the amounts of transfers and of addStake
  MaxTime              \* bound: the last block.timestamp

ASSUME AddressAssumption ==
  /\ IsFiniteSet(Wallets)
  /\ Owner \in Wallets
  /\ This \notin Wallets
  /\ NoWallet \notin Wallets

ASSUME PeerAssumption == ZeroPeer \in PeerIds

ASSUME SupplyAssumption ==
  /\ TOTAL_SUPPLY \in Nat
  /\ RELAY_REWARDS_POOL \in Nat
  /\ RELAY_REWARDS_POOL <= TOTAL_SUPPLY
  /\ REWARD_DURATION \in Nat \ {0}
  /\ InitialMinStake \in Nat
  /\ MinStakes \subseteq Nat
  /\ Amounts \subseteq Nat
  /\ MaxTime \in Nat

VARIABLES
  balances,                \* ERC20._balances
  relayNodes,              \* wallet -> RelayNode
  peerIdToWallet,
  registeredNodes,         \* address[], only ever pushed to
  minStake,
  relayRewardsDistributed,
  now                      \* block.timestamp, 0 when the contract is deployed

vars == <<balances, relayNodes, peerIdToWallet, registeredNodes, minStake,
          relayRewardsDistributed, now>>

Accounts == Wallets \cup {This}

RelayNode ==
  [peerId : PeerIds, stakedAmount : Nat, registeredAt : Nat,
   lastClaimTime : Nat, totalRewardsClaimed : Nat, isActive : BOOLEAN]

EmptyNode ==
  [peerId |-> ZeroPeer, stakedAmount |-> 0, registeredAt |-> 0,
   lastClaimTime |-> 0, totalRewardsClaimed |-> 0, isActive |-> FALSE]

-----------------------------------------------------------------------------
(* ERC20._transfer between two different accounts.                         *)
MoveTokens(from, to, amount) ==
  /\ balances[from] >= amount
  /\ balances' = [balances EXCEPT ![from] = @ - amount, ![to] = @ + amount]

getActiveNodeCount ==
  Cardinality({i \in DOMAIN registeredNodes :
                 relayNodes[registeredNodes[i]].isActive})

(* Grows with the stake, capped at 2x; in per cent.                        *)
StakeMultiplier(wallet) ==
  LET uncapped ==
        100 + ((relayNodes[wallet].stakedAmount * 100) \div (minStake * 10))
  IN  IF uncapped > 200 THEN 200 ELSE uncapped

(* Integer division throughout, as in Solidity.  Only evaluated with       *)
(* minStake # 0: the EVM reverts on division by zero.                      *)
calculateRewards(wallet) ==
  LET timeElapsed == now - relayNodes[wallet].lastClaimTime
      totalActiveNodes == getActiveNodeCount
      baseRewardPerSecond ==
        (RELAY_REWARDS_POOL \div REWARD_DURATION) \div totalActiveNodes
  IN  IF ~relayNodes[wallet].isActive \/ totalActiveNodes = 0
      THEN 0
      ELSE (baseRewardPerSecond * timeElapsed * StakeMultiplier(wallet)) \div 100

-----------------------------------------------------------------------------
(* Faulty variant: the pool is minted on top of the whole supply.          *)
MintedTwice ==
  [a \in Accounts |-> IF a = This THEN RELAY_REWARDS_POOL
                      ELSE IF a = Owner THEN TOTAL_SUPPLY ELSE 0]

(* What the constructor mints.                                             *)
InitialBalances ==
  [a \in Accounts |-> IF a = This THEN RELAY_REWARDS_POOL
                      ELSE IF a = Owner THEN TOTAL_SUPPLY - RELAY_REWARDS_POOL
                      ELSE 0]

Init ==
  /\ balances = InitialBalances
  /\ relayNodes = [w \in Wallets |-> EmptyNode]
  /\ peerIdToWallet = [p \in PeerIds |-> NoWallet]
  /\ registeredNodes = <<>>
  /\ minStake = InitialMinStake
  /\ relayRewardsDistributed = 0
  /\ now = 0

AddNode(wallet, peerId) ==
  /\ MoveTokens(wallet, This, minStake)
  /\ relayNodes' = [relayNodes EXCEPT ![wallet] =
       [peerId |-> peerId, stakedAmount |-> minStake, registeredAt |-> now,
        lastClaimTime |-> now, totalRewardsClaimed |-> 0, isActive |-> TRUE]]
  /\ peerIdToWallet' = [peerIdToWallet EXCEPT ![peerId] = wallet]
  /\ registeredNodes' = Append(registeredNodes, wallet)
  /\ UNCHANGED <<minStake, relayRewardsDistributed, now>>

(* Faulty variant: the "Peer ID already registered" require is missing.    *)
RegisterAnyPeer(wallet, peerId) ==
  /\ relayNodes[wallet].peerId = ZeroPeer
  /\ balances[wallet] >= minStake
  /\ AddNode(wallet, peerId)

(* Faulty variant: "Already registered" tests isActive, not the peer id.   *)
RegisterAgain(wallet, peerId) ==
  /\ ~relayNodes[wallet].isActive
  /\ peerIdToWallet[peerId] = NoWallet
  /\ balances[wallet] >= minStake
  /\ AddNode(wallet, peerId)

registerRelayNode(wallet, peerId) ==
  /\ relayNodes[wallet].peerId = ZeroPeer
  /\ peerIdToWallet[peerId] = NoWallet
  /\ balances[wallet] >= minStake
  /\ AddNode(wallet, peerId)

addStake(wallet, amount) ==
  /\ relayNodes[wallet].isActive
  /\ balances[wallet] >= amount
  /\ MoveTokens(wallet, This, amount)
  /\ relayNodes' = [relayNodes EXCEPT ![wallet].stakedAmount = @ + amount]
  /\ UNCHANGED <<peerIdToWallet, registeredNodes, minStake,
                 relayRewardsDistributed, now>>

PayRewards(wallet, rewards) ==
  /\ relayNodes' = [relayNodes EXCEPT ![wallet].lastClaimTime = now,
                                      ![wallet].totalRewardsClaimed = @ + rewards]
  /\ relayRewardsDistributed' = relayRewardsDistributed + rewards
  /\ MoveTokens(This, wallet, rewards)
  /\ UNCHANGED <<peerIdToWallet, registeredNodes, minStake, now>>

claimRewards(wallet) ==
  /\ relayNodes[wallet].isActive
  /\ minStake # 0
  /\ calculateRewards(wallet) > 0
  /\ relayRewardsDistributed + calculateRewards(wallet) <= RELAY_REWARDS_POOL
  /\ PayRewards(wallet, calculateRewards(wallet))

deactivateNode(wallet) ==
  /\ relayNodes[wallet].isActive
  /\ relayNodes' = [relayNodes EXCEPT ![wallet].isActive = FALSE]
  /\ UNCHANGED <<balances, peerIdToWallet, registeredNodes, minStake,
                 relayRewardsDistributed, now>>

(* Faulty variant: the stake is paid out but not reset.                    *)
WithdrawTwice(wallet) ==
  /\ ~relayNodes[wallet].isActive
  /\ relayNodes[wallet].stakedAmount > 0
  /\ MoveTokens(This, wallet, relayNodes[wallet].stakedAmount)
  /\ UNCHANGED <<relayNodes, peerIdToWallet, registeredNodes, minStake,
                 relayRewardsDistributed, now>>

withdrawStake(wallet) ==
  LET amount == relayNodes[wallet].stakedAmount
  IN  /\ ~relayNodes[wallet].isActive
      /\ amount > 0
      /\ relayNodes' = [relayNodes EXCEPT ![wallet].stakedAmount = 0]
      /\ MoveTokens(This, wallet, amount)
      /\ UNCHANGED <<peerIdToWallet, registeredNodes, minStake,
                     relayRewardsDistributed, now>>

(* onlyOwner: the caller is Owner.                                         *)
setMinStake(newMinStake) ==
  /\ minStake' = newMinStake
  /\ UNCHANGED <<balances, relayNodes, peerIdToWallet, registeredNodes,
                 relayRewardsDistributed, now>>

(* ERC20.transfer, to a wallet or to the contract itself.                  *)
transfer(from, to, amount) ==
  /\ from # to
  /\ MoveTokens(from, to, amount)
  /\ UNCHANGED <<relayNodes, peerIdToWallet, registeredNodes, minStake,
                 relayRewardsDistributed, now>>

(* Blocks pass.                                                            *)
Tick ==
  /\ now < MaxTime
  /\ now' = now + 1
  /\ UNCHANGED <<balances, relayNodes, peerIdToWallet, registeredNodes,
                 minStake, relayRewardsDistributed>>

Next ==
  \/ \E w \in Wallets, p \in PeerIds : registerRelayNode(w, p)
  \/ \E w \in Wallets, n \in Amounts : addStake(w, n)
  \/ \E w \in Wallets : claimRewards(w)
  \/ \E w \in Wallets : deactivateNode(w)
  \/ \E w \in Wallets : withdrawStake(w)
  \/ \E m \in MinStakes : setMinStake(m)
  \/ \E w \in Wallets, a \in Accounts, n \in Amounts : transfer(w, a, n)
  \/ Tick

Spec == Init /\ [][Next]_vars

-----------------------------------------------------------------------------
(* Sums of functions into Nat, as the number of unit coins they stand for: *)
(* entry k holds the coins <<k, 1>>, ..., <<k, f[k]>>.                      *)
Coins(f) == UNION {{k} \X (1..f[k]) : k \in DOMAIN f}
Total(f) == Cardinality(Coins(f))

stakes  == [w \in Wallets |-> relayNodes[w].stakedAmount]
claimed == [w \in Wallets |-> relayNodes[w].totalRewardsClaimed]

TypeOK ==
  /\ balances \in [Accounts -> Nat]
  /\ relayNodes \in [Wallets -> RelayNode]
  /\ peerIdToWallet \in [PeerIds -> Wallets \cup {NoWallet}]
  /\ registeredNodes \in Seq(Wallets)
  /\ minStake \in Nat
  /\ relayRewardsDistributed \in Nat
  /\ now \in Nat

(* No sequence of calls creates or destroys tokens.                        *)
SupplyConserved == Total(balances) = TOTAL_SUPPLY

(* The contract can pay back every stake it holds and still own what is    *)
(* left of the reward pool: rewards are never paid out of stakes, nor      *)
(* stakes out of rewards, whatever the order of claims, deactivations and  *)
(* withdrawals.                                                            *)
Solvent ==
  balances[This] >=
    (RELAY_REWARDS_POOL - relayRewardsDistributed) + Total(stakes)

(* The pool is never overdrawn, and the per-node totals never exceed what  *)
(* the contract says it distributed.                                       *)
PoolBound ==
  /\ relayRewardsDistributed <= RELAY_REWARDS_POOL
  /\ Total(claimed) <= relayRewardsDistributed

(* A registered peer id and the wallet that owns it point at each other.   *)
PeerIdsAgree ==
  /\ \A w \in Wallets :
       LET p == relayNodes[w].peerId
       IN  p # ZeroPeer => peerIdToWallet[p] = w
  /\ \A p \in PeerIds \ {ZeroPeer} :
       LET w == peerIdToWallet[p]
       IN  w # NoWallet => relayNodes[w].peerId = p

(* A wallet that was pushed to registeredNodes can be told from one that   *)
(* was not: it has a peer id, or it is the one that registered bytes32(0). *)
RegistrationVisible ==
  \A i \in DOMAIN registeredNodes :
    LET w == registeredNodes[i]
    IN  relayNodes[w].peerId # ZeroPeer \/ peerIdToWallet[ZeroPeer] = w

(* A wallet is pushed to registeredNodes (and so counted as active) once,  *)
(* unless its first registration used bytes32(0), which the "Already       *)
(* registered" require cannot tell from no registration.                   *)
CountedOnce ==
  \A i, j \in DOMAIN registeredNodes :
    (registeredNodes[i] = registeredNodes[j] /\ i # j)
       => peerIdToWallet[ZeroPeer] = registeredNodes[i]
=============================================================================
