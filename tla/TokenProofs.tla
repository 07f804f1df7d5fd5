----------------------------- MODULE TokenProofs -----------------------------
(***************************************************************************)
(* Proofs about DMailToken and TokenClient, for every set of wallets and   *)
(* relays and every amount.  First the contract by itself: its ledger, its *)
(* stakes and its peer ids.  Then its clients: a step of a relay is a call *)
(* of the contract, so what was shown holds among relays too, and what a   *)
(* relay believes of its registration is so.                               *)
(***************************************************************************)
EXTENDS TokenClient, FiniteSetTheorems, TLAPS

(* Coins of one entry: as many as the entry says.                          *)
LEMMA CoinsOfEntry ==
  ASSUME NEW k, NEW n \in Nat
  PROVE  /\ IsFiniteSet({k} \X (1..n))
         /\ Cardinality({k} \X (1..n)) = n
<1>1. IsFiniteSet({k}) /\ Cardinality({k}) = 1
  BY FS_Singleton
<1>2. IsFiniteSet(1..n) /\ Cardinality(1..n) = n
  BY FS_Interval
<1>3. /\ IsFiniteSet({k} \X (1..n))
      /\ Cardinality({k} \X (1..n)) = Cardinality({k}) * Cardinality(1..n)
  <2> DEFINE K == {k}
             N == 1..n
  <2>1. IsFiniteSet(K) /\ IsFiniteSet(N)
    BY <1>1, <1>2
  <2> HIDE DEF K, N
  <2>2. /\ IsFiniteSet(K \X N)
        /\ Cardinality(K \X N) = Cardinality(K) * Cardinality(N)
    BY <2>1, FS_Product, ZenonT(60)
  <2> QED BY <2>2 DEF K, N
<1>4. Cardinality({k}) * Cardinality(1..n) = n
  <2> DEFINE a == Cardinality({k})
             b == Cardinality(1..n)
  <2>1. a = 1 /\ b = n
    BY <1>1, <1>2
  <2> HIDE DEF a, b
  <2>2. a * b = n
    BY <2>1
  <2> QED BY <2>2 DEF a, b
<1> QED
  BY <1>3, <1>4

(* A finite table of naturals stands for finitely many coins.              *)
LEMMA CoinsFinite ==
  ASSUME NEW S, IsFiniteSet(S), NEW f \in [S -> Nat]
  PROVE  IsFiniteSet(Coins(f)) /\ Total(f) \in Nat
<1> DEFINE T == {{k} \X (1..f[k]) : k \in S}
           g == [k \in S |-> {k} \X (1..f[k])]
<1>1. g \in Surjection(S, T)
  BY DEF Surjection
<1>2. IsFiniteSet(T)
  <2> HIDE DEF T, g
  <2> QED BY <1>1, FS_Surjection
<1>3. \A X \in T : IsFiniteSet(X)
  <2> SUFFICES ASSUME NEW k \in S
               PROVE  IsFiniteSet({k} \X (1..f[k]))
    OBVIOUS
  <2> QED BY CoinsOfEntry
<1>4. IsFiniteSet(UNION T)
  <2> HIDE DEF T
  <2> QED BY <1>2, <1>3, FS_UNION
<1>5. Coins(f) = UNION T
  BY DEF Coins
<1> QED
  BY <1>4, <1>5, FS_CardinalityType DEF Total

(* What a coin is.                                                         *)
LEMMA CoinsMember ==
  ASSUME NEW S, NEW f \in [S -> Nat], NEW c
  PROVE  c \in Coins(f) <=> \E j \in S : \E i \in 1..f[j] : c = <<j, i>>
  BY DEF Coins

(* Changing one entry changes the total by the difference.                 *)
LEMMA TotalUpdate ==
  ASSUME NEW S, IsFiniteSet(S), NEW f \in [S -> Nat],
         NEW k \in S, NEW v \in Nat
  PROVE  Total([f EXCEPT ![k] = v]) = (Total(f) - f[k]) + v
<1> DEFINE g == [f EXCEPT ![k] = v]
           R == {c \in Coins(f) : c[1] # k}
           A == {k} \X (1..f[k])
           B == {k} \X (1..v)
<1>1. g \in [S -> Nat]
  OBVIOUS
<1>2. Coins(f) = R \cup A /\ R \cap A = {}
  <2>1. A \subseteq Coins(f)
    BY CoinsMember
  <2>2. \A c \in Coins(f) : c \notin R => c \in A
    BY CoinsMember
  <2> QED BY <2>1, <2>2
<1>3. Coins(g) = R \cup B /\ R \cap B = {}
  <2>1. \A j \in S : j # k => g[j] = f[j]
    OBVIOUS
  <2>2. g[k] = v
    OBVIOUS
  <2> HIDE DEF g
  <2>3. B \subseteq Coins(g)
    BY <1>1, <2>2, CoinsMember
  <2>4. ASSUME NEW c \in R PROVE c \in Coins(g)
    <3>1. PICK j \in S : \E i \in 1..f[j] : c = <<j, i>>
      BY CoinsMember
    <3>2. j # k
      BY <3>1
    <3> QED BY <1>1, <2>1, <3>1, <3>2, CoinsMember
  <2>5. ASSUME NEW c \in Coins(g) PROVE c \in R \cup B
    <3>1. PICK j \in S : \E i \in 1..g[j] : c = <<j, i>>
      BY <1>1, CoinsMember
    <3>2. CASE j = k
      BY <2>2, <3>1, <3>2
    <3>3. CASE j # k
      <4>1. c \in Coins(f)
        BY <2>1, <3>1, <3>3, CoinsMember
      <4> QED BY <3>1, <3>3, <4>1
    <3> QED BY <3>2, <3>3
  <2> QED BY <2>3, <2>4, <2>5
<1>4. IsFiniteSet(R)
  BY CoinsFinite, FS_Subset
<1>5. IsFiniteSet(A) /\ Cardinality(A) = f[k]
  BY CoinsOfEntry
<1>6. IsFiniteSet(B) /\ Cardinality(B) = v
  BY CoinsOfEntry
<1> HIDE DEF g, R, A, B
<1>7. Cardinality(R) \in Nat
  BY <1>4, FS_CardinalityType
<1>8. Cardinality({}) = 0
  BY FS_EmptySet
<1>. f[k] \in Nat
  OBVIOUS
<1>9. Total(f) = Cardinality(R) + f[k]
  <2>1. Cardinality(R \cup A)
          = Cardinality(R) + Cardinality(A) - Cardinality(R \cap A)
    BY <1>4, <1>5, FS_Union
  <2>2. Total(f) = Cardinality(R) + f[k] - 0
    BY <1>2, <1>5, <1>8, <2>1, Zenon DEF Total
  <2> QED BY <1>7, <2>2
<1>10. Total(g) = Cardinality(R) + v
  <2>1. Cardinality(R \cup B)
          = Cardinality(R) + Cardinality(B) - Cardinality(R \cap B)
    BY <1>4, <1>6, FS_Union
  <2>2. Total(g) = Cardinality(R) + v - 0
    BY <1>3, <1>6, <1>8, <2>1, Zenon DEF Total
  <2> QED BY <1>7, <2>2
<1>11. Total(g) = (Total(f) - f[k]) + v
  BY <1>7, <1>9, <1>10
<1> QED
  BY <1>11 DEF g

(* The empty table.                                                        *)
LEMMA TotalZero ==
  ASSUME NEW S
  PROVE  Total([k \in S |-> 0]) = 0
<1>1. Coins([k \in S |-> 0]) = {}
  BY DEF Coins
<1> QED
  BY <1>1, FS_EmptySet DEF Total

-----------------------------------------------------------------------------
(* Rewards are integers, whatever the table of nodes holds.                *)
LEMMA RewardsInt ==
  ASSUME TypeOK, NEW w \in Wallets, minStake # 0
  PROVE  calculateRewards(w) \in Int
<1>1. IsFiniteSet(DOMAIN registeredNodes)
  <2>1. DOMAIN registeredNodes = 1..Len(registeredNodes)
    BY DEF TypeOK
  <2>2. Len(registeredNodes) \in Nat
    BY DEF TypeOK
  <2> QED BY <2>1, <2>2, FS_Interval
<1>2. getActiveNodeCount \in Nat
  <2> DEFINE A == {i \in DOMAIN registeredNodes :
                     relayNodes[registeredNodes[i]].isActive}
  <2>1. IsFiniteSet(A)
    BY <1>1, FS_Subset
  <2> QED BY <2>1, FS_CardinalityType DEF getActiveNodeCount
<1>3. StakeMultiplier(w) \in Int
  <2>1. minStake * 10 \in Nat /\ minStake * 10 > 0
    BY DEF TypeOK
  <2>2. relayNodes[w].stakedAmount * 100 \in Int
    BY DEF TypeOK, RelayNode
  <2>3. (relayNodes[w].stakedAmount * 100) \div (minStake * 10) \in Int
    BY <2>1, <2>2
  <2> QED BY <2>3 DEF StakeMultiplier
<1>4. now - relayNodes[w].lastClaimTime \in Int
  BY DEF TypeOK, RelayNode
<1>5. RELAY_REWARDS_POOL \div REWARD_DURATION \in Int
  BY SupplyAssumption
<1>6. CASE getActiveNodeCount = 0
  BY <1>6 DEF calculateRewards
<1>7. CASE getActiveNodeCount # 0
  <2>1. (RELAY_REWARDS_POOL \div REWARD_DURATION) \div getActiveNodeCount \in Int
    BY <1>2, <1>5, <1>7
  <2> QED BY <1>3, <1>4, <2>1 DEF calculateRewards
<1> QED
  BY <1>6, <1>7

(* A transfer keeps every balance non-negative and the sum unchanged.      *)
LEMMA MoveTokensConserves ==
  ASSUME TypeOK, NEW from \in Accounts, NEW to \in Accounts, from # to,
         NEW amount \in Nat, MoveTokens(from, to, amount)
  PROVE  /\ balances' \in [Accounts -> Nat]
         /\ Total(balances') = Total(balances)
         /\ balances'[from] = balances[from] - amount
         /\ balances'[to] = balances[to] + amount
         /\ \A a \in Accounts \ {from, to} : balances'[a] = balances[a]
<1> DEFINE b1 == [balances EXCEPT ![from] = balances[from] - amount]
           b2 == [b1 EXCEPT ![to] = b1[to] + amount]
<1>1. IsFiniteSet(Accounts)
  BY AddressAssumption, FS_AddElement DEF Accounts
<1>2. balances \in [Accounts -> Nat] /\ balances[from] - amount \in Nat
  BY DEF TypeOK, MoveTokens
<1>3. b1 \in [Accounts -> Nat] /\ b1[to] + amount \in Nat
  BY <1>2
<1>4. Total(b1) = (Total(balances) - balances[from]) + (balances[from] - amount)
  BY <1>1, <1>2, TotalUpdate
<1>5. Total(b2) = (Total(b1) - b1[to]) + (b1[to] + amount)
  <2> HIDE DEF b1
  <2> QED BY <1>1, <1>3, TotalUpdate
<1>6. balances' = b2
  BY <1>2 DEF MoveTokens
<1>7. Total(balances) \in Nat
  BY <1>1, <1>2, CoinsFinite
<1>8. Total(b2) = Total(balances)
  <2>1. Total(b1) \in Nat
    BY <1>1, <1>3, CoinsFinite
  <2>2. b1[to] \in Nat /\ balances[from] \in Nat
    BY <1>2, <1>3
  <2> HIDE DEF b1, b2
  <2> QED BY <1>4, <1>5, <1>7, <2>1, <2>2
<1>9. b2 \in [Accounts -> Nat]
  BY <1>3
<1> QED
  BY <1>2, <1>6, <1>8, <1>9

-----------------------------------------------------------------------------
(* Every call leaves every field in its type: in particular no balance,    *)
(* stake or reward counter ever goes below zero.                           *)
LEMMA TypeStep == TypeOK /\ [Next]_vars => TypeOK'
<1> SUFFICES ASSUME TypeOK, [Next]_vars PROVE TypeOK'
  OBVIOUS
<1> USE DEF TypeOK
<1>a. Wallets \subseteq Accounts /\ This \in Accounts /\ This \notin Wallets
  BY AddressAssumption DEF Accounts
<1>1. ASSUME NEW w \in Wallets, NEW p \in PeerIds, registerRelayNode(w, p)
      PROVE  TypeOK'
  <2>1. balances' \in [Accounts -> Nat]
    BY <1>a, <1>1, MoveTokensConserves DEF registerRelayNode, AddNode
  <2>2. relayNodes' \in [Wallets -> RelayNode]
    BY <1>1 DEF registerRelayNode, AddNode, RelayNode
  <2> QED BY <1>1, <2>1, <2>2 DEF registerRelayNode, AddNode
<1>2. ASSUME NEW w \in Wallets, NEW n \in Amounts, addStake(w, n)
      PROVE  TypeOK'
  <2>1. balances' \in [Accounts -> Nat]
    BY <1>a, <1>2, SupplyAssumption, MoveTokensConserves DEF addStake
  <2>2. relayNodes' \in [Wallets -> RelayNode]
    <3> DEFINE v == relayNodes[w].stakedAmount + n
               rec == [relayNodes[w] EXCEPT !.stakedAmount = v]
    <3>1. v \in Nat
      BY SupplyAssumption DEF RelayNode
    <3>2. rec \in RelayNode
      <4> HIDE DEF v
      <4> QED BY <3>1 DEF RelayNode
    <3>3. relayNodes' = [relayNodes EXCEPT ![w] = rec]
      BY <1>2 DEF addStake
    <3> HIDE DEF rec
    <3> QED BY <3>2, <3>3
  <2> QED BY <1>2, <2>1, <2>2 DEF addStake
<1>3. ASSUME NEW w \in Wallets, claimRewards(w)
      PROVE  TypeOK'
  <2> DEFINE r == calculateRewards(w)
  <2>1. r \in Nat
    <3>1. minStake # 0 /\ r > 0
      BY <1>3 DEF claimRewards, PayRewards
    <3>2. r \in Int
      BY <3>1, RewardsInt
    <3> HIDE DEF r
    <3> QED BY <3>1, <3>2
  <2>2. /\ MoveTokens(This, w, r)
        /\ relayNodes' = [relayNodes EXCEPT
                            ![w].lastClaimTime = now,
                            ![w].totalRewardsClaimed = @ + r]
        /\ relayRewardsDistributed' = relayRewardsDistributed + r
        /\ UNCHANGED <<peerIdToWallet, registeredNodes, minStake, now>>
    BY <1>3 DEF claimRewards, PayRewards
  <2> HIDE DEF r
  <2>3. balances' \in [Accounts -> Nat]
    BY <1>a, <2>1, <2>2, MoveTokensConserves
  <2>4. relayNodes' \in [Wallets -> RelayNode]
    <3> DEFINE v == relayNodes[w].totalRewardsClaimed + r
               rec == [relayNodes[w] EXCEPT !.lastClaimTime = now,
                                            !.totalRewardsClaimed = v]
    <3>0. v \in Nat
      BY <2>1 DEF RelayNode
    <3>1. rec \in RelayNode
      <4> HIDE DEF v
      <4> QED BY <3>0 DEF RelayNode
    <3>2. relayNodes' = [relayNodes EXCEPT ![w] = rec]
      BY <2>2
    <3> HIDE DEF rec
    <3> QED BY <3>1, <3>2
  <2> QED BY <2>1, <2>2, <2>3, <2>4
<1>4. ASSUME NEW w \in Wallets, deactivateNode(w)
      PROVE  TypeOK'
  <2> DEFINE rec == [relayNodes[w] EXCEPT !.isActive = FALSE]
  <2>1. rec \in RelayNode
    BY DEF RelayNode
  <2>2. relayNodes' = [relayNodes EXCEPT ![w] = rec]
    BY <1>4 DEF deactivateNode
  <2> HIDE DEF rec
  <2>3. relayNodes' \in [Wallets -> RelayNode]
    BY <2>1, <2>2
  <2> QED BY <1>4, <2>3 DEF deactivateNode
<1>5. ASSUME NEW w \in Wallets, withdrawStake(w)
      PROVE  TypeOK'
  <2>1. relayNodes[w].stakedAmount \in Nat
    BY DEF RelayNode
  <2>2. balances' \in [Accounts -> Nat]
    BY <1>a, <1>5, <2>1, MoveTokensConserves DEF withdrawStake
  <2>3. relayNodes' \in [Wallets -> RelayNode]
    BY <1>5 DEF withdrawStake, RelayNode
  <2> QED BY <1>5, <2>2, <2>3 DEF withdrawStake
<1>6. ASSUME NEW m \in MinStakes, setMinStake(m)
      PROVE  TypeOK'
  BY <1>6, SupplyAssumption DEF setMinStake
<1>7. ASSUME NEW w \in Wallets, NEW a \in Accounts, NEW n \in Amounts,
             transfer(w, a, n)
      PROVE  TypeOK'
  <2>1. balances' \in [Accounts -> Nat]
    BY <1>a, <1>7, SupplyAssumption, MoveTokensConserves DEF transfer
  <2> QED BY <1>7, <2>1 DEF transfer
<1>8. CASE Tick
  BY <1>8 DEF Tick
<1>9. CASE UNCHANGED vars
  BY <1>9 DEF vars
<1> QED
  BY <1>1, <1>2, <1>3, <1>4, <1>5, <1>6, <1>7, <1>8, <1>9 DEF Next

(* Balances, stakes and counters are natural numbers, a relay's record has *)
(* the fields of the struct, and time and identifiers are of their kind.   *)
THEOREM TypeCorrect == Spec => []TypeOK
<1>1. Init => TypeOK
  BY AddressAssumption, PeerAssumption, SupplyAssumption
  DEF Init, InitialBalances, TypeOK, Accounts, RelayNode, EmptyNode
<1> QED
  BY <1>1, TypeStep, PTL DEF Spec

-----------------------------------------------------------------------------
(* The accounting invariants that are preserved together.                  *)
LedgerInv == TypeOK /\ SupplyConserved /\ Solvent /\ PoolBound

(* Setting one wallet's stake and claim total changes their sums by the    *)
(* difference.                                                             *)
LEMMA SumsUpdate ==
  ASSUME TypeOK, TypeOK', NEW w \in Wallets,
         \A u \in Wallets \ {w} : relayNodes'[u] = relayNodes[u]
  PROVE  /\ Total(stakes') = (Total(stakes) - relayNodes[w].stakedAmount)
                                + relayNodes'[w].stakedAmount
         /\ Total(claimed') = (Total(claimed) - relayNodes[w].totalRewardsClaimed)
                                + relayNodes'[w].totalRewardsClaimed
         /\ Total(stakes) \in Nat
         /\ Total(claimed) \in Nat
<1> DEFINE s == relayNodes'[w].stakedAmount
           c == relayNodes'[w].totalRewardsClaimed
<1>1. /\ stakes \in [Wallets -> Nat]
      /\ claimed \in [Wallets -> Nat]
      /\ s \in Nat
      /\ c \in Nat
      /\ stakes[w] = relayNodes[w].stakedAmount
      /\ claimed[w] = relayNodes[w].totalRewardsClaimed
  BY DEF TypeOK, RelayNode, stakes, claimed
<1>2. stakes' = [stakes EXCEPT ![w] = s]
  BY DEF stakes
<1>3. claimed' = [claimed EXCEPT ![w] = c]
  BY DEF claimed
<1> HIDE DEF stakes, claimed, s, c
<1>w. IsFiniteSet(Wallets)
  BY AddressAssumption
<1>4. Total([stakes EXCEPT ![w] = s]) = (Total(stakes) - stakes[w]) + s
  BY <1>1, <1>w, TotalUpdate, Zenon
<1>5. Total([claimed EXCEPT ![w] = c]) = (Total(claimed) - claimed[w]) + c
  BY <1>1, <1>w, TotalUpdate, Zenon
<1>6. Total(stakes) \in Nat /\ Total(claimed) \in Nat
  BY <1>1, AddressAssumption, CoinsFinite
<1> QED
  BY <1>1, <1>2, <1>3, <1>4, <1>5, <1>6, Zenon DEF s, c

(* Nothing but relayNodes enters the sums.                                 *)
LEMMA SumsUnchanged ==
  ASSUME relayNodes' = relayNodes
  PROVE  Total(stakes') = Total(stakes) /\ Total(claimed') = Total(claimed)
<1>1. stakes' = stakes /\ claimed' = claimed
  BY DEF stakes, claimed
<1> QED
  BY <1>1

(* Every transaction keeps the ledger balanced.                            *)
LEMMA LedgerStep == LedgerInv /\ [Next]_vars => LedgerInv'
<1> SUFFICES ASSUME LedgerInv, [Next]_vars PROVE LedgerInv'
  OBVIOUS
<1>t. TypeOK /\ TypeOK'
  BY TypeStep DEF LedgerInv
<1>a. Wallets \subseteq Accounts /\ This \in Accounts /\ This \notin Wallets
  BY AddressAssumption DEF Accounts
<1>n. /\ balances[This] \in Nat
      /\ relayRewardsDistributed \in Nat
      /\ RELAY_REWARDS_POOL \in Nat
      /\ \A w \in Wallets : /\ relayNodes[w].stakedAmount \in Nat
                             /\ relayNodes[w].totalRewardsClaimed \in Nat
  BY <1>t, <1>a, SupplyAssumption DEF TypeOK, RelayNode
<1> USE DEF LedgerInv, SupplyConserved, Solvent, PoolBound
<1>1. ASSUME NEW w \in Wallets, NEW p \in PeerIds, registerRelayNode(w, p)
      PROVE  LedgerInv'
  <2>1. /\ minStake \in Nat
        /\ MoveTokens(w, This, minStake)
        /\ relayNodes'[w].stakedAmount = minStake
        /\ relayNodes'[w].totalRewardsClaimed = 0
        /\ relayRewardsDistributed' = relayRewardsDistributed
        /\ \A u \in Wallets \ {w} : relayNodes'[u] = relayNodes[u]
    BY <1>t, <1>1 DEF registerRelayNode, AddNode, TypeOK
  <2>2. /\ Total(balances') = Total(balances)
        /\ balances'[This] = balances[This] + minStake
    BY <1>t, <1>a, <2>1, MoveTokensConserves
  <2> QED BY <1>t, <1>n, <2>1, <2>2, SumsUpdate
<1>2. ASSUME NEW w \in Wallets, NEW n \in Amounts, addStake(w, n)
      PROVE  LedgerInv'
  <2>1. /\ n \in Nat
        /\ MoveTokens(w, This, n)
        /\ relayNodes'[w].stakedAmount = relayNodes[w].stakedAmount + n
        /\ relayNodes'[w].totalRewardsClaimed = relayNodes[w].totalRewardsClaimed
        /\ relayRewardsDistributed' = relayRewardsDistributed
        /\ \A u \in Wallets \ {w} : relayNodes'[u] = relayNodes[u]
    BY <1>t, <1>2, SupplyAssumption DEF addStake, TypeOK, RelayNode
  <2>2. /\ Total(balances') = Total(balances)
        /\ balances'[This] = balances[This] + n
    BY <1>t, <1>a, <2>1, MoveTokensConserves
  <2> QED BY <1>t, <1>n, <2>1, <2>2, SumsUpdate
<1>3. ASSUME NEW w \in Wallets, claimRewards(w)
      PROVE  LedgerInv'
  <2> DEFINE r == calculateRewards(w)
  <2>1. /\ minStake # 0
        /\ r > 0
        /\ MoveTokens(This, w, r)
        /\ relayRewardsDistributed + r <= RELAY_REWARDS_POOL
        /\ relayRewardsDistributed' = relayRewardsDistributed + r
        /\ relayNodes' = [relayNodes EXCEPT
                            ![w].lastClaimTime = now,
                            ![w].totalRewardsClaimed = @ + r]
    BY <1>3 DEF claimRewards, PayRewards
  <2>2. r \in Int
    BY <1>t, <2>1, RewardsInt
  <2> HIDE DEF r
  <2>3. r \in Nat
    BY <2>1, <2>2
  <2>4. /\ relayNodes'[w].stakedAmount = relayNodes[w].stakedAmount
        /\ relayNodes'[w].totalRewardsClaimed = relayNodes[w].totalRewardsClaimed + r
        /\ \A u \in Wallets \ {w} : relayNodes'[u] = relayNodes[u]
    BY <1>t, <2>1 DEF TypeOK, RelayNode
  <2>5. /\ Total(balances') = Total(balances)
        /\ balances'[This] = balances[This] - r
    BY <1>t, <1>a, <2>1, <2>3, MoveTokensConserves
  <2>6. /\ Total(stakes) \in Nat
        /\ Total(claimed) \in Nat
        /\ Total(stakes') = Total(stakes)
        /\ Total(claimed') = Total(claimed) + r
    BY <1>t, <1>n, <2>3, <2>4, SumsUpdate
  <2> QED BY <1>t, <1>n, <2>1, <2>3, <2>5, <2>6
<1>4. ASSUME NEW w \in Wallets, deactivateNode(w)
      PROVE  LedgerInv'
  <2>1. /\ relayNodes'[w].stakedAmount = relayNodes[w].stakedAmount
        /\ relayNodes'[w].totalRewardsClaimed = relayNodes[w].totalRewardsClaimed
        /\ \A u \in Wallets \ {w} : relayNodes'[u] = relayNodes[u]
        /\ UNCHANGED <<balances, relayRewardsDistributed>>
    BY <1>t, <1>4 DEF deactivateNode, TypeOK, RelayNode
  <2> QED BY <1>t, <1>n, <2>1, SumsUpdate
<1>5. ASSUME NEW w \in Wallets, withdrawStake(w)
      PROVE  LedgerInv'
  <2>1. /\ MoveTokens(This, w, relayNodes[w].stakedAmount)
        /\ relayNodes'[w].stakedAmount = 0
        /\ relayNodes'[w].totalRewardsClaimed = relayNodes[w].totalRewardsClaimed
        /\ relayRewardsDistributed' = relayRewardsDistributed
        /\ \A u \in Wallets \ {w} : relayNodes'[u] = relayNodes[u]
    BY <1>t, <1>5 DEF withdrawStake, TypeOK, RelayNode
  <2>2. /\ Total(balances') = Total(balances)
        /\ balances'[This] = balances[This] - relayNodes[w].stakedAmount
    BY <1>t, <1>a, <1>n, <2>1, MoveTokensConserves
  <2> QED BY <1>t, <1>n, <2>1, <2>2, SumsUpdate
<1>6. ASSUME NEW m \in MinStakes, setMinStake(m)
      PROVE  LedgerInv'
  BY <1>t, <1>6, SumsUnchanged DEF setMinStake
<1>7. ASSUME NEW w \in Wallets, NEW a \in Accounts, NEW n \in Amounts,
             transfer(w, a, n)
      PROVE  LedgerInv'
  <2>1. /\ n \in Nat
        /\ w # a
        /\ MoveTokens(w, a, n)
        /\ UNCHANGED <<relayNodes, relayRewardsDistributed>>
    BY <1>7, SupplyAssumption DEF transfer
  <2>2. Total(balances') = Total(balances)
    BY <1>t, <1>a, <2>1, MoveTokensConserves
  <2>3. balances'[This] >= balances[This]
    BY <1>t, <1>a, <1>n, <2>1, MoveTokensConserves
  <2>4. balances'[This] \in Nat
    BY <1>t, <1>a DEF TypeOK
  <2>5. Total(stakes) \in Nat
    <3>1. stakes \in [Wallets -> Nat]
      BY <1>n DEF stakes
    <3> QED BY <3>1, AddressAssumption, CoinsFinite
  <2> QED BY <1>t, <1>n, <2>1, <2>2, <2>3, <2>4, <2>5, SumsUnchanged
<1>8. CASE Tick
  BY <1>t, <1>8, SumsUnchanged DEF Tick
<1>9. CASE UNCHANGED vars
  BY <1>t, <1>9, SumsUnchanged DEF vars
<1> QED
  BY <1>1, <1>2, <1>3, <1>4, <1>5, <1>6, <1>7, <1>8, <1>9 DEF Next

(* At deployment the whole supply is split between the owner and the       *)
(* contract.                                                               *)
LEMMA LedgerInit == Init => LedgerInv
<1> SUFFICES ASSUME Init PROVE LedgerInv
  OBVIOUS
<1> DEFINE z  == [a \in Accounts |-> 0]
           b1 == [z EXCEPT ![This] = RELAY_REWARDS_POOL]
           b2 == [b1 EXCEPT ![Owner] = TOTAL_SUPPLY - RELAY_REWARDS_POOL]
<1>1. TypeOK
  BY AddressAssumption, PeerAssumption, SupplyAssumption
  DEF Init, InitialBalances, TypeOK, Accounts, RelayNode, EmptyNode
<1>2. balances = b2
  BY AddressAssumption DEF Init, InitialBalances, Accounts
<1>3. IsFiniteSet(Accounts) /\ This \in Accounts /\ Owner \in Accounts
      /\ This # Owner
  BY AddressAssumption, FS_AddElement DEF Accounts
<1>4. /\ z \in [Accounts -> Nat]
      /\ b1 \in [Accounts -> Nat]
      /\ TOTAL_SUPPLY - RELAY_REWARDS_POOL \in Nat
      /\ z[This] = 0
      /\ b1[Owner] = 0
  BY <1>3, SupplyAssumption
<1>5. Total(z) = 0
  BY TotalZero
<1>6. Total(b1) = (Total(z) - z[This]) + RELAY_REWARDS_POOL
  BY <1>3, <1>4, SupplyAssumption, TotalUpdate
<1>7. Total(b2) = (Total(b1) - b1[Owner]) + (TOTAL_SUPPLY - RELAY_REWARDS_POOL)
  <2> DEFINE rest == TOTAL_SUPPLY - RELAY_REWARDS_POOL
  <2>1. /\ IsFiniteSet(Accounts) /\ Owner \in Accounts
        /\ b1 \in [Accounts -> Nat] /\ rest \in Nat
    BY <1>3, <1>4
  <2> HIDE DEF z, b1, rest
  <2>2. Total([b1 EXCEPT ![Owner] = rest]) = (Total(b1) - b1[Owner]) + rest
    BY <2>1, TotalUpdate
  <2> QED BY <2>2 DEF rest
<1>8. SupplyConserved
  <2>1. Total(b2) = TOTAL_SUPPLY
    <3> HIDE DEF z, b1, b2
    <3>1. Total(b1) = RELAY_REWARDS_POOL
      BY <1>4, <1>5, <1>6, SupplyAssumption
    <3> QED BY <1>4, <1>7, <3>1, SupplyAssumption
  <2> QED BY <1>2, <2>1 DEF SupplyConserved
<1>9. Total(stakes) = 0 /\ Total(claimed) = 0
  <2>1. stakes = [w \in Wallets |-> 0] /\ claimed = [w \in Wallets |-> 0]
    BY DEF Init, InitialBalances, EmptyNode, stakes, claimed
  <2> QED BY <2>1, TotalZero
<1>10. balances[This] = RELAY_REWARDS_POOL /\ relayRewardsDistributed = 0
  BY AddressAssumption DEF Init, InitialBalances, Accounts
<1> QED
  BY <1>1, <1>8, <1>9, <1>10, SupplyAssumption
  DEF LedgerInv, Solvent, PoolBound

(* For every set of wallets, peer ids and amounts: no sequence of calls    *)
(* creates or destroys tokens, pays rewards out of stakes or stakes out of *)
(* rewards, or overdraws the reward pool.                                  *)
THEOREM LedgerSafe == Spec => [](SupplyConserved /\ Solvent /\ PoolBound)
<1>1. LedgerInv => SupplyConserved /\ Solvent /\ PoolBound
  BY DEF LedgerInv
<1> QED
  BY <1>1, LedgerInit, LedgerStep, PTL DEF Spec

(* A stake that its owner may withdraw is always covered by the contract's *)
(* balance, so withdrawStake cannot fail for lack of funds.                *)
LEMMA EntryBound ==
  ASSUME NEW S, IsFiniteSet(S), NEW f \in [S -> Nat], NEW k \in S
  PROVE  f[k] <= Total(f)
<1>1. Total([f EXCEPT ![k] = 0]) = (Total(f) - f[k]) + 0
  <2>1. 0 \in Nat
    OBVIOUS
  <2> QED BY <2>1, TotalUpdate, Zenon
<1>2. [f EXCEPT ![k] = 0] \in [S -> Nat]
  OBVIOUS
<1>3. Total([f EXCEPT ![k] = 0]) \in Nat
  BY <1>2, CoinsFinite, Zenon
<1>4. Total(f) \in Nat /\ f[k] \in Nat
  BY CoinsFinite
<1> QED
  BY <1>1, <1>3, <1>4

(* Every stake is covered, in every reachable state.                       *)
THEOREM StakesCovered ==
  Spec => [](\A w \in Wallets : relayNodes[w].stakedAmount <= balances[This])
<1> DEFINE Covered == \A w \in Wallets :
                        relayNodes[w].stakedAmount <= balances[This]
<1>1. LedgerInv => Covered
  <2> SUFFICES ASSUME LedgerInv, NEW w \in Wallets
               PROVE  relayNodes[w].stakedAmount <= balances[This]
    OBVIOUS
  <2>1. /\ stakes \in [Wallets -> Nat]
        /\ stakes[w] = relayNodes[w].stakedAmount
        /\ balances[This] \in Nat
        /\ relayRewardsDistributed \in Nat
    BY DEF LedgerInv, TypeOK, RelayNode, stakes, Accounts
  <2>2. stakes[w] <= Total(stakes) /\ Total(stakes) \in Nat
    BY <2>1, AddressAssumption, EntryBound, CoinsFinite
  <2> QED BY <2>1, <2>2, SupplyAssumption
          DEF LedgerInv, Solvent, PoolBound
<1> QED
  BY <1>1, LedgerInit, LedgerStep, PTL DEF Spec

-----------------------------------------------------------------------------
IdentityInv == TypeOK /\ PeerIdsAgree /\ RegistrationVisible /\ CountedOnce

(* Every transaction keeps peer ids, records and the count in step.        *)
LEMMA IdentityStep == IdentityInv /\ [Next]_vars => IdentityInv'
<1> SUFFICES ASSUME IdentityInv, [Next]_vars PROVE IdentityInv'
  OBVIOUS
<1>t. TypeOK /\ TypeOK'
  BY TypeStep DEF IdentityInv
<1>1. ASSUME NEW w \in Wallets, NEW p \in PeerIds, registerRelayNode(w, p)
      PROVE  IdentityInv'
  <2>1. /\ relayNodes[w].peerId = ZeroPeer
        /\ peerIdToWallet[p] = NoWallet
        /\ w # NoWallet
        /\ relayNodes'[w].peerId = p
        /\ \A u \in Wallets \ {w} : relayNodes'[u] = relayNodes[u]
        /\ peerIdToWallet'[p] = w
        /\ \A q \in PeerIds \ {p} : peerIdToWallet'[q] = peerIdToWallet[q]
    BY <1>t, <1>1, AddressAssumption DEF registerRelayNode, AddNode, TypeOK
  <2>2. PeerIdsAgree'
    <3>1. ASSUME NEW u \in Wallets, relayNodes'[u].peerId # ZeroPeer
          PROVE  peerIdToWallet'[relayNodes'[u].peerId] = u
      <4>1. relayNodes[u].peerId \in PeerIds
        BY <1>t DEF TypeOK, RelayNode
      <4> QED BY <1>t, <2>1, <3>1, <4>1, AddressAssumption
              DEF IdentityInv, PeerIdsAgree
    <3>2. ASSUME NEW q \in PeerIds \ {ZeroPeer}, peerIdToWallet'[q] # NoWallet
          PROVE  relayNodes'[peerIdToWallet'[q]].peerId = q
      <4>1. CASE q = p
        BY <2>1, <4>1
      <4>2. CASE q # p
        <5>1. /\ peerIdToWallet'[q] = peerIdToWallet[q]
              /\ peerIdToWallet[q] \in Wallets
          BY <1>t, <2>1, <3>2, <4>2 DEF TypeOK
        <5>2. relayNodes[peerIdToWallet[q]].peerId = q
          BY <3>2, <5>1 DEF IdentityInv, PeerIdsAgree
        <5> QED BY <2>1, <3>2, <5>1, <5>2
      <4> QED BY <4>1, <4>2
    <3> QED BY <3>1, <3>2 DEF PeerIdsAgree
  <2>3. /\ registeredNodes \in Seq(Wallets)
        /\ registeredNodes' = Append(registeredNodes, w)
    BY <1>t, <1>1 DEF registerRelayNode, AddNode, TypeOK
  <2>4. /\ DOMAIN registeredNodes' = DOMAIN registeredNodes
                                       \cup {Len(registeredNodes) + 1}
        /\ registeredNodes'[Len(registeredNodes) + 1] = w
        /\ \A i \in DOMAIN registeredNodes :
             registeredNodes'[i] = registeredNodes[i]
        /\ \A i \in DOMAIN registeredNodes : registeredNodes[i] \in Wallets
    BY <2>3
  <2>5. \A u \in Wallets : peerIdToWallet[ZeroPeer] = u
                            => peerIdToWallet'[ZeroPeer] = u
    BY <2>1, PeerAssumption, AddressAssumption
  <2>6. RegistrationVisible'
    <3>1. ASSUME NEW i \in DOMAIN registeredNodes'
          PROVE  LET u == registeredNodes'[i]
                 IN  \/ relayNodes'[u].peerId # ZeroPeer
                     \/ peerIdToWallet'[ZeroPeer] = u
      <4>1. CASE registeredNodes'[i] = w
        BY <2>1, <4>1
      <4>2. CASE registeredNodes'[i] # w
        <5>1. /\ i \in DOMAIN registeredNodes
              /\ registeredNodes'[i] = registeredNodes[i]
              /\ registeredNodes[i] \in Wallets \ {w}
          BY <2>4, <3>1, <4>2
        <5> QED BY <2>1, <2>5, <5>1 DEF IdentityInv, RegistrationVisible
      <4> QED BY <4>1, <4>2
    <3> QED BY <3>1 DEF RegistrationVisible
  <2>7. CountedOnce'
    <3>1. ASSUME NEW i \in DOMAIN registeredNodes',
                 NEW j \in DOMAIN registeredNodes',
                 registeredNodes'[i] = registeredNodes'[j], i # j
          PROVE  peerIdToWallet'[ZeroPeer] = registeredNodes'[i]
      <4>1. CASE i \in DOMAIN registeredNodes /\ j \in DOMAIN registeredNodes
        BY <2>4, <2>5, <3>1, <4>1 DEF IdentityInv, CountedOnce
      <4>2. CASE registeredNodes'[i] = w /\ \E l \in DOMAIN registeredNodes :
                                               registeredNodes[l] = w
        BY <2>1, <2>5, <4>2 DEF IdentityInv, RegistrationVisible
      <4> QED BY <2>4, <3>1, <4>1, <4>2
    <3> QED BY <3>1 DEF CountedOnce
  <2> QED BY <1>t, <2>2, <2>6, <2>7 DEF IdentityInv
<1>2. ASSUME \A w \in Wallets : relayNodes'[w].peerId = relayNodes[w].peerId,
             peerIdToWallet' = peerIdToWallet,
             registeredNodes' = registeredNodes
      PROVE  IdentityInv'
  <2>1. /\ \A i \in DOMAIN registeredNodes : registeredNodes[i] \in Wallets
        /\ \A p \in PeerIds : peerIdToWallet[p] \in Wallets \cup {NoWallet}
    BY <1>t DEF TypeOK
  <2>2. PeerIdsAgree'
    BY <1>2, <2>1 DEF IdentityInv, PeerIdsAgree
  <2>3. RegistrationVisible' /\ CountedOnce'
    BY <1>2, <2>1 DEF IdentityInv, RegistrationVisible, CountedOnce
  <2> QED BY <1>t, <2>2, <2>3 DEF IdentityInv
<1>3. ASSUME NEW w \in Wallets, NEW n \in Amounts, addStake(w, n)
      PROVE  IdentityInv'
  BY <1>t, <1>2, <1>3 DEF addStake, TypeOK, RelayNode
<1>4. ASSUME NEW w \in Wallets, claimRewards(w)
      PROVE  IdentityInv'
  BY <1>t, <1>2, <1>4 DEF claimRewards, PayRewards, TypeOK, RelayNode
<1>5. ASSUME NEW w \in Wallets, deactivateNode(w)
      PROVE  IdentityInv'
  BY <1>t, <1>2, <1>5 DEF deactivateNode, TypeOK, RelayNode
<1>6. ASSUME NEW w \in Wallets, withdrawStake(w)
      PROVE  IdentityInv'
  BY <1>t, <1>2, <1>6 DEF withdrawStake, TypeOK, RelayNode
<1>7. ASSUME NEW m \in MinStakes, setMinStake(m)
      PROVE  IdentityInv'
  BY <1>2, <1>7 DEF setMinStake
<1>8. ASSUME NEW w \in Wallets, NEW a \in Accounts, NEW n \in Amounts,
             transfer(w, a, n)
      PROVE  IdentityInv'
  BY <1>2, <1>8 DEF transfer
<1>9. CASE Tick
  BY <1>2, <1>9 DEF Tick
<1>10. CASE UNCHANGED vars
  BY <1>2, <1>10 DEF vars
<1> QED
  BY <1>1, <1>3, <1>4, <1>5, <1>6, <1>7, <1>8, <1>9, <1>10 DEF Next

(* Peer ids and wallets always point at each other, and a wallet is        *)
(* counted as an active node at most once, for any number of wallets and   *)
(* peer ids (the exception being the wallet that registered bytes32(0)).   *)
THEOREM IdentitiesSafe == Spec => [](PeerIdsAgree /\ CountedOnce)
<1>1. Init => IdentityInv
  <2> SUFFICES ASSUME Init PROVE IdentityInv
    OBVIOUS
  <2>1. TypeOK
    BY LedgerInit DEF LedgerInv
  <2>2. PeerIdsAgree /\ RegistrationVisible /\ CountedOnce
    BY DEF Init, InitialBalances, EmptyNode, PeerIdsAgree, RegistrationVisible, CountedOnce
  <2> QED BY <2>1, <2>2 DEF IdentityInv
<1>2. IdentityInv => PeerIdsAgree /\ CountedOnce
  BY DEF IdentityInv
<1> QED
  BY <1>1, <1>2, IdentityStep, PTL DEF Spec

-----------------------------------------------------------------------------
Processes ==
  [pc : {"off", "running", "registering", "registration sent", "claim sent"},
   peerId : PeerIds, isRegisteredOnChain : BOOLEAN]

RelayTypeOK == relay \in [Relays -> Processes]

(* The calls any wallet makes are the contract's.                          *)
LEMMA AnyCallIsNext == AnyCall => Next
BY DEF AnyCall, StakingCalls, ClaimingCalls, LeavingCalls, TransferCalls,
       OwnerAndTime, Next

(* A step of a client is a call of the contract or leaves it alone.        *)
LEMMA ClientStep ==
  ASSUME RelayTypeOK, [ClientNext]_clientVars
  PROVE  [Next]_vars
<1>1. ASSUME NEW w \in Relays, Registering(w)
      PROVE  [Next]_vars
  <2>1. w \in Wallets /\ relay[w].peerId \in PeerIds
    BY RelayAssumption DEF RelayTypeOK, Processes
  <2> QED
    BY <1>1, <2>1
    DEF Registering, initializeTokenClient, SendRegistration,
        MineRegistration, Next
<1>2. ASSUME NEW w \in Relays, Claiming(w)
      PROVE  [Next]_vars
  <2>1. w \in Wallets
    BY RelayAssumption
  <2> QED BY <1>2, <2>1 DEF Claiming, SendClaim, MineClaim, Next
<1>3. ASSUME NEW w \in Relays, Die(w)
      PROVE  [Next]_vars
  BY <1>3 DEF Die
<1>4. CASE UNCHANGED clientVars
  BY <1>4 DEF clientVars
<1> QED BY <1>1, <1>2, <1>3, <1>4, AnyCallIsNext DEF ClientNext

(* The process of a relay keeps its type.                                  *)
LEMMA RelayTypeStep == RelayTypeOK /\ [ClientNext]_clientVars => RelayTypeOK'
<1> SUFFICES ASSUME RelayTypeOK, [ClientNext]_clientVars
             PROVE  RelayTypeOK'
  OBVIOUS
<1>1. Off \in Processes /\ Failed \in Processes
  BY PeerAssumption DEF Off, Failed, Processes
<1>2. ASSUME NEW w \in Relays, Registering(w)
      PROVE  RelayTypeOK'
  <2>1. CASE \E p \in PeerIds \ {ZeroPeer} : initializeTokenClient(w, p)
    <3>1. PICK p \in PeerIds : initializeTokenClient(w, p)
      BY <2>1
    <3>2. /\ [Failed EXCEPT !.isRegisteredOnChain = TRUE] \in Processes
          /\ [Off EXCEPT !.pc = "registering", !.peerId = p] \in Processes
      BY <1>1 DEF Processes
    <3> QED BY <1>1, <3>1, <3>2 DEF initializeTokenClient, Goes, RelayTypeOK
  <2>2. CASE SendRegistration(w)
    <3>1. [relay[w] EXCEPT !.pc = "registration sent"] \in Processes
      BY DEF RelayTypeOK, Processes
    <3> QED BY <1>1, <2>2, <3>1 DEF SendRegistration, Goes, RelayTypeOK
  <2>3. CASE MineRegistration(w)
    <3>1. [relay[w] EXCEPT !.pc = "running", !.isRegisteredOnChain = TRUE]
            \in Processes
      BY DEF RelayTypeOK, Processes
    <3> QED BY <1>1, <2>3, <3>1 DEF MineRegistration, Goes, RelayTypeOK
  <2> QED BY <1>2, <2>1, <2>2, <2>3 DEF Registering
<1>3. ASSUME NEW w \in Relays, Claiming(w)
      PROVE  RelayTypeOK'
  <2>1. /\ [relay[w] EXCEPT !.pc = "claim sent"] \in Processes
        /\ [relay[w] EXCEPT !.pc = "running"] \in Processes
    BY DEF RelayTypeOK, Processes
  <2> QED BY <1>3, <2>1 DEF Claiming, SendClaim, MineClaim, Goes, RelayTypeOK
<1>4. ASSUME NEW w \in Relays, Die(w)
      PROVE  RelayTypeOK'
  BY <1>1, <1>4 DEF Die, Goes, RelayTypeOK
<1>5. CASE UNCHANGED relay
  BY <1>5 DEF RelayTypeOK
<1> QED BY <1>2, <1>3, <1>4, <1>5 DEF ClientNext, clientVars

-----------------------------------------------------------------------------
Listed(w) == \E i \in DOMAIN registeredNodes : registeredNodes[i] = w

(* An active node has been pushed to registeredNodes.                      *)
ActiveListed == \A w \in Wallets : relayNodes[w].isActive => Listed(w)

(* Nothing is ever taken off the list, and an assigned peer id stays with  *)
(* its wallet.                                                             *)
LEMMA RegistrationKept ==
  ASSUME TypeOK, [Next]_vars
  PROVE  /\ \A w : Listed(w) => Listed(w)'
         /\ \A p \in PeerIds :
              peerIdToWallet[p] # NoWallet
                => peerIdToWallet'[p] = peerIdToWallet[p]
<1>1. ASSUME NEW w \in Wallets, NEW p \in PeerIds, registerRelayNode(w, p)
      PROVE  /\ \A v : Listed(v) => Listed(v)'
             /\ \A q \in PeerIds :
                  peerIdToWallet[q] # NoWallet
                    => peerIdToWallet'[q] = peerIdToWallet[q]
  BY <1>1 DEF TypeOK, registerRelayNode, AddNode, Listed
<1>2. CASE UNCHANGED <<registeredNodes, peerIdToWallet>>
  BY <1>2 DEF Listed
<1> QED
  BY <1>1, <1>2
  DEF Next, vars, addStake, claimRewards, PayRewards, deactivateNode,
      withdrawStake, setMinStake, transfer, Tick

(* Registering lists a node, and no other call makes one active.           *)
LEMMA ActiveStep ==
  ASSUME TypeOK, ActiveListed, [Next]_vars
  PROVE  ActiveListed'
<1> SUFFICES ASSUME NEW w \in Wallets, relayNodes'[w].isActive
             PROVE  Listed(w)'
  BY DEF ActiveListed
<1>1. CASE relayNodes[w].isActive
  BY <1>1, RegistrationKept DEF ActiveListed
<1>2. CASE ~relayNodes[w].isActive
  <2>1. PICK v \in Wallets, p \in PeerIds : registerRelayNode(v, p)
    <3>1. relayNodes[w] \in RelayNode
      BY DEF TypeOK
    <3>2. ASSUME NEW v \in Wallets,
                 \/ \E n \in Amounts : addStake(v, n)
                 \/ claimRewards(v)
          PROVE  relayNodes'[w].isActive = relayNodes[w].isActive
      BY <3>1, <3>2 DEF addStake, claimRewards, PayRewards, RelayNode, TypeOK
    <3>3. ASSUME NEW v \in Wallets, deactivateNode(v) \/ withdrawStake(v)
          PROVE  ~relayNodes'[w].isActive
      BY <1>2, <3>1, <3>3 DEF deactivateNode, withdrawStake, RelayNode, TypeOK
    <3>4. CASE UNCHANGED relayNodes
      BY <1>2, <3>4
    <3> QED
      BY <1>2, <3>2, <3>3, <3>4
      DEF Next, vars, setMinStake, transfer, Tick
  <2>2. v = w
    BY <1>2, <2>1 DEF registerRelayNode, AddNode, TypeOK
  <2>3. /\ registeredNodes \in Seq(Wallets)
        /\ registeredNodes' = Append(registeredNodes, w)
    BY <2>1, <2>2 DEF registerRelayNode, AddNode, TypeOK
  <2>4. /\ Len(registeredNodes) + 1 \in DOMAIN registeredNodes'
        /\ registeredNodes'[Len(registeredNodes) + 1] = w
    BY <2>3
  <2> QED BY <2>4 DEF Listed
<1> QED BY <1>1, <1>2

-----------------------------------------------------------------------------
(* What RegisteredTrue says of one process.                                *)
TrueOf(w, process) ==
  process.isRegisteredOnChain =>
    /\ Listed(w)
    /\ process.peerId # ZeroPeer => peerIdToWallet[process.peerId] = w

(* What is true of a process stays true while the contract moves on.       *)
LEMMA TrueKept ==
  ASSUME TypeOK, [Next]_vars, NEW w \in Wallets, NEW process \in Processes,
         TrueOf(w, process)
  PROVE  TrueOf(w, process)'
<1>1. process.peerId \in PeerIds /\ w # NoWallet
  BY AddressAssumption DEF Processes
<1> QED BY <1>1, RegistrationKept DEF TrueOf

(* A relay that finds itself active is listed, one whose registration is   *)
(* mined is listed with its peer id, and no later call undoes either.      *)
LEMMA RegisteredStep ==
  ASSUME TypeOK, ActiveListed, RelayTypeOK, RegisteredTrue,
         [ClientNext]_clientVars
  PROVE  RegisteredTrue'
<1>1. [Next]_vars
  BY ClientStep
<1> SUFFICES ASSUME NEW w \in Relays, NEW next, next = relay'[w]
             PROVE  TrueOf(w, next)'
  BY DEF RegisteredTrue, TrueOf, Listed
<1>2. w \in Wallets
  BY RelayAssumption
<1>3. relay[w] \in Processes /\ next \in Processes
  BY RelayTypeStep DEF RelayTypeOK
<1>4. TrueOf(w, relay[w])
  BY DEF RegisteredTrue, TrueOf, Listed
<1>5. CASE /\ next.isRegisteredOnChain => relay[w].isRegisteredOnChain
           /\ next.peerId = relay[w].peerId
  <2>1. TrueOf(w, next)
    BY <1>4, <1>5 DEF TrueOf
  <2> QED BY <1>1, <1>2, <1>3, <2>1, TrueKept
<1>6. CASE ~next.isRegisteredOnChain
  BY <1>6 DEF TrueOf
<1>7. CASE \E p \in PeerIds \ {ZeroPeer} : initializeTokenClient(w, p)
  <2>1. CASE next.isRegisteredOnChain
    <3>1. relayNodes[w].isActive /\ next.peerId = ZeroPeer
      BY <1>7, <2>1
      DEF initializeTokenClient, Goes, RelayTypeOK, RewardsRevert, Failed, Off
    <3>2. TrueOf(w, next)
      BY <1>2, <3>1 DEF ActiveListed, TrueOf
    <3> QED BY <1>1, <1>2, <1>3, <3>2, TrueKept
  <2> QED BY <1>6, <2>1
<1>8. CASE MineRegistration(w)
  <2>1. CASE registerRelayNode(w, relay[w].peerId)
    <3>1. Listed(w)' /\ peerIdToWallet'[relay[w].peerId] = w
      <4>1. relay[w].peerId \in PeerIds
        BY <1>3 DEF Processes
      <4>2. registeredNodes' = Append(registeredNodes, w)
        BY <2>1 DEF registerRelayNode, AddNode
      <4>3. Listed(w)'
        BY <1>2, <4>2 DEF TypeOK, Listed
      <4> QED BY <2>1, <4>1, <4>3 DEF registerRelayNode, AddNode, TypeOK
    <3>2. next.peerId = relay[w].peerId \/ ~next.isRegisteredOnChain
      BY <1>8 DEF MineRegistration, Goes, RelayTypeOK, Failed, Off, Processes
    <3> QED BY <3>1, <3>2 DEF TrueOf
  <2>2. CASE ~registerRelayNode(w, relay[w].peerId)
    <3>1. ~next.isRegisteredOnChain
      BY <1>8, <2>2 DEF MineRegistration, Goes, RelayTypeOK, Failed, Off
    <3> QED BY <1>6, <3>1
  <2> QED BY <2>1, <2>2
<1>9. CASE SendRegistration(w) \/ Claiming(w) \/ Die(w)
  <2>1. CASE SendRegistration(w)
    <3>1. \/ next = Failed
          \/ next = [relay[w] EXCEPT !.pc = "registration sent"]
      BY <2>1 DEF SendRegistration, Goes, RelayTypeOK
    <3>2. ~Failed.isRegisteredOnChain
      BY DEF Failed, Off
    <3>3. CASE next = [relay[w] EXCEPT !.pc = "registration sent"]
      BY <1>3, <1>5, <3>3 DEF Processes
    <3> QED BY <1>6, <3>1, <3>2, <3>3
  <2>2. CASE Claiming(w)
    <3>1. \/ next = [relay[w] EXCEPT !.pc = "claim sent"]
          \/ next = [relay[w] EXCEPT !.pc = "running"]
      BY <2>2 DEF Claiming, SendClaim, MineClaim, Goes, RelayTypeOK
    <3>2. CASE next = [relay[w] EXCEPT !.pc = "claim sent"]
      BY <1>3, <1>5, <3>2 DEF Processes
    <3>3. CASE next = [relay[w] EXCEPT !.pc = "running"]
      BY <1>3, <1>5, <3>3 DEF Processes
    <3> QED BY <3>1, <3>2, <3>3
  <2>3. CASE Die(w)
    BY <1>6, <2>3 DEF Die, Goes, RelayTypeOK, Off
  <2> QED BY <1>9, <2>1, <2>2, <2>3
<1>10. CASE relay'[w] = relay[w]
  BY <1>5, <1>10
<1>11. ASSUME NEW v \in Relays, v # w, Registering(v) \/ Claiming(v) \/ Die(v)
       PROVE  relay'[w] = relay[w]
  BY <1>11
  DEF Registering, initializeTokenClient, SendRegistration, MineRegistration,
      Claiming, SendClaim, MineClaim, Die, Goes, RelayTypeOK
<1> QED
  BY <1>7, <1>8, <1>9, <1>10, <1>11 DEF ClientNext, clientVars, Registering

-----------------------------------------------------------------------------
ClientInv == TypeOK /\ ActiveListed /\ RelayTypeOK /\ RegisteredTrue

(* Nobody is registered when the contract is deployed.                     *)
LEMMA ClientInvInit == ClientInit => ClientInv
<1> SUFFICES ASSUME ClientInit
             PROVE  ClientInv
  OBVIOUS
<1>1. TypeOK
  BY AddressAssumption, PeerAssumption, SupplyAssumption
  DEF ClientInit, Init, InitialBalances, TypeOK, Accounts, RelayNode, EmptyNode
<1>2. RelayTypeOK
  BY PeerAssumption DEF ClientInit, Off, RelayTypeOK, Processes
<1>3. RegisteredTrue /\ ActiveListed
  BY DEF ClientInit, Init, Off, EmptyNode, RegisteredTrue, ActiveListed
<1> QED BY <1>1, <1>2, <1>3 DEF ClientInv

(* Every step of a relay or of anybody else keeps it.                      *)
LEMMA ClientInvStep == ClientInv /\ [ClientNext]_clientVars => ClientInv'
BY ClientStep, TypeStep, ActiveStep, RelayTypeStep, RegisteredStep
DEF ClientInv

(* A relay that takes itself for registered is one of the contract's nodes *)
(* and owns the peer id it registered, whatever the contract was told      *)
(* between what the relay read and what it sent, and since.                *)
THEOREM RelaysRegistered == ClientSpec => []RegisteredTrue
<1>1. ClientInv => RegisteredTrue
  BY DEF ClientInv
<1> QED BY ClientInvInit, ClientInvStep, <1>1, PTL DEF ClientSpec

(* Relays use the contract as anybody may: their runs are runs of it.      *)
THEOREM ClientsCallTheContract == ClientSpec => Spec
<1>1. ClientInit => Init
  BY DEF ClientInit
<1>2. ClientInv /\ [ClientNext]_clientVars => [Next]_vars
  BY ClientStep DEF ClientInv
<1> QED
  BY ClientInvInit, ClientInvStep, <1>1, <1>2, PTL DEF ClientSpec, Spec

(* So the ledger stays whole and the identities agree among relays too.    *)
THEOREM LedgerSafeAmongClients ==
  ClientSpec => [](/\ SupplyConserved /\ Solvent
                   /\ PeerIdsAgree /\ CountedOnce)
BY ClientsCallTheContract, LedgerSafe, IdentitiesSafe, PTL

(* A relay is counted as active once, whatever relays race to register,    *)
(* unless its wallet registered bytes32(0).                                *)
THEOREM NodesCountedOnce == ClientSpec => []CountedOnce
BY ClientsCallTheContract, IdentitiesSafe, PTL

(* As long as nobody registered bytes32(0), getActiveNodeCount, by which   *)
(* calculateRewards divides the pool, is the number of active nodes: each  *)
(* of them is on the list, and on it once.                                 *)
THEOREM ActiveNodesCounted ==
  ClientSpec => [](peerIdToWallet[ZeroPeer] = NoWallet =>
                     getActiveNodeCount = Cardinality({w \in Wallets : relayNodes[w].isActive}))
<1> DEFINE Counted == peerIdToWallet[ZeroPeer] = NoWallet =>
              getActiveNodeCount = Cardinality({w \in Wallets : relayNodes[w].isActive})
<1>1. ClientInv /\ CountedOnce => Counted
  <2> SUFFICES ASSUME TypeOK, ActiveListed, CountedOnce, peerIdToWallet[ZeroPeer] = NoWallet
               PROVE  getActiveNodeCount = Cardinality({w \in Wallets : relayNodes[w].isActive})
    BY DEF ClientInv
  <2> DEFINE S == {i \in DOMAIN registeredNodes : relayNodes[registeredNodes[i]].isActive}
             T == {w \in Wallets : relayNodes[w].isActive}
             f == [i \in S |-> registeredNodes[i]]
  <2>1. \A i \in DOMAIN registeredNodes : registeredNodes[i] \in Wallets
    BY DEF TypeOK
  <2>2. f \in [S -> T]
    BY <2>1
  <2>3. \A i, j \in S : f[i] = f[j] => i = j
    BY <2>1, AddressAssumption DEF CountedOnce
  <2>4. \A w \in T : \E i \in S : f[i] = w
    BY DEF ActiveListed, Listed
  <2>5. IsFiniteSet(T)
    BY AddressAssumption, FS_Subset
  <2> HIDE DEF S, T, f
  <2>6. f \in Injection(S, T) /\ f \in Surjection(S, T)
    BY <2>2, <2>3, <2>4 DEF Injection, Surjection, IsInjective
  <2>7. Cardinality(S) = Cardinality(T)
    BY <2>5, <2>6, FS_Injection
  <2> QED BY <2>7 DEF S, T, getActiveNodeCount
<1>2. ClientInv /\ [ClientNext]_clientVars => ClientInv'
  BY ClientInvStep
<1> QED BY ClientInvInit, <1>1, <1>2, NodesCountedOnce, PTL DEF ClientSpec
=============================================================================
