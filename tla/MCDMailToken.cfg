CONSTANTS
  Wallets = {o, a}
  This = this
  NoWallet = none
  Owner = o
  PeerIds = {zero, p1, p2}
  ZeroPeer = zero
  TOTAL_SUPPLY = 34
  RELAY_REWARDS_POOL = 10
  REWARD_DURATION = 1
  InitialMinStake = 12
  MinStakes = {0, 1}
  Amounts = {12}
  MaxTime = 1
  Relays = {a}
SPECIFICATION ClientSpec
INVARIANTS SupplyConserved Solvent PeerIdsAgree CountedOnce RegisteredTrue
CHECK_DEADLOCK FALSE
