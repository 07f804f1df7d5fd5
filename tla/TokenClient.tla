----------------------------- MODULE TokenClient -----------------------------
(***************************************************************************)
(* Relays that register and claim through DMailTokenClient                 *)
(* (src/blockchain/token.js, initializeTokenClient and the auto-claim      *)
(* interval of src/network/relay-node.js): each reads the contract, awaits *)
(* and then sends a transaction, which is mined when the contract may have *)
(* changed.  A relay reads twice before it sends; the earlier read can     *)
(* only make it give up, and is left out.  Every other call, also of the   *)
(* relay's own wallet, may come in between.                                *)
(***************************************************************************)
EXTENDS DMailToken

CONSTANT Relays        \* the wallets a relay is configured with

ASSUME RelayAssumption == Relays \subseteq Wallets

VARIABLE relay         \* wallet -> the relay's process

clientVars == <<vars, relay>>

(* peerId is the one this process registered; ZeroPeer is no hash.         *)
Off == [pc |-> "off", peerId |-> ZeroPeer, isRegisteredOnChain |-> FALSE]
Failed == [Off EXCEPT !.pc = "running"]

ClientInit == Init /\ relay = [w \in Relays |-> Off]

Goes(w, next) == relay' = [relay EXCEPT ![w] = next]

(* getNodeInfo and calculateRewards divide by minStake for an active node. *)
RewardsRevert(w) == relayNodes[w].isActive /\ minStake = 0

(* start: getNodeInfo.  An active node counts as registered, whatever peer *)
(* id it was registered with; if the call reverts, the relay goes on       *)
(* without rewards.                                                        *)
initializeTokenClient(w, p) ==
  /\ relay[w].pc = "off"
  /\ Goes(w, IF RewardsRevert(w) THEN Failed
             ELSE IF relayNodes[w].isActive
             THEN [Failed EXCEPT !.isRegisteredOnChain = TRUE]
             ELSE [Off EXCEPT !.pc = "registering", !.peerId = p])
  /\ UNCHANGED vars

(* registerRelayNode up to the sending of the transaction.                 *)
SendRegistration(w) ==
  /\ relay[w].pc = "registering"
  /\ Goes(w, IF \/ peerIdToWallet[relay[w].peerId] # NoWallet
                \/ balances[w] < minStake
             THEN Failed ELSE [relay[w] EXCEPT !.pc = "registration sent"])
  /\ UNCHANGED vars

(* Faulty variant: the receipt's status is not looked at.                  *)
MineUnread(w) ==
  /\ relay[w].pc = "registration sent"
  /\ Goes(w, [relay[w] EXCEPT !.pc = "running", !.isRegisteredOnChain = TRUE])
  /\ \/ registerRelayNode(w, relay[w].peerId)
     \/ UNCHANGED vars

(* It is mined: tx.wait() throws if it reverted.                           *)
MineRegistration(w) ==
  /\ relay[w].pc = "registration sent"
  /\ \/ /\ registerRelayNode(w, relay[w].peerId)
        /\ Goes(w, [relay[w] EXCEPT !.pc = "running",
                                    !.isRegisteredOnChain = TRUE])
     \/ /\ \/ relayNodes[w].peerId # ZeroPeer
           \/ peerIdToWallet[relay[w].peerId] # NoWallet
           \/ balances[w] < minStake
        /\ Goes(w, Failed)
        /\ UNCHANGED vars

(* The interval of startAutoClaimRewards, or a claim by hand.              *)
SendClaim(w) ==
  /\ relay[w].pc = "running" /\ relay[w].isRegisteredOnChain
  /\ ~RewardsRevert(w) /\ calculateRewards(w) > 0
  /\ Goes(w, [relay[w] EXCEPT !.pc = "claim sent"])
  /\ UNCHANGED vars

ClaimReverts(w) ==
  IF RewardsRevert(w) THEN TRUE
  ELSE \/ calculateRewards(w) = 0
       \/ relayRewardsDistributed + calculateRewards(w) > RELAY_REWARDS_POOL

MineClaim(w) ==
  /\ relay[w].pc = "claim sent"
  /\ \/ claimRewards(w)
     \/ ClaimReverts(w) /\ UNCHANGED vars
  /\ Goes(w, [relay[w] EXCEPT !.pc = "running"])

(* The relay dies; what it sent may still be mined, as anybody's call.     *)
Die(w) ==
  /\ relay[w].pc # "off"
  /\ Goes(w, Off)
  /\ UNCHANGED vars

Registering(w) ==
  \/ \E p \in PeerIds \ {ZeroPeer} : initializeTokenClient(w, p)
  \/ SendRegistration(w)
  \/ MineRegistration(w)

Claiming(w) == SendClaim(w) \/ MineClaim(w)

(* What any wallet may send at any time, through the other methods of the  *)
(* client, the API's TokenService or a tool of its own.  What the clients  *)
(* test before they send, the contract requires too.                       *)
StakingCalls ==
  \E w \in Wallets :
    \/ \E p \in PeerIds : registerRelayNode(w, p)
    \/ \E n \in Amounts : addStake(w, n)
ClaimingCalls == \E w \in Wallets : claimRewards(w)
LeavingCalls == \E w \in Wallets : deactivateNode(w) \/ withdrawStake(w)
TransferCalls ==
  \E w \in Wallets, a \in Accounts, n \in Amounts : transfer(w, a, n)
OwnerAndTime == (\E m \in MinStakes : setMinStake(m)) \/ Tick

AnyCall ==
  \/ StakingCalls \/ ClaimingCalls \/ LeavingCalls \/ TransferCalls
  \/ OwnerAndTime

ClientNext ==
  \/ \E w \in Relays : Registering(w) \/ Claiming(w) \/ Die(w)
  \/ AnyCall /\ UNCHANGED relay

ClientSpec == ClientInit /\ [][ClientNext]_clientVars

-----------------------------------------------------------------------------
(* A relay that takes itself for registered is one of the contract's       *)
(* nodes, and the peer id it registered leads to its wallet: whatever was  *)
(* registered, deactivated or raised between its reads and its             *)
(* transaction, and whatever happened since.                               *)
RegisteredTrue ==
  \A w \in Relays : relay[w].isRegisteredOnChain =>
    /\ \E i \in DOMAIN registeredNodes : registeredNodes[i] = w
    /\ relay[w].peerId # ZeroPeer => peerIdToWallet[relay[w].peerId] = w
=============================================================================
