------------------------- MODULE OnionRoutingService -------------------------
(***************************************************************************)
(* api/src/network/onion-routing.service.ts, the port of the router: the   *)
(* same steps, by its methods.  A router, here as there, is only wired to  *)
(* a network by setSendFunction; before, sendAnonymous answers with a      *)
(* circuit and sends nothing.                                              *)
(***************************************************************************)
EXTENDS OnionRouting

(* registerRelay, with the key the relay has.                              *)
RegisterRelay == \E r \in Relays : registerRelay(r)

(* sendAnonymous when the send function is set.                            *)
SendAnonymous == \E c \in Circuits : sendAnonymous(c)

(* sendAnonymous when it is not: buildRoute, and nothing more.             *)
SendUnwired ==
  \E c \in Circuits :
    /\ route[c] = <<>>
    /\ \E s \in selectRelays(hopCount) : route' = [route EXCEPT ![c] = s]
    /\ UNCHANGED <<knownRelays, keys, packets, circuits, learned>>

ProcessPacket == \E p \in packets : Process(p)

CleanupCircuits == \E r \in Relays : cleanupCircuits(r)

(* Packets get lost, entries get old, relays restart.                      *)
Environment ==
  \/ \E p \in packets : Lose(p)
  \/ \E r \in Relays : Restart(r) \/ \E c \in Circuits : Age(r, c)

ServiceNext ==
  \/ RegisterRelay \/ SendAnonymous \/ SendUnwired \/ ProcessPacket
  \/ CleanupCircuits \/ Environment

ServiceSpec == RoutingInit /\ [][ServiceNext]_routingVars
=============================================================================
