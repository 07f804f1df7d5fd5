---------------------------- MODULE OnionRouting ----------------------------
(***************************************************************************)
(* src/network/onion-routing.js: a sender wraps a message in one layer per *)
(* relay; each relay opens its own, notes where the packet came from and   *)
(* returns the rest with the next hop.  An encrypted layer is a record     *)
(* that only the holder of the key it was made for can open.               *)
(*                                                                         *)
(* Nothing in the repository calls processPacket or sends what it returns: *)
(* that a packet gets from one node to the next is the part of a caller to *)
(* come.  Here it may at any time, once, several times or never; a relay   *)
(* may restart, with a new key, and forget its circuits.                   *)
(***************************************************************************)
EXTENDS Integers, Sequences, FiniteSets

CONSTANTS
  Relays, Sender, Destination,
  hopCount,
  Circuits,            \* bound: the circuit ids drawn, one per message
  MaxRestarts          \* bound: restarts of relays

ASSUME RouteAssumption ==
  /\ Sender \notin Relays /\ Destination \notin Relays \cup {Sender}
  /\ hopCount \in Nat \ {0}
  /\ MaxRestarts \in Nat

VARIABLES
  knownRelays,         \* the sender's: relay -> the public key registered, or 0
  keys,                \* relay -> its present key, numbered from 1
  packets,             \* in flight: [circuit, from, to, onion]
  circuits,            \* relay -> circuit -> prevHop and whether it is old
  route,               \* history: circuit -> the relays selected
  learned              \* history: what each relay saw of a circuit

routingVars == <<knownRelays, keys, packets, circuits, route, learned>>

NoHop == "no circuit"
NoCircuit == [prevHop |-> NoHop, old |-> FALSE]
Hops == Relays \cup {Sender, Destination}

RoutingInit ==
  /\ knownRelays = [r \in Relays |-> 0]
  /\ keys = [r \in Relays |-> 1]
  /\ packets = {}
  /\ circuits = [r \in Relays |-> [c \in Circuits |-> NoCircuit]]
  /\ route = [c \in Circuits |-> <<>>]
  /\ learned = {}

-----------------------------------------------------------------------------
registerRelay(r) ==
  /\ knownRelays[r] # keys[r]
  /\ knownRelays' = [knownRelays EXCEPT ![r] = keys[r]]
  /\ UNCHANGED <<keys, packets, circuits, route, learned>>

Known == {r \in Relays : knownRelays[r] # 0}

(* Faulty variant: a relay chosen is not taken out of the remaining ones.  *)
WithReplacement(count) == [1..count -> Known]

(* Weighted by score, without replacement: any order of distinct relays;   *)
(* none if there are too few.                                              *)
selectRelays(count) ==
  {s \in [1..count -> Known] : \A i, j \in 1..count : s[i] = s[j] => i = j}

(* buildRoute: the layers from the outermost in; the last is the final one *)
(* and holds the message.                                                  *)
Layers(s) ==
  [i \in 1..(Len(s) + 1) |->
     IF i = Len(s) + 1
     THEN [for |-> Destination, key |-> 0, next |-> Destination]
     ELSE [for |-> s[i], key |-> knownRelays[s[i]],
           next |-> IF i = Len(s) THEN Destination ELSE s[i + 1]]]

sendAnonymous(c) ==
  /\ route[c] = <<>>
  /\ \E s \in selectRelays(hopCount) :
       /\ route' = [route EXCEPT ![c] = s]
       /\ packets' = packets \cup
            {[circuit |-> c, from |-> Sender, to |-> s[1], onion |-> Layers(s)]}
  /\ UNCHANGED <<knownRelays, keys, circuits, learned>>

(* A layer is opened with the private key it was made for.                 *)
Opens(r, layer) == layer.for = r /\ layer.key = keys[r]

(* Faulty variant: the circuit leads to where the packet goes.             *)
TrackNext(p) == Head(p.onion).next

(* circuits.set, whatever was there.                                       *)
PrevHop(p) == p.from

(* A packet that is to arrive again stays in flight.                       *)
Arrives(p, again) == IF again THEN packets ELSE packets \ {p}

(* processPacket at a relay; its caller sends on what it returns, to the   *)
(* destination if this is the exit.                                        *)
Forward(p, again) ==
  /\ p.to \in Relays
  /\ Opens(p.to, Head(p.onion))
  /\ circuits' = [circuits EXCEPT ![p.to][p.circuit] =
                    [prevHop |-> PrevHop(p), old |-> FALSE]]
  /\ packets' = Arrives(p, again) \cup
       {[circuit |-> p.circuit, from |-> p.to, to |-> Head(p.onion).next,
         onion |-> Tail(p.onion)]}
  /\ learned' = learned \cup
       {[relay |-> p.to, circuit |-> p.circuit, from |-> p.from,
         next |-> Head(p.onion).next]}
  /\ UNCHANGED <<knownRelays, keys, route>>

(* processPacket fails to decrypt and answers with an error.               *)
Refuse(p) ==
  /\ p.to \in Relays
  /\ ~Opens(p.to, Head(p.onion))
  /\ packets' = packets \ {p}
  /\ UNCHANGED <<knownRelays, keys, circuits, route, learned>>

(* The final layer, at the destination.                                    *)
Deliver(p) ==
  /\ p.to = Destination
  /\ Len(p.onion) = 1
  /\ packets' = packets \ {p}
  /\ UNCHANGED <<knownRelays, keys, circuits, route, learned>>

Lose(p) ==
  /\ packets' = packets \ {p}
  /\ UNCHANGED <<knownRelays, keys, circuits, route, learned>>

(* Ten minutes pass for an entry.                                          *)
Age(r, c) ==
  /\ circuits[r][c] # NoCircuit
  /\ ~circuits[r][c].old
  /\ circuits' = [circuits EXCEPT ![r][c].old = TRUE]
  /\ UNCHANGED <<knownRelays, keys, packets, route, learned>>

cleanupCircuits(r) ==
  /\ \E c \in Circuits : circuits[r][c].old
  /\ circuits' = [circuits EXCEPT ![r] =
       [c \in Circuits |-> IF @[c].old THEN NoCircuit ELSE @[c]]]
  /\ UNCHANGED <<knownRelays, keys, packets, route, learned>>

Restarts ==
  LET sum[S \in SUBSET Relays] ==
        IF S = {} THEN 0
        ELSE LET r == CHOOSE r \in S : TRUE IN keys[r] - 1 + sum[S \ {r}]
  IN  sum[Relays]

Restart(r) ==
  /\ Restarts < MaxRestarts
  /\ keys' = [keys EXCEPT ![r] = @ + 1]
  /\ circuits' = [circuits EXCEPT ![r] = [c \in Circuits |-> NoCircuit]]
  /\ UNCHANGED <<knownRelays, packets, route, learned>>

Process(p) ==
  \/ \E again \in BOOLEAN : Forward(p, again)
  \/ Deliver(p)
  \/ Refuse(p)

-----------------------------------------------------------------------------
(* No relay ever sees both ends of a circuit, even over duplicates of its  *)
(* packets: whoever is handed it by the sender does not hand it to the     *)
(* destination, or the other way round.                                    *)
Unlinkable ==
  \A l, k \in learned :
    (l.relay = k.relay /\ l.circuit = k.circuit)
      => ~(l.from = Sender /\ k.next = Destination)

(* Where a relay has an entry for a circuit, it leads one hop back on the  *)
(* route: a reply that follows the entries reaches the sender.             *)
ReplyPath ==
  \A r \in Relays, c \in Circuits :
    circuits[r][c] # NoCircuit =>
      \E i \in DOMAIN route[c] :
        /\ route[c][i] = r
        /\ circuits[r][c].prevHop = IF i = 1 THEN Sender ELSE route[c][i - 1]
=============================================================================
