---------------------------- MODULE NetworkProofs ----------------------------
(***************************************************************************)
(* Proofs about the parts of the network layer that share nothing but the  *)
(* process: the onion router (OnionRoutingService), the connection pool    *)
(* and its queue (ConnectionPoolService) and the rate limiter              *)
(* (RateLimiterService), each under its own specification and for any      *)
(* relays, peers, messages, senders and limits.                            *)
(***************************************************************************)
EXTENDS OnionRoutingService, ConnectionPoolService, RateLimiterService,
        SequenceTheorems, FiniteSetTheorems, TLAPS

-----------------------------------------------------------------------------
(* The onion router.                                                       *)

(* The n-th stop of a circuit: the sender, its relays, the destination.    *)
Stop(c, n) ==
  IF n = 0 THEN Sender
  ELSE IF n > hopCount THEN Destination ELSE route[c][n]

(* What a layer of an onion says: whose it is and the next hop.            *)
OnionLayers == [for : Hops, key : Int, next : Hops]

(* Routes are drawn once and visit no relay twice.                         *)
RoutesOK ==
  /\ DOMAIN route = Circuits
  /\ \A c \in Circuits :
       route[c] # <<>> =>
         /\ route[c] \in [1..hopCount -> Relays]
         /\ \A i, j \in 1..hopCount : route[c][i] = route[c][j] => i = j

(* A packet is between two stops of its circuit, and what is left of its   *)
(* layers leads along the rest of the route.                               *)
Between(p, n) ==
  /\ p.from = Stop(p.circuit, n - 1)
  /\ p.to = Stop(p.circuit, n)
  /\ Len(p.onion) = hopCount + 2 - n
  /\ \A i \in 1..(hopCount + 2 - n) :
       p.onion[i].next = Stop(p.circuit, n + i)

(* A packet is on the route of its circuit, at one of its stops.           *)
PacketOK(p) ==
  /\ p.circuit \in Circuits
  /\ route[p.circuit] # <<>>
  /\ p.onion \in Seq(OnionLayers)
  /\ \E n \in 1..(hopCount + 1) : Between(p, n)

(* What a relay has seen of a circuit is its place on the route.           *)
SightOK(l) ==
  /\ l.circuit \in Circuits
  /\ route[l.circuit] # <<>>
  /\ \E n \in 1..hopCount :
       /\ l.relay = route[l.circuit][n]
       /\ l.from = Stop(l.circuit, n - 1)
       /\ l.next = Stop(l.circuit, n + 1)

(* So is the entry it keeps.                                               *)
EntryOK(r, c) ==
  circuits[r][c] # NoCircuit =>
    /\ route[c] # <<>>
    /\ \E n \in 1..hopCount :
         route[c][n] = r /\ circuits[r][c].prevHop = Stop(c, n - 1)

(* The tables of the relays hold such entries.                             *)
CircuitsOK ==
  /\ circuits \in [Relays -> [Circuits ->
       [prevHop : Hops \cup {NoHop}, old : BOOLEAN]]]
  /\ \A r \in Relays, c \in Circuits : EntryOK(r, c)

(* The invariant from which NobodySeesBothEnds and EntriesLeadBack follow. *)
OnionInv ==
  /\ knownRelays \in [Relays -> Int] /\ keys \in [Relays -> Int]
  /\ RoutesOK
  /\ \A p \in packets : PacketOK(p)
  /\ \A l \in learned : SightOK(l)
  /\ CircuitsOK

-----------------------------------------------------------------------------
(* What layers a route gets.                                               *)
LEMMA LayersOfRoute ==
  ASSUME knownRelays \in [Relays -> Int],
         NEW s \in selectRelays(hopCount)
  PROVE  /\ s \in [1..hopCount -> Relays] /\ Len(s) = hopCount
         /\ \A i, j \in 1..hopCount : s[i] = s[j] => i = j
         /\ s # <<>>
         /\ Layers(s) \in Seq(OnionLayers)
         /\ Len(Layers(s)) = hopCount + 1
         /\ \A i \in 1..(hopCount + 1) :
              Layers(s)[i].next = IF i < hopCount THEN s[i + 1] ELSE Destination
<1>1. hopCount \in Nat /\ hopCount > 0
  BY RouteAssumption
<1>2. s \in [1..hopCount -> Relays]
  BY DEF selectRelays, Known
<1>3. Len(s) = hopCount
  BY <1>1, <1>2
<1>4. \A i, j \in 1..hopCount : s[i] = s[j] => i = j
  BY DEF selectRelays
<1>5. s # <<>>
  BY <1>1, <1>3
<1>6. Layers(s) = [i \in 1..(hopCount + 1) |->
         IF i = hopCount + 1
         THEN [for |-> Destination, key |-> 0, next |-> Destination]
         ELSE [for |-> s[i], key |-> knownRelays[s[i]],
               next |-> IF i = hopCount THEN Destination ELSE s[i + 1]]]
  BY <1>3 DEF Layers
<1>7. Layers(s) \in [1..(hopCount + 1) -> OnionLayers]
  <2> SUFFICES ASSUME NEW i \in 1..(hopCount + 1)
               PROVE  Layers(s)[i] \in OnionLayers
    BY <1>6
  <2>1. CASE i = hopCount + 1
    BY <1>6, <2>1 DEF OnionLayers, Hops
  <2>2. CASE i = hopCount
    BY <1>1, <1>2, <1>6, <2>2 DEF OnionLayers, Hops
  <2>3. CASE i < hopCount
    <3>1. i \in 1..hopCount /\ i + 1 \in 1..hopCount
      BY <1>1, <2>3
    <3> QED BY <1>1, <1>2, <1>6, <2>3, <3>1 DEF OnionLayers, Hops
  <2> QED BY <1>1, <2>1, <2>2, <2>3
<1>8. Layers(s) \in Seq(OnionLayers) /\ Len(Layers(s)) = hopCount + 1
  BY <1>1, <1>7
<1>9. \A i \in 1..(hopCount + 1) :
        Layers(s)[i].next = IF i < hopCount THEN s[i + 1] ELSE Destination
  BY <1>1, <1>6
<1> QED BY <1>2, <1>3, <1>4, <1>5, <1>8, <1>9

(* While its route stands, everything said of a circuit stays true.        *)
LEMMA RouteStands ==
  ASSUME NEW c, route'[c] = route[c]
  PROVE  \A n : Stop(c, n)' = Stop(c, n)
BY DEF Stop

(* Packets, sights and entries outlive the drawing of other routes.        *)
LEMMA DrawingKeeps ==
  ASSUME OnionInv, NEW c \in Circuits, route[c] = <<>>,
         NEW s, route' = [route EXCEPT ![c] = s]
  PROVE  /\ \A p : PacketOK(p) => PacketOK(p)'
         /\ \A l : SightOK(l) => SightOK(l)'
<1>1. \A d \in Circuits : route[d] # <<>> => route'[d] = route[d]
  BY DEF OnionInv, RoutesOK
<1>2. ASSUME NEW p, PacketOK(p)
      PROVE  PacketOK(p)'
  <2>1. route'[p.circuit] = route[p.circuit]
    BY <1>1, <1>2 DEF PacketOK
  <2> QED BY <1>2, <2>1 DEF PacketOK, Between, Stop
<1>3. ASSUME NEW l, SightOK(l)
      PROVE  SightOK(l)'
  <2>1. route'[l.circuit] = route[l.circuit]
    BY <1>1, <1>3 DEF SightOK
  <2> QED BY <1>3, <2>1 DEF SightOK, Stop
<1> QED BY <1>2, <1>3

(* Drawing a route.                                                        *)
LEMMA DrawnRoute ==
  ASSUME OnionInv, NEW c \in Circuits, route[c] = <<>>,
         NEW s \in selectRelays(hopCount),
         route' = [route EXCEPT ![c] = s], UNCHANGED circuits
  PROVE  RoutesOK' /\ CircuitsOK'
<1>1. /\ s \in [1..hopCount -> Relays] /\ s # <<>>
      /\ \A i, j \in 1..hopCount : s[i] = s[j] => i = j
  BY LayersOfRoute DEF OnionInv
<1>2. RoutesOK'
  BY <1>1 DEF OnionInv, RoutesOK
<1>3. ASSUME NEW r \in Relays, NEW d \in Circuits
      PROVE  EntryOK(r, d)'
  <2>1. EntryOK(r, d)
    BY DEF OnionInv, CircuitsOK
  <2>2. CASE d = c
    BY <2>1, <2>2 DEF EntryOK
  <2>3. CASE d # c
    BY <2>1, <2>3 DEF OnionInv, RoutesOK, EntryOK, Stop
  <2> QED BY <2>2, <2>3
<1> QED BY <1>2, <1>3 DEF OnionInv, CircuitsOK

(* The packet that leaves the sender is at the first stop of its route.    *)
LEMMA SendKeeps ==
  ASSUME OnionInv, NEW c \in Circuits, sendAnonymous(c)
  PROVE  OnionInv'
<1>1. PICK s \in selectRelays(hopCount) :
        /\ route' = [route EXCEPT ![c] = s]
        /\ packets' = packets \cup
             {[circuit |-> c, from |-> Sender, to |-> s[1],
               onion |-> Layers(s)]}
  BY DEF sendAnonymous
<1>2. UNCHANGED <<knownRelays, keys, circuits, learned>> /\ route[c] = <<>>
  BY DEF sendAnonymous
<1> PICK q : q = [circuit |-> c, from |-> Sender, to |-> s[1],
                  onion |-> Layers(s)]
  OBVIOUS
<1>3. PacketOK(q)'
  <2>1. /\ s \in [1..hopCount -> Relays] /\ s # <<>>
        /\ Layers(s) \in Seq(OnionLayers) /\ Len(Layers(s)) = hopCount + 1
        /\ \A i \in 1..(hopCount + 1) :
             Layers(s)[i].next = IF i < hopCount THEN s[i + 1] ELSE Destination
    BY LayersOfRoute DEF OnionInv
  <2>2. route'[c] = s
    BY <1>1 DEF OnionInv, RoutesOK
  <2>3. hopCount \in Nat /\ hopCount > 0
    BY RouteAssumption
  <2>4. q.onion \in Seq(OnionLayers)
    BY <2>1
  <2>5. Between(q, 1)'
    <3>1. \A i \in 1..(hopCount + 1) : q.onion[i].next = Stop(c, 1 + i)'
      BY <2>1, <2>2, <2>3 DEF Stop
    <3>2. q.from = Stop(c, 0)' /\ q.to = Stop(c, 1)'
      BY <2>2, <2>3 DEF Stop
    <3>3. Len(q.onion) = hopCount + 1 /\ q.circuit = c
      BY <2>1
    <3> QED BY <2>3, <3>1, <3>2, <3>3 DEF Between
  <2>6. 1 \in 1..(hopCount + 1)
    BY <2>3
  <2> QED BY <2>1, <2>2, <2>4, <2>5, <2>6 DEF PacketOK
<1>4. /\ \A p \in packets' : PacketOK(p)'
      /\ \A l \in learned' : SightOK(l)'
  BY <1>1, <1>2, <1>3, DrawingKeeps DEF OnionInv
<1>5. RoutesOK' /\ CircuitsOK'
  BY <1>1, <1>2, DrawnRoute
<1> QED BY <1>2, <1>4, <1>5 DEF OnionInv

(* The answer of a router that is not wired.                               *)
LEMMA UnwiredKeeps ==
  ASSUME OnionInv, SendUnwired
  PROVE  OnionInv'
<1>1. PICK c \in Circuits, s \in selectRelays(hopCount) :
        /\ route[c] = <<>>
        /\ route' = [route EXCEPT ![c] = s]
        /\ UNCHANGED <<knownRelays, keys, packets, circuits, learned>>
  BY DEF SendUnwired
<1>2. /\ \A p \in packets' : PacketOK(p)'
      /\ \A l \in learned' : SightOK(l)'
  BY <1>1, DrawingKeeps DEF OnionInv
<1>3. RoutesOK' /\ CircuitsOK'
  BY <1>1, DrawnRoute
<1> QED BY <1>1, <1>2, <1>3 DEF OnionInv

(* What the other actions can change.                                      *)
LEMMA SameRoutes ==
  ASSUME OnionInv, UNCHANGED route
  PROVE  /\ RoutesOK'
         /\ \A p : PacketOK(p) => PacketOK(p)'
         /\ \A l : SightOK(l) => SightOK(l)'
         /\ UNCHANGED circuits => CircuitsOK'
<1>1. RoutesOK'
  BY DEF OnionInv, RoutesOK
<1>2. \A p : PacketOK(p) => PacketOK(p)'
  BY DEF PacketOK, Between, Stop
<1>3. \A l : SightOK(l) => SightOK(l)'
  BY DEF SightOK, Stop
<1>4. ASSUME UNCHANGED circuits
      PROVE  CircuitsOK'
  BY <1>4 DEF OnionInv, CircuitsOK, EntryOK, Stop
<1> QED BY <1>1, <1>2, <1>3, <1>4

(* A relay that is handed a packet is on its route, between the stop the   *)
(* packet came from and the one it goes to.                                *)
LEMMA AtARelay ==
  ASSUME OnionInv, NEW p \in packets, p.to \in Relays
  PROVE  \E n \in 1..hopCount :
           /\ Between(p, n)
           /\ p.to = route[p.circuit][n]
           /\ Len(p.onion) = hopCount + 2 - n
           /\ Head(p.onion).next = Stop(p.circuit, n + 1)
<1>1. PacketOK(p)
  BY DEF OnionInv
<1>2. PICK n \in 1..(hopCount + 1) : Between(p, n)
  BY <1>1 DEF PacketOK
<1>3. hopCount \in Nat /\ hopCount > 0
  BY RouteAssumption
<1>4. n \in 1..hopCount
  BY <1>2, <1>3, RouteAssumption DEF Between, Stop
<1>5. p.to = route[p.circuit][n]
  BY <1>2, <1>3, <1>4 DEF Between, Stop
<1>6. p.onion \in Seq(OnionLayers) /\ Len(p.onion) = hopCount + 2 - n
  BY <1>1, <1>2 DEF PacketOK, Between
<1>7. Head(p.onion).next = Stop(p.circuit, n + 1)
  <2>1. 1 \in 1..(hopCount + 2 - n)
    BY <1>3, <1>4
  <2>2. p.onion[1].next = Stop(p.circuit, n + 1)
    BY <1>2, <2>1 DEF Between
  <2>3. Head(p.onion) = p.onion[1]
    BY <1>3, <1>4, <1>6
  <2> QED BY <2>2, <2>3
<1> QED BY <1>2, <1>4, <1>5, <1>6, <1>7

(* What is left of an onion when its outer layer is taken off.             *)
LEMMA OnionTail ==
  ASSUME NEW S, NEW s \in Seq(S), NEW k \in Nat, Len(s) = k + 1
  PROVE  /\ Tail(s) \in Seq(S)
         /\ Len(Tail(s)) = k
         /\ \A i \in 1..k : Tail(s)[i] = s[i + 1]
<1>1. s # <<>>
  OBVIOUS
<1>2. Tail(s) \in Seq(S)
  BY <1>1
<1>3. Len(Tail(s)) = k
  BY <1>1
<1>4. \A i \in 1..k : Tail(s)[i] = s[i + 1]
  BY <1>1, <1>3
<1> QED BY <1>2, <1>3, <1>4

(* A relay that forwards passes the packet on to the next stop, and has    *)
(* seen its place on the route.                                            *)
LEMMA ForwardKeeps ==
  ASSUME OnionInv, NEW p \in packets, NEW again \in BOOLEAN, Forward(p, again)
  PROVE  OnionInv'
<1>1. p.to \in Relays /\ UNCHANGED <<knownRelays, keys, route>>
  BY DEF Forward
<1>2. PacketOK(p)
  BY DEF OnionInv
<1>3. PICK n \in 1..hopCount :
        /\ Between(p, n)
        /\ p.to = route[p.circuit][n]
        /\ Len(p.onion) = hopCount + 2 - n
        /\ Head(p.onion).next = Stop(p.circuit, n + 1)
  BY <1>1, AtARelay
<1>4. hopCount \in Nat /\ hopCount > 0 /\ n \in Int
  BY RouteAssumption
<1>5. PICK q : q = [circuit |-> p.circuit, from |-> p.to,
                    to |-> Head(p.onion).next, onion |-> Tail(p.onion)]
  OBVIOUS
<1>6. PacketOK(q)
  <2>1. /\ Tail(p.onion) \in Seq(OnionLayers)
        /\ Len(Tail(p.onion)) = hopCount + 1 - n
        /\ \A i \in 1..(hopCount + 1 - n) : Tail(p.onion)[i] = p.onion[i + 1]
    <3>1. p.onion \in Seq(OnionLayers)
      BY <1>2 DEF PacketOK
    <3>2. hopCount + 1 - n \in Nat /\ Len(p.onion) = (hopCount + 1 - n) + 1
      BY <1>3, <1>4
    <3> QED BY <3>1, <3>2, OnionTail
  <2>2. \A i \in 1..(hopCount + 1 - n) :
          Tail(p.onion)[i].next = Stop(p.circuit, n + 1 + i)
    <3> SUFFICES ASSUME NEW i \in 1..(hopCount + 1 - n)
                 PROVE  Tail(p.onion)[i].next = Stop(p.circuit, n + 1 + i)
      OBVIOUS
    <3>1. i + 1 \in 1..(hopCount + 2 - n) /\ n + (i + 1) = n + 1 + i
      BY <1>4
    <3>2. p.onion[i + 1].next = Stop(p.circuit, n + (i + 1))
      BY <1>3, <3>1 DEF Between
    <3> QED BY <2>1, <3>1, <3>2
  <2>3. p.to = Stop(p.circuit, n)
    BY <1>3 DEF Between
  <2>4. Between(q, n + 1)
    <3>1. (n + 1) - 1 = n /\ hopCount + 2 - (n + 1) = hopCount + 1 - n
      BY <1>4
    <3>2. /\ q.circuit = p.circuit /\ q.from = p.to
          /\ q.to = Stop(p.circuit, n + 1) /\ q.onion = Tail(p.onion)
      BY <1>3, <1>5
    <3> QED BY <2>1, <2>2, <2>3, <3>1, <3>2 DEF Between
  <2>5. n + 1 \in 1..(hopCount + 1)
    BY <1>4
  <2> QED BY <1>2, <1>5, <2>1, <2>4, <2>5 DEF PacketOK
<1>7. PICK l : l = [relay |-> p.to, circuit |-> p.circuit, from |-> p.from,
                    next |-> Head(p.onion).next]
  OBVIOUS
<1>8. SightOK(l)
  BY <1>2, <1>3, <1>7 DEF SightOK, PacketOK, Between
<1>9. /\ \A x \in packets' : PacketOK(x)'
      /\ \A x \in learned' : SightOK(x)'
  <2>1. packets' \subseteq packets \cup {q} /\ learned' = learned \cup {l}
    BY <1>5, <1>7 DEF Forward, Arrives
  <2> QED BY <1>1, <1>6, <1>8, <2>1, SameRoutes DEF OnionInv
<1>10. CircuitsOK'
  <2>1. circuits' = [circuits EXCEPT ![p.to][p.circuit] =
                       [prevHop |-> p.from, old |-> FALSE]]
    BY DEF Forward, PrevHop
  <2>2. p.from \in Hops
    <3>1. route[p.circuit] \in [1..hopCount -> Relays]
      BY <1>2 DEF PacketOK, OnionInv, RoutesOK
    <3>2. n = 1 \/ n - 1 \in 1..hopCount
      BY <1>4
    <3>3. p.from = Stop(p.circuit, n - 1)
      BY <1>3 DEF Between
    <3> QED BY <1>4, <3>1, <3>2, <3>3 DEF Stop, Hops
  <2>3. circuits' \in [Relays -> [Circuits ->
          [prevHop : Hops \cup {NoHop}, old : BOOLEAN]]]
    BY <1>1, <1>2, <2>1, <2>2 DEF OnionInv, CircuitsOK, PacketOK
  <2>4. ASSUME NEW r \in Relays, NEW c \in Circuits
        PROVE  EntryOK(r, c)'
    <3>1. EntryOK(r, c)
      BY DEF OnionInv, CircuitsOK
    <3>2. CASE r = p.to /\ c = p.circuit
      <4>1. circuits'[r][c].prevHop = Stop(c, n - 1)
        BY <1>1, <1>2, <1>3, <2>1, <3>2 DEF Between, OnionInv, CircuitsOK, PacketOK
      <4>2. route[c] # <<>> /\ route[c][n] = r
        BY <1>2, <1>3, <3>2 DEF PacketOK
      <4> QED BY <1>1, <4>1, <4>2 DEF EntryOK, Stop
    <3>3. CASE ~(r = p.to /\ c = p.circuit)
      <4>1. circuits'[r][c] = circuits[r][c]
        BY <1>1, <1>2, <2>1, <3>3 DEF OnionInv, CircuitsOK, PacketOK
      <4> QED BY <1>1, <3>1, <4>1 DEF EntryOK, Stop
    <3> QED BY <3>2, <3>3
  <2> QED BY <2>3, <2>4 DEF CircuitsOK
<1>11. RoutesOK'
  BY <1>1, SameRoutes
<1> QED BY <1>1, <1>9, <1>10, <1>11 DEF OnionInv

(* An entry that ages or is forgotten does not change where it leads.      *)
EntryFades(r, c) ==
  \/ circuits'[r][c] = circuits[r][c]
  \/ circuits'[r][c] = NoCircuit
  \/ /\ circuits[r][c] # NoCircuit
     /\ circuits'[r][c] = [circuits[r][c] EXCEPT !.old = TRUE]

(* Entries age and are forgotten.                                          *)
LEMMA EntriesKeep ==
  ASSUME OnionInv, UNCHANGED route,
         \A r \in Relays, c \in Circuits : EntryFades(r, c),
         circuits' = [r \in Relays |-> [c \in Circuits |-> circuits'[r][c]]]
  PROVE  CircuitsOK'
<1> DEFINE ES == [prevHop : Hops \cup {NoHop}, old : BOOLEAN]
<1>1. circuits \in [Relays -> [Circuits -> ES]]
  BY DEF OnionInv, CircuitsOK
<1>2. NoCircuit \in ES
  BY DEF NoCircuit
<1>3. ASSUME NEW r \in Relays, NEW c \in Circuits
      PROVE  circuits'[r][c] \in ES /\ EntryOK(r, c)'
  <2>1. EntryOK(r, c) /\ circuits[r][c] \in ES
    BY <1>1 DEF OnionInv, CircuitsOK
  <2>2. CASE circuits'[r][c] = circuits[r][c]
    BY <2>1, <2>2 DEF EntryOK, Stop
  <2>3. CASE circuits'[r][c] = NoCircuit
    BY <1>2, <2>3 DEF EntryOK
  <2>4. CASE /\ circuits[r][c] # NoCircuit
             /\ circuits'[r][c] = [circuits[r][c] EXCEPT !.old = TRUE]
    <3>1. /\ [circuits[r][c] EXCEPT !.old = TRUE] \in ES
          /\ circuits'[r][c].prevHop = circuits[r][c].prevHop
      BY <2>1, <2>4
    <3> QED BY <2>1, <2>4, <3>1 DEF EntryOK, Stop
  <2> QED BY <2>2, <2>3, <2>4 DEF EntryFades
<1>4. circuits' \in [Relays -> [Circuits -> ES]]
  <2> PICK new : new = circuits'
    OBVIOUS
  <2>1. /\ new = [r \in Relays |-> [c \in Circuits |-> new[r][c]]]
        /\ \A r \in Relays, c \in Circuits : new[r][c] \in ES
    BY <1>3
  <2>2. new \in [Relays -> [Circuits -> ES]]
    BY <2>1
  <2> QED BY <2>2
<1> QED BY <1>3, <1>4 DEF CircuitsOK

(* The actions that only touch the entries of one relay.                   *)
LEMMA RelayKeeps ==
  ASSUME OnionInv, NEW r \in Relays,
         \/ \E c \in Circuits : Age(r, c)
         \/ cleanupCircuits(r)
         \/ Restart(r)
  PROVE  OnionInv'
<1>1. UNCHANGED <<knownRelays, packets, route, learned>>
  BY DEF Age, cleanupCircuits, Restart
<1>2. keys' \in [Relays -> Int]
  BY DEF OnionInv, Age, cleanupCircuits, Restart
<1>3. CircuitsOK'
  <2>1. circuits \in [Relays -> [Circuits ->
          [prevHop : Hops \cup {NoHop}, old : BOOLEAN]]]
    BY DEF OnionInv, CircuitsOK
  <2>2. ASSUME NEW c \in Circuits, Age(r, c)
        PROVE  CircuitsOK'
    <3>1. /\ \A q \in Relays, d \in Circuits : EntryFades(q, d)
          /\ circuits' = [q \in Relays |-> [d \in Circuits |-> circuits'[q][d]]]
      BY <2>1, <2>2 DEF Age, EntryFades
    <3> QED BY <1>1, <3>1, EntriesKeep
  <2>3. CASE cleanupCircuits(r)
    <3>1. /\ \A q \in Relays, d \in Circuits : EntryFades(q, d)
          /\ circuits' = [q \in Relays |-> [d \in Circuits |-> circuits'[q][d]]]
      BY <2>1, <2>3 DEF cleanupCircuits, EntryFades
    <3> QED BY <1>1, <3>1, EntriesKeep
  <2>4. CASE Restart(r)
    <3>1. /\ \A q \in Relays, d \in Circuits : EntryFades(q, d)
          /\ circuits' = [q \in Relays |-> [d \in Circuits |-> circuits'[q][d]]]
      BY <2>1, <2>4 DEF Restart, EntryFades
    <3> QED BY <1>1, <3>1, EntriesKeep
  <2> QED BY <2>2, <2>3, <2>4
<1> QED BY <1>1, <1>2, <1>3, SameRoutes DEF OnionInv

(* The start.                                                              *)
LEMMA OnionInit == RoutingInit => OnionInv
<1> SUFFICES ASSUME RoutingInit PROVE OnionInv
  OBVIOUS
<1>1. CircuitsOK
  BY DEF RoutingInit, CircuitsOK, EntryOK, NoCircuit
<1>2. RoutesOK
  BY DEF RoutingInit, RoutesOK
<1> QED BY <1>1, <1>2 DEF RoutingInit, OnionInv

(* Every step keeps the invariant.                                         *)
LEMMA OnionNext == OnionInv /\ [ServiceNext]_routingVars => OnionInv'
<1> SUFFICES ASSUME OnionInv, [ServiceNext]_routingVars PROVE OnionInv'
  OBVIOUS
<1>1. ASSUME NEW r \in Relays, registerRelay(r)
      PROVE  OnionInv'
  <2>1. UNCHANGED <<keys, packets, circuits, route, learned>>
    BY <1>1 DEF registerRelay
  <2>2. knownRelays' \in [Relays -> Int]
    BY <1>1 DEF registerRelay, OnionInv
  <2> QED BY <2>1, <2>2, SameRoutes DEF OnionInv
<1>2. ASSUME packets' \subseteq packets,
             UNCHANGED <<knownRelays, keys, circuits, route, learned>>
      PROVE  OnionInv'
  BY <1>2, SameRoutes DEF OnionInv
<1>3. ASSUME NEW p \in packets, Process(p)
      PROVE  OnionInv'
  <2>1. ASSUME NEW again \in BOOLEAN, Forward(p, again)
        PROVE  OnionInv'
    BY <2>1, ForwardKeeps
  <2>2. CASE Deliver(p)
    BY <1>2, <2>2 DEF Deliver
  <2>3. CASE Refuse(p)
    BY <1>2, <2>3 DEF Refuse
  <2> QED BY <1>3, <2>1, <2>2, <2>3 DEF Process
<1>4. ASSUME NEW p \in packets, Lose(p)
      PROVE  OnionInv'
  BY <1>2, <1>4 DEF Lose
<1>5. CASE UNCHANGED routingVars
  BY <1>2, <1>5 DEF routingVars
<1> QED
  BY <1>1, <1>3, <1>4, <1>5, SendKeeps, UnwiredKeeps, RelayKeeps
  DEF ServiceNext, RegisterRelay, SendAnonymous, ProcessPacket,
      CleanupCircuits, Environment

(* No relay sees both ends of a circuit of two hops or more: a relay is on *)
(* a route once, and each packet of a circuit, duplicated or not, comes to *)
(* it from the stop before and leaves it for the stop after.               *)
THEOREM NobodySeesBothEnds ==
  ASSUME hopCount > 1
  PROVE  ServiceSpec => []Unlinkable
<1>1. OnionInv => Unlinkable
  <2> SUFFICES ASSUME OnionInv, NEW l \in learned, NEW k \in learned,
                      l.relay = k.relay, l.circuit = k.circuit,
                      l.from = Sender, k.next = Destination
               PROVE  FALSE
    BY DEF Unlinkable
  <2>1. SightOK(l) /\ SightOK(k)
    BY DEF OnionInv
  <2>2. PICK n \in 1..hopCount :
          l.relay = route[l.circuit][n] /\ l.from = Stop(l.circuit, n - 1)
    BY <2>1 DEF SightOK
  <2>3. PICK m \in 1..hopCount :
          k.relay = route[k.circuit][m] /\ k.next = Stop(k.circuit, m + 1)
    BY <2>1 DEF SightOK
  <2>4. /\ route[l.circuit] \in [1..hopCount -> Relays]
        /\ \A i, j \in 1..hopCount :
             route[l.circuit][i] = route[l.circuit][j] => i = j
    BY <2>1 DEF SightOK, OnionInv, RoutesOK
  <2>5. n = m
    BY <2>2, <2>3, <2>4
  <2>6. hopCount \in Nat
    BY RouteAssumption
  <2>7. n = 1
    <3>1. n > 1 => n - 1 \in 1..hopCount
      BY <2>6
    <3> QED BY <2>2, <2>4, <2>6, <3>1, RouteAssumption DEF Stop
  <2>8. m = hopCount
    <3>1. m < hopCount => m + 1 \in 1..hopCount
      BY <2>6
    <3> QED BY <2>3, <2>4, <2>6, <3>1, RouteAssumption DEF Stop
  <2>9. hopCount # 1
    BY <2>6
  <2> QED BY <2>5, <2>7, <2>8, <2>9
<1> QED BY <1>1, OnionInit, OnionNext, PTL DEF ServiceSpec

(* Whatever was duplicated, forgotten or restarted, an entry that a relay  *)
(* has for a circuit leads one hop back on that circuit's route.           *)
THEOREM EntriesLeadBack == ServiceSpec => []ReplyPath
<1>1. OnionInv => ReplyPath
  <2> SUFFICES ASSUME OnionInv, NEW r \in Relays, NEW c \in Circuits,
                      circuits[r][c] # NoCircuit
               PROVE  \E i \in DOMAIN route[c] :
                        /\ route[c][i] = r
                        /\ circuits[r][c].prevHop =
                             IF i = 1 THEN Sender ELSE route[c][i - 1]
    BY DEF ReplyPath
  <2>1. EntryOK(r, c)
    BY DEF OnionInv, CircuitsOK
  <2>2. PICK n \in 1..hopCount :
          route[c][n] = r /\ circuits[r][c].prevHop = Stop(c, n - 1)
    BY <2>1 DEF EntryOK
  <2>3. route[c] \in [1..hopCount -> Relays]
    BY <2>1 DEF EntryOK, OnionInv, RoutesOK
  <2>4. Stop(c, n - 1) = IF n = 1 THEN Sender ELSE route[c][n - 1]
    BY RouteAssumption DEF Stop
  <2> QED BY <2>2, <2>3, <2>4
<1> QED BY <1>1, OnionInit, OnionNext, PTL DEF ServiceSpec

-----------------------------------------------------------------------------
(* The run of the queue.                                                   *)

(* The four states of a run.                                               *)
Quiet == timers = 0 /\ batches = 0 /\ processing = FALSE
Waiting == timers = 1 /\ batches = 0 /\ processing = TRUE
Handling == timers = 0 /\ batches = 1 /\ processing = TRUE
Stuck == timers = 0 /\ batches = 0 /\ processing = TRUE /\ rejected = TRUE

(* The queue is in one of them: no two runs at once.                       *)
RunInv == Quiet \/ Waiting \/ Handling \/ Stuck

(* A message queued while nobody runs starts the one run.                  *)
LEMMA EnqueueKeepsRun ==
  ASSUME RunInv, NEW m, NEW n, enqueue(m, n)
  PROVE  RunInv'
<1>1. UNCHANGED <<batches, rejected>>
  BY DEF enqueue
<1>2. CASE Quiet
  <2>1. timers' = timers + 1 /\ processing' = TRUE
    BY <1>2, Zenon DEF Quiet, enqueue, scheduleBatchProcess
  <2>2. timers' = 1
    BY <1>2, <2>1 DEF Quiet
  <2> QED BY <1>1, <1>2, <2>1, <2>2, Zenon DEF RunInv, Quiet, Waiting
<1>3. CASE processing = TRUE
  <2>1. UNCHANGED <<timers, processing>>
    BY <1>3, Zenon DEF enqueue, scheduleBatchProcess
  <2> QED
    BY <1>1, <2>1, Zenon DEF RunInv, Quiet, Waiting, Handling, Stuck
<1> QED BY <1>2, <1>3 DEF RunInv, Waiting, Handling, Stuck

(* The run passes from the timer to the handler and back, or ends.         *)
LEMMA BatchingKeepsRun ==
  ASSUME RunInv, Batching
  PROVE  RunInv'
<1>1. CASE processBatch
  <2>1. Waiting
    BY <1>1 DEF RunInv, Quiet, Handling, Stuck, processBatch
  <2>2. \/ processing' = FALSE /\ batches' = batches
        \/ processing' = processing /\ batches' = batches + 1
    BY <1>1, Zenon DEF processBatch
  <2>3. timers' = timers - 1
    BY <1>1 DEF processBatch
  <2>4. timers' = 0 /\ batches + 1 = 1
    BY <2>1, <2>3 DEF Waiting
  <2> QED BY <2>1, <2>2, <2>4, Zenon DEF RunInv, Waiting, Quiet, Handling
<1>2. CASE HandlerResolved
  <2>1. Handling
    BY <1>2 DEF RunInv, Quiet, Waiting, Stuck, HandlerResolved
  <2>2. \/ processing' = FALSE /\ timers' = timers
        \/ processing' = processing /\ timers' = timers + 1
    BY <1>2, Zenon DEF HandlerResolved, Continue
  <2>3. batches' = batches - 1
    BY <1>2 DEF HandlerResolved
  <2>4. batches' = 0 /\ timers + 1 = 1
    BY <2>1, <2>3 DEF Handling
  <2> QED BY <2>1, <2>2, <2>4, Zenon DEF RunInv, Waiting, Quiet, Handling
<1>3. CASE HandlerRejected
  <2>1. Handling
    BY <1>3 DEF RunInv, Quiet, Waiting, Stuck, HandlerRejected
  <2>2. batches' = 0 /\ timers' = timers
    BY <1>3, <2>1 DEF HandlerRejected, Handling
  <2>3. processing' = processing /\ rejected' = TRUE
    BY <1>3, Zenon DEF HandlerRejected
  <2> QED BY <2>1, <2>2, <2>3, Zenon DEF RunInv, Handling, Stuck
<1> QED BY <1>1, <1>2, <1>3 DEF Batching

(* Every step keeps it; the pool does not touch the queue.                 *)
LEMMA RunNext == RunInv /\ [Next]_vars => RunInv'
<1> SUFFICES ASSUME RunInv, [Next]_vars
             PROVE  RunInv'
  OBVIOUS
<1>1. CASE UNCHANGED <<processing, timers, batches, rejected>>
  BY <1>1, Zenon DEF RunInv, Quiet, Waiting, Handling, Stuck
<1>2. CASE Queueing
  BY <1>2, EnqueueKeepsRun DEF Queueing
<1>3. CASE Batching
  BY <1>3, BatchingKeepsRun
<1> QED
  BY <1>1, <1>2, <1>3, Zenon DEF Next, vars, queueVars, clearQueue, clear

(* What the states of a run mean.                                          *)
LEMMA RunIsOne == RunInv => OneRun
<1>1. CASE Quiet
  <2>1. timers + batches = 0
    BY <1>1 DEF Quiet
  <2>2. 0 <= 1 /\ 0 # 1
    OBVIOUS
  <2> QED BY <1>1, <2>1, <2>2, Zenon DEF Quiet, OneRun
<1>2. CASE Waiting \/ Handling
  <2>1. timers + batches = 1
    BY <1>2 DEF Waiting, Handling
  <2>2. 1 <= 1
    OBVIOUS
  <2> QED BY <1>2, <2>1, <2>2, Zenon DEF Waiting, Handling, OneRun
<1>3. CASE Stuck
  <2>1. timers + batches = 0
    BY <1>3 DEF Stuck
  <2>2. 0 <= 1 /\ 0 # 1
    OBVIOUS
  <2> QED BY <1>3, <2>1, <2>2, Zenon DEF Stuck, OneRun
<1> QED BY <1>1, <1>2, <1>3, Zenon DEF RunInv

(* Whenever messages arrive and however handlers settle, there is one timer *)
(* or one batch in the handler's hands at most, and until a handler rejects *)
(* processing tells exactly whether there is one: the queue never runs      *)
(* twice, and is never marked as running when nothing will call it again.   *)
THEOREM OneRunAlways == Spec => []OneRun
<1>1. Init => RunInv
  BY Zenon DEF Init, QueueInit, RunInv, Quiet
<1> QED BY <1>1, RunNext, RunIsOne, PTL DEF Spec

-----------------------------------------------------------------------------
(* The order of the queue.                                                 *)

(* What the queue keeps of a message: its priority and when it came.       *)
Entry == [message : Messages, priority : Nat, enqueuedAt : Nat]

(* What is served first: the more urgent, and of equals the earlier.       *)
Before(x, y) ==
  \/ x.priority < y.priority
  \/ x.priority = y.priority /\ x.enqueuedAt < y.enqueuedAt

(* A queue in the order in which it is served.                             *)
Ordered(q) == \A i, j \in DOMAIN q : i < j => Before(q[i], q[j])

(* The messages that came so far: a new one gets their number as its time. *)
Seen == Queued \cup gone

(* The queue is in its order, and everything in it came earlier than what  *)
(* comes next: the invariant from which UrgentFirst follows.               *)
OrderInv ==
  /\ queue \in Seq(Entry)
  /\ Ordered(queue)
  /\ IsFiniteSet(Seen)
  /\ \A i \in DOMAIN queue : queue[i].enqueuedAt < Cardinality(Seen)

(* The entries that go ahead of one that is queued are the first ones.     *)
LEMMA AheadIsPrefix ==
  ASSUME NEW q \in Seq(Entry), Ordered(q), NEW n \in Nat
  PROVE  LET S == {i \in DOMAIN q : q[i].priority <= n}
         IN  /\ Cardinality(S) \in 0..Len(q)
             /\ S = 1..Cardinality(S)
<1> DEFINE S == {i \in DOMAIN q : q[i].priority <= n}
           k == Cardinality(S)
<1>1. DOMAIN q = 1..Len(q) /\ Len(q) \in Nat
  OBVIOUS
<1>2. S \subseteq 1..Len(q)
  BY <1>1
<1>3. IsFiniteSet(1..Len(q)) /\ Cardinality(1..Len(q)) = Len(q)
  <2>1. Len(q) \in Int /\ 1 \in Int
    BY <1>1
  <2>2. IsFiniteSet(1..Len(q)) /\ Cardinality(1..Len(q)) = IF 1 > Len(q) THEN 0 ELSE Len(q) - 1 + 1
    BY <2>1, FS_Interval
  <2> QED BY <1>1, <2>2
<1> HIDE DEF S
<1>4. IsFiniteSet(S) /\ k \in Nat /\ k <= Len(q)
  BY <1>2, <1>3, FS_Subset, FS_CardinalityType
<1>5. \A i, j \in 1..Len(q) : i < j /\ j \in S => i \in S
  <2> SUFFICES ASSUME NEW i \in 1..Len(q), NEW j \in 1..Len(q), i < j, j \in S
               PROVE  i \in S
    OBVIOUS
  <2>1. Before(q[i], q[j])
    BY <1>1 DEF Ordered
  <2>2. q[i] \in Entry /\ q[j] \in Entry
    BY <1>1
  <2>3. q[i].priority \in Nat /\ q[j].priority \in Nat
    BY <2>2 DEF Entry
  <2>4. q[j].priority <= n
    BY DEF S
  <2>5. q[i].priority <= n
    BY <2>1, <2>3, <2>4 DEF Before
  <2> QED BY <1>1, <2>5 DEF S
<1>6. \A x \in S : x <= k
  <2> SUFFICES ASSUME NEW x \in S
               PROVE  x <= k
    OBVIOUS
  <2>1. x \in 1..Len(q) /\ 1..x \subseteq S
    BY <1>2, <1>5
  <2>2. Cardinality(1..x) = x
    <3>1. x \in Int /\ 1 \in Int /\ x >= 1
      BY <2>1
    <3> QED BY <3>1, FS_Interval
  <2>3. Cardinality(1..x) <= k
    BY <1>4, <2>1, FS_Subset
  <2> QED BY <2>2, <2>3
<1>7. S \subseteq 1..k
  BY <1>2, <1>4, <1>6
<1>8. IsFiniteSet(1..k) /\ Cardinality(1..k) = k
  <2>1. k \in Int /\ 1 \in Int
    BY <1>4
  <2>2. IsFiniteSet(1..k) /\ Cardinality(1..k) = IF 1 > k THEN 0 ELSE k - 1 + 1
    BY <2>1, FS_Interval
  <2> QED BY <1>4, <2>2
<1>9. S = 1..k
  BY <1>7, <1>8, FS_Subset
<1> QED BY <1>1, <1>4, <1>9 DEF S

(* r is q with e behind its first k entries.                               *)
Spliced(r, q, k, e) ==
  /\ Len(r) = Len(q) + 1
  /\ \A i \in 1..(Len(q) + 1) :
       r[i] = IF i <= k THEN q[i] ELSE IF i = k + 1 THEN e ELSE q[i - 1]

(* What After makes of a sequence.                                         *)
LEMMA Inserted ==
  ASSUME NEW T, NEW q \in Seq(T), NEW e \in T, NEW k \in 0..Len(q),
         NEW r, r = After(q, k, e)
  PROVE  r \in Seq(T) /\ Spliced(r, q, k, e)
<1> DEFINE a == SubSeq(q, 1, k)
           b == SubSeq(q, k + 1, Len(q))
<1>1. DOMAIN q = 1..Len(q) /\ Len(q) \in Nat /\ k \in Nat /\ k <= Len(q)
      /\ \A i \in 1..Len(q) : q[i] \in T
  OBVIOUS
<1>2. a \in Seq(T) /\ Len(a) = k /\ \A i \in 1..k : a[i] = q[i]
  <2>1. 1 \in Int /\ k \in Int /\ \A i \in 1..k : q[i] \in T
    BY <1>1
  <2>2. /\ a \in Seq(T) /\ Len(a) = (IF 1 <= k THEN k - 1 + 1 ELSE 0)
        /\ \A i \in 1..(k - 1 + 1) : a[i] = q[1 + i - 1]
    BY <2>1, SubSeqProperties
  <2> QED BY <1>1, <2>2
<1>3. b \in Seq(T) /\ Len(b) = Len(q) - k /\ \A i \in 1..(Len(q) - k) : b[i] = q[k + i]
  <2>1. k + 1 \in Int /\ Len(q) \in Int /\ \A i \in (k + 1)..Len(q) : q[i] \in T
    BY <1>1
  <2>2. /\ b \in Seq(T) /\ Len(b) = (IF k + 1 <= Len(q) THEN Len(q) - (k + 1) + 1 ELSE 0)
        /\ \A i \in 1..(Len(q) - (k + 1) + 1) : b[i] = q[(k + 1) + i - 1]
    BY <2>1, SubSeqProperties
  <2> HIDE DEF b
  <2> DEFINE n == Len(q)
             l == Len(b)
  <2>6. n \in Nat /\ k \in Nat /\ k <= n /\ (l = IF k + 1 <= n THEN n - (k + 1) + 1 ELSE 0)
    BY <1>1, <2>2
  <2>7. n - (k + 1) + 1 = n - k
    <3> HIDE DEF n
    <3> QED BY <2>6
  <2>3. Len(b) = Len(q) - k
    <3> HIDE DEF n, l
    <3>1. l = n - k
      BY ONLY <2>6
    <3> QED BY <3>1 DEF n, l
  <2>4. \A i \in 1..(Len(q) - k) : b[i] = q[(k + 1) + i - 1]
    BY ONLY <2>2, <2>7, Zenon
  <2>5. \A i \in 1..(Len(q) - k) : (k + 1) + i - 1 = k + i
    BY <1>1
  <2> QED BY <2>2, <2>3, <2>4, <2>5
<1> DEFINE c == a \o <<e>>
<1>4. r = c \o b
  BY DEF After
<1> HIDE DEF a, b
<1>5. c \in Seq(T) /\ Len(c) = k + 1 /\ \A i \in 1..(k + 1) : c[i] = IF i <= k THEN q[i] ELSE e
  <2>1. <<e>> \in Seq(T) /\ Len(<<e>>) = 1 /\ <<e>>[1] = e
    OBVIOUS
  <2>2. /\ c \in Seq(T) /\ Len(c) = Len(a) + Len(<<e>>)
        /\ \A i \in 1..(Len(a) + Len(<<e>>)) :
             c[i] = IF i <= Len(a) THEN a[i] ELSE <<e>>[i - Len(a)]
    BY <1>2, <2>1, ConcatProperties
  <2> HIDE DEF c
  <2>3. \A i \in 1..(k + 1) : c[i] = IF i <= k THEN a[i] ELSE <<e>>[i - k]
    BY <1>1, <1>2, <2>1, <2>2
  <2>4. \A i \in 1..(k + 1) : i <= k => c[i] = q[i]
    BY <1>1, <1>2, <2>3
  <2>5. c[k + 1] = e
    BY <1>1, <2>1, <2>3
  <2> QED BY <1>1, <1>2, <2>1, <2>2, <2>4, <2>5
<1> HIDE DEF c
<1>6. /\ r \in Seq(T) /\ Len(r) = Len(c) + Len(b)
      /\ \A i \in 1..(Len(c) + Len(b)) : r[i] = IF i <= Len(c) THEN c[i] ELSE b[i - Len(c)]
  <2> DEFINE d == c \o b
  <2>1. /\ d \in Seq(T) /\ Len(d) = Len(c) + Len(b)
        /\ \A i \in 1..(Len(c) + Len(b)) : d[i] = IF i <= Len(c) THEN c[i] ELSE b[i - Len(c)]
    BY <1>3, <1>5, ConcatProperties
  <2>2. r = d
    BY <1>4
  <2> HIDE DEF d
  <2> QED BY ONLY <2>1, <2>2, Zenon
<1>7. Len(r) = Len(q) + 1
  BY <1>1, <1>3, <1>5, <1>6
<1>8. \A i \in 1..(Len(q) + 1) :
        r[i] = IF i <= k THEN q[i] ELSE IF i = k + 1 THEN e ELSE q[i - 1]
  <2> TAKE i \in 1..(Len(q) + 1)
  <2>1. r[i] = IF i <= k + 1 THEN c[i] ELSE b[i - (k + 1)]
    BY <1>1, <1>3, <1>5, <1>6
  <2>2. CASE i <= k + 1
    BY <1>1, <1>5, <2>1, <2>2
  <2>3. CASE i > k + 1
    <3>1. i - (k + 1) \in 1..(Len(q) - k) /\ k + (i - (k + 1)) = i - 1
      BY <1>1, <2>3
    <3>2. b[i - (k + 1)] = q[k + (i - (k + 1))]
      BY <1>3, <3>1
    <3> QED BY <1>1, <2>1, <2>3, <3>1, <3>2
  <2> QED BY <1>1, <2>2, <2>3
<1> QED BY <1>6, <1>7, <1>8 DEF Spliced

(* The new message is behind those at least as urgent, and ahead of the    *)
(* others.                                                                 *)
LEMMA PlacedOrdered ==
  ASSUME NEW q \in Seq(Entry), Ordered(q), NEW e \in Entry,
         \A i \in DOMAIN q : q[i].enqueuedAt < e.enqueuedAt
  PROVE  /\ Placed(q, e) \in Seq(Entry) /\ Len(Placed(q, e)) = Len(q) + 1
         /\ Ordered(Placed(q, e))
         /\ \A i \in DOMAIN Placed(q, e) :
              Placed(q, e)[i] = e \/ \E j \in DOMAIN q : Placed(q, e)[i] = q[j]
         /\ \E i \in DOMAIN Placed(q, e) : Placed(q, e)[i] = e
         /\ \A j \in DOMAIN q : \E i \in DOMAIN Placed(q, e) : Placed(q, e)[i] = q[j]
<1> DEFINE S == {i \in DOMAIN q : q[i].priority <= e.priority}
           k == Cardinality(S)
           r == Placed(q, e)
           L == Len(q)
<1>1. e.priority \in Nat /\ e.enqueuedAt \in Nat
  BY DEF Entry
<1>2. k \in 0..L /\ S = 1..k
  BY <1>1, AheadIsPrefix
<1>3. k + 1 = 1 + k
  BY <1>2
<1>4. r = After(q, k, e)
  BY Zenon DEF Placed
<1>5. DOMAIN q = 1..L /\ L \in Nat /\ \A i \in 1..L : q[i] \in Entry
  OBVIOUS
<1>6. \A i \in 1..k : q[i].priority <= e.priority
  BY <1>2
<1>7. \A i \in (k + 1)..L : e.priority < q[i].priority
  <2> TAKE i \in (k + 1)..L
  <2>0. k \in Nat /\ k <= L /\ L \in Nat
    BY <1>2, <1>5
  <2>1. i \in 1..L /\ i \notin 1..k
    <3> HIDE DEF k, L
    <3> QED BY <2>0
  <2>2. i \in DOMAIN q /\ i \notin S
    BY <1>2, <1>5, <2>1
  <2>3. ~(q[i].priority <= e.priority)
    BY <2>2
  <2>4. q[i].priority \in Nat
    BY <1>5, <2>1 DEF Entry
  <2> QED BY ONLY <1>1, <2>3, <2>4
<1> HIDE DEF S, k, r
<1>8. /\ r \in Seq(Entry) /\ Len(r) = L + 1
      /\ \A i \in 1..(L + 1) :
           r[i] = IF i <= k THEN q[i] ELSE IF i = k + 1 THEN e ELSE q[i - 1]
  <2>1. k \in 0..Len(q) /\ q \in Seq(Entry) /\ e \in Entry
    BY <1>2
  <2>2. /\ r \in Seq(Entry) /\ Len(r) = Len(q) + 1
        /\ \A i \in 1..(Len(q) + 1) :
             r[i] = IF i <= k THEN q[i] ELSE IF i = k + 1 THEN e ELSE q[i - 1]
    <3>1. Spliced(r, q, k, e)
      BY ONLY <1>4, <2>1, Inserted
    <3> QED BY <2>1, <3>1, <1>4, Inserted, Zenon DEF Spliced
  <2> QED BY ONLY <2>2
<1>9. DOMAIN r = 1..(L + 1)
  BY <1>5, <1>8
<1>10. \A i, j \in 1..L : i < j => Before(q[i], q[j])
  BY <1>5 DEF Ordered
<1> HIDE DEF L
<1>11. Ordered(r)
  <2> SUFFICES ASSUME NEW i \in 1..(L + 1), NEW j \in 1..(L + 1), i < j
               PROVE  Before(r[i], r[j])
    BY <1>9 DEF Ordered
  <2>1. CASE j <= k
    <3>1. r[i] = q[i] /\ r[j] = q[j] /\ i \in 1..L /\ j \in 1..L
      BY <1>2, <1>5, <1>8, <2>1
    <3> QED BY <1>10, <3>1
  <2>2. CASE j = k + 1
    <3>1. r[i] = q[i] /\ r[j] = e /\ i \in 1..k /\ i \in 1..L
      BY <1>2, <1>5, <1>8, <2>2
    <3>2. q[i].priority <= e.priority /\ q[i].enqueuedAt < e.enqueuedAt
          /\ q[i].priority \in Nat
      BY <1>5, <1>6, <3>1 DEF Entry
    <3> QED BY <1>1, <3>1, <3>2 DEF Before
  <2>3. CASE j > k + 1 /\ i = k + 1
    <3>1. r[i] = e /\ r[j] = q[j - 1] /\ j - 1 \in (k + 1)..L
      BY <1>2, <1>5, <1>8, <2>3
    <3> QED BY <1>7, <3>1 DEF Before
  <2>4. CASE j > k + 1 /\ i <= k
    <3>1. r[i] = q[i] /\ r[j] = q[j - 1] /\ i \in 1..L /\ j - 1 \in 1..L /\ i < j - 1
      BY <1>2, <1>5, <1>8, <2>4
    <3> QED BY <1>10, <3>1
  <2>5. CASE i > k + 1
    <3>1. r[i] = q[i - 1] /\ r[j] = q[j - 1] /\ i - 1 \in 1..L /\ j - 1 \in 1..L
          /\ i - 1 < j - 1
      BY <1>2, <1>5, <1>8, <2>5
    <3> QED BY <1>10, <3>1
  <2> QED BY <1>2, <1>5, <2>1, <2>2, <2>3, <2>4, <2>5
<1>12. \A i \in 1..(L + 1) : r[i] = e \/ \E j \in 1..L : r[i] = q[j]
  <2> TAKE i \in 1..(L + 1)
  <2>1. CASE i <= k
    BY <1>2, <1>5, <1>8, <2>1
  <2>2. CASE i = k + 1
    BY <1>2, <1>5, <1>8, <2>2
  <2>3. CASE i > k + 1
    <3>1. i - 1 \in 1..L /\ r[i] = q[i - 1]
      BY <1>2, <1>5, <1>8, <2>3
    <3> QED BY <3>1
  <2> QED BY <1>2, <1>5, <2>1, <2>2, <2>3
<1>13. k + 1 \in 1..(L + 1) /\ r[k + 1] = e
  BY <1>2, <1>5, <1>8
<1>14. \A j \in 1..L : \E i \in 1..(L + 1) : r[i] = q[j]
  <2> TAKE j \in 1..L
  <2>1. CASE j <= k
    BY <1>2, <1>5, <1>8, <2>1
  <2>2. CASE j > k
    <3>1. j + 1 \in 1..(L + 1) /\ j + 1 > k + 1 /\ j + 1 - 1 = j
      BY <1>2, <1>5, <2>2
    <3>2. r[j + 1] = q[j]
      BY <1>2, <1>5, <1>8, <3>1
    <3> QED BY <3>1, <3>2
  <2> QED BY <1>2, <1>5, <2>1, <2>2
<1> QED BY <1>5, <1>8, <1>9, <1>11, <1>12, <1>13, <1>14 DEF r, L

-----------------------------------------------------------------------------
(* enqueue puts a message behind those at least as urgent, all of them     *)
(* earlier, and ahead of the rest.                                         *)
LEMMA EnqueueKeepsOrder ==
  ASSUME OrderInv, NEW m \in Messages, NEW n \in Priorities, enqueue(m, n)
  PROVE  OrderInv'
<1> DEFINE e == [message |-> m, priority |-> n, enqueuedAt |-> Cardinality(Seen)]
           r == Placed(queue, e)
<1>1. queue' = r /\ gone' = gone
  BY DEF enqueue, Seen
<1>2. Cardinality(Seen) \in Nat /\ IsFiniteSet(Seen)
  BY FS_CardinalityType DEF OrderInv
<1>3. m \notin Seen
  BY DEF enqueue, Seen
<1>4. e \in Entry /\ e.enqueuedAt = Cardinality(Seen) /\ e.message = m
  BY <1>2, QueueAssumption DEF Entry
<1> HIDE DEF e
<1>5. /\ r \in Seq(Entry) /\ Len(r) = Len(queue) + 1 /\ Ordered(r)
      /\ \A i \in DOMAIN r : r[i] = e \/ \E j \in DOMAIN queue : r[i] = queue[j]
      /\ \E i \in DOMAIN r : r[i] = e
      /\ \A j \in DOMAIN queue : \E i \in DOMAIN r : r[i] = queue[j]
  BY <1>4, PlacedOrdered, ZenonT(60) DEF OrderInv
<1> HIDE DEF r
<1>6. Queued' = Queued \cup {m}
  <2>1. Queued' = {r[i].message : i \in DOMAIN r}
    BY <1>1 DEF Queued
  <2>2. \A x \in Queued' : x \in Queued \cup {m}
    <3> TAKE x \in Queued'
    <3>1. PICK i \in DOMAIN r : x = r[i].message
      BY <2>1
    <3>2. CASE r[i] = e
      BY <1>4, <3>1, <3>2
    <3>3. CASE \E j \in DOMAIN queue : r[i] = queue[j]
      BY <3>1, <3>3 DEF Queued
    <3> QED BY <1>5, <3>2, <3>3
  <2>3. m \in Queued'
    BY <1>4, <1>5, <2>1
  <2>4. \A x \in Queued : x \in Queued'
    <3> TAKE x \in Queued
    <3>1. PICK j \in DOMAIN queue : x = queue[j].message
      BY DEF Queued
    <3>2. PICK i \in DOMAIN r : r[i] = queue[j]
      BY <1>5
    <3> QED BY <2>1, <3>1, <3>2
  <2> QED BY <2>2, <2>3, <2>4
<1>7. Seen' = Seen \cup {m}
  BY <1>1, <1>6 DEF Seen
<1>8. IsFiniteSet(Seen') /\ Cardinality(Seen') = Cardinality(Seen) + 1
  BY <1>2, <1>3, <1>7, FS_AddElement
<1>9. \A i \in DOMAIN queue' : queue'[i].enqueuedAt < Cardinality(Seen')
  <2> SUFFICES ASSUME NEW i \in DOMAIN r
               PROVE  r[i].enqueuedAt < Cardinality(Seen) + 1
    BY <1>1, <1>8
  <2>1. CASE r[i] = e
    BY <1>2, <1>4, <2>1
  <2>2. CASE \E j \in DOMAIN queue : r[i] = queue[j]
    <3>1. PICK j \in DOMAIN queue : r[i] = queue[j]
      BY <2>2
    <3>2. queue[j].enqueuedAt < Cardinality(Seen) /\ queue[j].enqueuedAt \in Nat
      <4>1. queue[j] \in Entry
        BY DEF OrderInv
      <4> QED BY <4>1 DEF OrderInv, Entry
    <3> QED BY <1>2, <3>1, <3>2
  <2> QED BY <1>5, <2>1, <2>2
<1> QED BY <1>1, <1>5, <1>8, <1>9 DEF OrderInv

(* processBatch takes a prefix of the queue, and leaves the rest in its    *)
(* order.                                                                  *)
LEMMA BatchKeepsOrder ==
  ASSUME OrderInv, processBatch
  PROVE  OrderInv'
<1>1. CASE queue = <<>>
  <2>1. UNCHANGED <<queue, gone>>
    BY <1>1 DEF processBatch
  <2> QED BY <2>1 DEF OrderInv, Seen, Queued
<1>2. CASE queue # <<>>
  <2> DEFINE L == Len(queue)
             r == SubSeq(queue, Taken + 1, L)
  <2>1. /\ queue' = r
        /\ gone' = gone \cup {queue[i].message : i \in 1..Taken}
    BY <1>2 DEF processBatch
  <2>2. DOMAIN queue = 1..L /\ L \in Nat /\ L # 0 /\ \A i \in 1..L : queue[i] \in Entry
    BY <1>2 DEF OrderInv
  <2>3. Taken \in 1..L
    BY <2>2, QueueAssumption DEF Taken
  <2>4. r \in Seq(Entry) /\ Len(r) = L - Taken
        /\ \A i \in 1..(L - Taken) : r[i] = queue[Taken + i]
    <3>1. Taken + 1 \in Int /\ L \in Int /\ \A i \in (Taken + 1)..L : queue[i] \in Entry
      BY <2>2, <2>3
    <3>2. /\ r \in Seq(Entry)
          /\ Len(r) = IF Taken + 1 <= L THEN L - (Taken + 1) + 1 ELSE 0
          /\ \A i \in 1..(L - (Taken + 1) + 1) : r[i] = queue[(Taken + 1) + i - 1]
      BY <3>1, SubSeqProperties
    <3> HIDE DEF r, L
    <3>3. L - (Taken + 1) + 1 = L - Taken
          /\ \A i \in 1..(L - Taken) : (Taken + 1) + i - 1 = Taken + i
      BY <2>2, <2>3
    <3>4. Len(r) = L - Taken
      BY <2>2, <2>3, <3>2
    <3> QED BY <3>2, <3>3, <3>4
  <2> HIDE DEF r, L
  <2>5. DOMAIN r = 1..(L - Taken)
    BY <2>2, <2>3, <2>4
  <2>6. \A i \in 1..(L - Taken) : Taken + i \in 1..L
    BY <2>2, <2>3
  <2>7. Ordered(r)
    <3> SUFFICES ASSUME NEW i \in 1..(L - Taken), NEW j \in 1..(L - Taken), i < j
                 PROVE  Before(r[i], r[j])
      BY <2>5 DEF Ordered
    <3>1. Taken + i < Taken + j
      BY <2>2, <2>3
    <3>2. Before(queue[Taken + i], queue[Taken + j])
      BY <2>2, <2>6, <3>1 DEF OrderInv, Ordered
    <3> QED BY <2>4, <3>2
  <2>8. Seen' = Seen
    <3>1. Queued = {queue[i].message : i \in 1..L}
          /\ Queued' = {r[i].message : i \in 1..(L - Taken)}
      BY <2>1, <2>2, <2>5 DEF Queued
    <3>2. \A x \in Seen' : x \in Seen
      <4>1. \A i \in 1..(L - Taken) : r[i].message \in Queued
        BY <2>4, <2>6, <3>1
      <4>2. \A i \in 1..Taken : queue[i].message \in Queued
        <5>1. \A i \in 1..Taken : i \in 1..L
          BY <2>2, <2>3
        <5> QED BY <3>1, <5>1
      <4> QED BY <2>1, <3>1, <4>1, <4>2 DEF Seen
    <3>3. \A x \in Seen : x \in Seen'
      <4> TAKE x \in Seen
      <4>1. CASE x \in gone
        BY <2>1, <4>1 DEF Seen
      <4>2. CASE x \in Queued
        <5>1. PICK i \in 1..L : x = queue[i].message
          BY <3>1, <4>2
        <5>2. CASE i <= Taken
          <6>1. i \in 1..Taken
            BY <2>2, <2>3, <5>2
          <6> QED BY <2>1, <5>1, <6>1 DEF Seen
        <5>3. CASE i > Taken
          <6>1. i - Taken \in 1..(L - Taken) /\ Taken + (i - Taken) = i
            BY <2>2, <2>3, <5>3
          <6>2. r[i - Taken] = queue[i]
            BY <2>4, <6>1
          <6> QED BY <3>1, <5>1, <6>1, <6>2 DEF Seen
        <5> QED BY <2>2, <2>3, <5>2, <5>3
      <4> QED BY <4>1, <4>2 DEF Seen
    <3> QED BY <3>2, <3>3
  <2>9. \A i \in DOMAIN queue' : queue'[i].enqueuedAt < Cardinality(Seen')
    BY <2>1, <2>2, <2>4, <2>5, <2>6, <2>8 DEF OrderInv
  <2> QED BY <2>1, <2>4, <2>7, <2>8, <2>9 DEF OrderInv
<1> QED BY <1>1, <1>2

(* No step of the pool or of its queue disturbs the order.                 *)
LEMMA OrderNext == OrderInv /\ [Next]_vars => OrderInv'
<1> SUFFICES ASSUME OrderInv, [Next]_vars
             PROVE  OrderInv'
  OBVIOUS
<1>1. CASE UNCHANGED <<queue, gone>>
  BY <1>1 DEF OrderInv, Seen, Queued
<1>2. CASE Queueing
  BY <1>2, EnqueueKeepsOrder DEF Queueing
<1>3. CASE processBatch
  BY <1>3, BatchKeepsOrder
<1>4. CASE clear
  <2>1. queue' = <<>> /\ gone' = gone \cup Queued
    BY <1>4 DEF clear
  <2>2. Queued' = {} /\ DOMAIN queue' = {} /\ queue' \in Seq(Entry)
    BY <2>1 DEF Queued
  <2>3. Seen' = Seen
    BY <2>1, <2>2 DEF Seen
  <2> QED BY <2>1, <2>2, <2>3 DEF OrderInv, Ordered
<1> QED
  BY <1>1, <1>2, <1>3, <1>4, Zenon
     DEF Next, vars, queueVars, clearQueue, Batching, HandlerResolved, HandlerRejected

(* The messages wait in the order of their priority, and equals in the     *)
(* order of enqueue, whatever is queued while a batch is handled and       *)
(* whatever is cleared.                                                    *)
THEOREM UrgentFirstAlways == Spec => []UrgentFirst
<1>1. Init => OrderInv
  <2> SUFFICES ASSUME Init
               PROVE  OrderInv
    OBVIOUS
  <2>1. queue = <<>> /\ gone = {}
    BY DEF Init, QueueInit
  <2>2. Seen = {} /\ DOMAIN queue = {} /\ queue \in Seq(Entry)
    BY <2>1 DEF Seen, Queued
  <2>3. IsFiniteSet({})
    BY FS_EmptySet
  <2> QED BY <2>2, <2>3 DEF OrderInv, Ordered
<1>2. OrderInv => UrgentFirst
  BY DEF OrderInv, Ordered, Before, UrgentFirst
<1> QED BY <1>1, <1>2, OrderNext, PTL DEF Spec

-----------------------------------------------------------------------------
(* The scores of the relays.                                               *)

(* The averages a relay may have: one of the measured values, or none.     *)
Latency == Latencies \cup {Unmeasured}

(* The entry of a peer in relayNodes.                                      *)
RelayRecord ==
  [known : BOOLEAN, succeeded : Nat, failed : Nat, averageLatency : Latency, score : Int]

(* What a record of so many answers and failures may score.                *)
Earned(s, f) == 40 * Point + (3 * Reliability(s, f)) \div 5

(* A relay that was measured scores no more than its answers and failures  *)
(* earned it. One that was not scores what its discovery or a mark gave    *)
(* it.                                                                     *)
RelayInv(r) ==
  /\ r \in RelayRecord
  /\ r.averageLatency # Unmeasured => r.score <= Earned(r.succeeded, r.failed)

(* The same of every peer: the invariant from which ScoreEarned follows.   *)
ScoreInv ==
  /\ relayNodes \in [Peers -> RelayRecord]
  /\ \A p \in Peers : RelayInv(relayNodes[p])

(* What the proofs use of the constants.                                   *)
LEMMA PoolConstants ==
  /\ RelayPeers \subseteq Peers
  /\ Latencies \subseteq Nat
BY PoolAssumption

(* The reliability of a relay is a natural number.                         *)
LEMMA ReliabilityType ==
  ASSUME NEW s \in Nat, NEW f \in Nat
  PROVE  Reliability(s, f) \in Nat
<1> DEFINE a == 100 * Point * s
           b == s + f + 1
<1>1. a \in Nat /\ b \in Nat /\ b > 0
  BY DEF Point
<1>2. Reliability(s, f) = a \div b
  BY DEF Reliability
<1> HIDE DEF a, b
<1>3. a \div b \in Nat
  BY <1>1
<1> QED BY <1>2, <1>3

(* So is the score it earned.                                              *)
LEMMA EarnedType ==
  ASSUME NEW s \in Nat, NEW f \in Nat
  PROVE  Earned(s, f) \in Nat
<1>1. Reliability(s, f) \in Nat
  BY ReliabilityType
<1> QED BY <1>1 DEF Earned, Point

(* The score computed from a record is at most what it earned.             *)
LEMMA ScoreFits ==
  ASSUME NEW r, r.succeeded \in Nat, r.failed \in Nat, r.averageLatency \in Nat
  PROVE  Score(r) \in Int /\ Score(r) <= Earned(r.succeeded, r.failed)
<1> DEFINE l == LatencyScore(r.averageLatency)
           e == (3 * Reliability(r.succeeded, r.failed)) \div 5
<1>1. l \in Int /\ l <= 100
  BY DEF LatencyScore
<1>2. e \in Int
  <2>1. Reliability(r.succeeded, r.failed) \in Nat
    BY ReliabilityType
  <2> QED BY <2>1
<1>3. Score(r) = (2 * Point * l) \div 5 + e
  BY DEF Score
<1>4. Earned(r.succeeded, r.failed) = 40 * Point + e
  BY DEF Earned
<1> HIDE DEF l, e
<1>5. (2 * Point * l) \div 5 \in Int /\ (2 * Point * l) \div 5 <= 40 * Point
  BY <1>1 DEF Point
<1> QED BY <1>2, <1>3, <1>4, <1>5 DEF Point

(* What a quotient rounded down is.                                        *)
LEMMA Quotient ==
  ASSUME NEW a \in Nat, NEW n \in Nat \ {0}
  PROVE  /\ a \div n \in Nat
         /\ (a \div n) * n <= a
         /\ a < (a \div n) * n + n
OBVIOUS

(* One more failure takes at most a sixth of the reliability, however many *)
(* requests were made: it takes most when the first or the second one      *)
(* succeeded.                                                              *)
LEMMA ReliabilityFalls ==
  ASSUME NEW s \in Nat, NEW f \in Nat
  PROVE  /\ Reliability(s, f) \in Nat /\ Reliability(s, f + 1) \in Nat
         /\ Reliability(s, f) <= Reliability(s, f + 1) + 10000
<1> DEFINE n == s + f
           t == 60000 * s
           a == t \div (n + 1)
           b == t \div (n + 2)
<1>1. /\ Reliability(s, f) = a
      /\ Reliability(s, f + 1) = b
  <2>1. s + (f + 1) + 1 = n + 2 /\ s + f + 1 = n + 1 /\ 100 * Point * s = t
    BY DEF Point
  <2> QED BY <2>1 DEF Reliability
<1>2. n \in Nat /\ t \in Nat /\ t <= 60000 * n
  OBVIOUS
<1> HIDE DEF n, t
<1>3. a \in Nat /\ a * (n + 1) <= t
  <2>1. PICK d \in Nat \ {0} : d = n + 1
    BY <1>2
  <2>2. t \div d \in Nat /\ (t \div d) * d <= t
    BY <1>2, Quotient
  <2> QED BY <2>1, <2>2
<1>4. b \in Nat /\ b * (n + 2) <= t /\ t < b * (n + 2) + (n + 2)
  <2>1. PICK d \in Nat \ {0} : d = n + 2
    BY <1>2
  <2>2. t \div d \in Nat /\ (t \div d) * d <= t /\ t < (t \div d) * d + d
    BY <1>2, Quotient
  <2> QED BY <2>1, <2>2
<1> HIDE DEF a, b
<1>5. a <= b + 10000
  <2> SUFFICES ASSUME a >= b + 10001
               PROVE  FALSE
    BY <1>3, <1>4
  <2>1. (b + 10001) * (n + 1) <= t
    <3>1. (b + 10001) * (n + 1) <= a * (n + 1)
      BY <1>2, <1>3, <1>4
    <3> QED BY <1>2, <1>3, <1>4, <3>1
  <2>2. 10000 * (n + 1) < b + 1
    BY <1>2, <1>4, <2>1
  <2>3. 10000 * (n + 1) * (n + 2) <= 60000 * n
    BY <1>2, <1>4, <2>2
  <2>4. n * n + 2 <= 3 * n
    BY <1>2, <2>3
  <2>5. n \in {1, 2}
    <3>1. n < 3
      BY <1>2, <2>4
    <3> QED BY <1>2, <2>4, <3>1
  <2>6. CASE n = 1
    BY <1>2, <1>3, <1>4, <2>2, <2>6
  <2>7. CASE n = 2
    BY <1>2, <1>3, <1>4, <2>2, <2>7
  <2> QED BY <2>5, <2>6, <2>7
<1> QED BY <1>1, <1>3, <1>4, <1>5

(* So the penalty takes at least what the failure costs.                   *)
LEMMA PenaltyCovers ==
  ASSUME NEW s \in Nat, NEW f \in Nat
  PROVE  Earned(s, f) - 10 * Point <= Earned(s, f + 1)
<1>1. PICK a \in Nat, b \in Nat :
        a = Reliability(s, f) /\ b = Reliability(s, f + 1) /\ a <= b + 10000
  <2>1. /\ Reliability(s, f) \in Nat /\ Reliability(s, f + 1) \in Nat
        /\ Reliability(s, f) <= Reliability(s, f + 1) + 10000
    BY ONLY ReliabilityFalls, s \in Nat, f \in Nat
  <2> QED BY <2>1
<1>2. (3 * a) \div 5 <= (3 * b) \div 5 + 6000
  BY <1>1
<1> QED BY <1>1, <1>2 DEF Earned, Point

(* A failure takes ten points, and what was earned falls by no more.       *)
LEMMA PenalisedInv ==
  ASSUME NEW r, RelayInv(r)
  PROVE  RelayInv(Penalised(r))
<1>1. PICK k \in BOOLEAN, s \in Nat, f \in Nat, a \in Latency, c \in Int :
        r = [known |-> k, succeeded |-> s, failed |-> f, averageLatency |-> a, score |-> c]
  BY DEF RelayInv, RelayRecord
<1> DEFINE d == IF c < 10 * Point THEN 0 ELSE c - 10 * Point
<1>2. Penalised(r) = [known |-> k, succeeded |-> s, failed |-> f + 1,
                      averageLatency |-> a, score |-> d]
  <2>1. Penalised(r) = [r EXCEPT !.failed = f + 1, !.score = d]
    BY <1>1 DEF Penalised
  <2> HIDE DEF d
  <2> QED BY ONLY <1>1, <2>1, Zenon
<1>3. d \in Int
  BY DEF Point
<1>4. a # Unmeasured => d <= Earned(s, f + 1)
  <2> HAVE a # Unmeasured
  <2>1. c <= Earned(s, f)
    BY <1>1 DEF RelayInv
  <2>2. Earned(s, f) \in Nat /\ Earned(s, f + 1) \in Nat
    <3>1. f + 1 \in Nat
      OBVIOUS
    <3> QED BY <3>1, EarnedType
  <2>3. Earned(s, f) - 10 * Point <= Earned(s, f + 1)
    BY PenaltyCovers
  <2> QED BY <2>1, <2>2, <2>3 DEF Point
<1> HIDE DEF d
<1> QED BY <1>2, <1>3, <1>4 DEF RelayInv, RelayRecord

(* The record a request or a ping is counted in.                           *)
LEMMA UpdateInv ==
  ASSUME ScoreInv, NEW p \in Peers, NEW r, NEW l \in Latencies,
         r.known => r \in RelayRecord,
         updateRelayScore(p, r, l)
  PROVE  ScoreInv'
<1>1. CASE ~r.known
  BY <1>1 DEF updateRelayScore, ScoreInv, RelayInv
<1>2. CASE r.known
  <2>1. PICK k \in BOOLEAN, s \in Nat, f \in Nat, a \in Latency, c \in Int :
          r = [known |-> k, succeeded |-> s, failed |-> f, averageLatency |-> a, score |-> c]
    BY <1>2 DEF RelayRecord
  <2>2. PICK b \in Averaged(r.averageLatency, l) :
          relayNodes' = [relayNodes EXCEPT ![p] =
             [[r EXCEPT !.averageLatency = b] EXCEPT
                !.score = Score([r EXCEPT !.averageLatency = b])]]
    BY <1>2, Zenon DEF updateRelayScore
  <2>3. b \in Latencies /\ b \in Nat
    BY <2>2, PoolConstants DEF Averaged
  <2> DEFINE m == [known |-> k, succeeded |-> s, failed |-> f, averageLatency |-> b, score |-> c]
             n == [known |-> k, succeeded |-> s, failed |-> f, averageLatency |-> b, score |-> Score(m)]
  <2>4. [r EXCEPT !.averageLatency = b] = m
    BY <2>1
  <2>5. [m EXCEPT !.score = Score(m)] = n
    <3>1. \A v : [m EXCEPT !.score = v]
              = [known |-> k, succeeded |-> s, failed |-> f, averageLatency |-> b, score |-> v]
      OBVIOUS
    <3> HIDE DEF m
    <3> QED BY ONLY <3>1, Zenon
  <2>6. relayNodes' = [relayNodes EXCEPT ![p] = n]
    BY ONLY <2>2, <2>4, <2>5, Zenon
  <2>7. Score(m) \in Int /\ Score(m) <= Earned(s, f)
    <3>1. m.succeeded = s /\ m.failed = f /\ m.averageLatency = b
      OBVIOUS
    <3> HIDE DEF m
    <3> QED BY <2>3, <3>1, ScoreFits
  <2> HIDE DEF m
  <2>9. n \in RelayRecord /\ RelayInv(n)
    BY <2>3, <2>7 DEF RelayInv, RelayRecord, Latency
  <2> HIDE DEF n
  <2> QED BY <2>6, <2>9 DEF ScoreInv
<1> QED BY <1>1, <1>2

(* A peer that is no relay yet has no latency to answer for.               *)
LEMMA UnknownInv == RelayInv(Unknown)
BY PoolConstants DEF Unknown, RelayInv, RelayRecord, Latency, Unmeasured

(* A mark alone leaves a record without a latency to answer for.           *)
LEMMA MarkedInv ==
  ASSUME NEW u \in BOOLEAN, NEW d, d = 100 * Point,
         NEW r, r = [Unknown EXCEPT !.known = u, !.score = d]
  PROVE  RelayInv(r)
<1>1. PICK k \in BOOLEAN, s \in Nat, f \in Nat, a \in Latency, c \in Int :
        Unknown = [known |-> k, succeeded |-> s, failed |-> f, averageLatency |-> a, score |-> c]
  BY UnknownInv DEF RelayInv, RelayRecord
<1>2. Unknown.averageLatency = Unmeasured
  BY DEF Unknown
<1> DEFINE q == [Unknown EXCEPT !.known = u]
<1>3. q = [known |-> u, succeeded |-> s, failed |-> f, averageLatency |-> a, score |-> c]
  BY <1>1
<1>4. r = [q EXCEPT !.score = d]
  OBVIOUS
<1> HIDE DEF q
<1>5. r = [known |-> u, succeeded |-> s, failed |-> f, averageLatency |-> a, score |-> d]
  BY ONLY <1>3, <1>4
<1>6. a = Unmeasured
  BY <1>1, <1>2
<1>7. d \in Int
  BY DEF Point
<1>8. r \in RelayRecord
  BY ONLY <1>5, <1>7 DEF RelayRecord
<1>9. r.succeeded = s /\ r.failed = f /\ r.averageLatency = a
  BY ONLY <1>5
<1> QED BY ONLY <1>6, <1>8, <1>9 DEF RelayInv

(* What identifying a peer makes of its entry: nothing, or the score of a  *)
(* relay just discovered.                                                  *)
LEMMA IdentifiedKeepsScore ==
  ASSUME ScoreInv, NEW p \in Peers, Identified(p)
  PROVE  ScoreInv'
<1>1. CASE UNCHANGED relayNodes
  BY <1>1 DEF ScoreInv
<1>2. CASE markAsRelay(p)
  <2>1. relayNodes' = [relayNodes EXCEPT ![p] = IF @.known THEN @ ELSE Discovered]
    BY <1>2 DEF markAsRelay
  <2>2. RelayInv(Unknown)
    BY UnknownInv
  <2>3. \A r, d : d = 100 * Point /\ r = [Unknown EXCEPT !.known = TRUE, !.score = d]
                  => RelayInv(r)
    <3>1. \A r, u, d : /\ u \in BOOLEAN /\ d = 100 * Point
                       /\ r = [Unknown EXCEPT !.known = u, !.score = d]
                      => RelayInv(r)
      BY <2>2, MarkedInv
    <3>2. TRUE \in BOOLEAN
      OBVIOUS
    <3> QED BY ONLY <3>1, <3>2, Zenon
  <2>4. RelayInv(Discovered)
    BY <2>3, Zenon DEF Discovered
  <2>5. Discovered \in RelayRecord
    BY <2>4 DEF RelayInv
  <2> QED BY <2>1, <2>4, <2>5 DEF ScoreInv
<1> QED BY <1>1, <1>2 DEF Identified

(* Every step of the pool keeps the scores earned.                         *)
LEMMA ScoreNext == ScoreInv /\ [Next]_vars => ScoreInv'
<1> SUFFICES ASSUME ScoreInv, [Next]_vars
             PROVE  ScoreInv'
  OBVIOUS
<1>1. CASE UNCHANGED relayNodes
  BY <1>1 DEF ScoreInv
<1>2. CASE Identification
  BY <1>2, IdentifiedKeepsScore DEF Identification
<1>3. CASE HealthCheck
  <2>1. ASSUME NEW p \in Peers, NEW l \in Latencies, updateRelayScore(p, relayNodes[p], l)
        PROVE  ScoreInv'
    <3>1. relayNodes[p] \in RelayRecord
      BY DEF ScoreInv
    <3> QED BY ONLY ScoreInv, <2>1, <3>1, UpdateInv
  <2> QED BY <1>1, <1>3, <2>1, Zenon DEF HealthCheck, PingStale, Pinged
<1>4. CASE Scoring
  <2>1. ASSUME NEW p \in Peers, NEW l \in Latencies, recordRelaySuccess(p, l)
        PROVE  ScoreInv'
    <3>1. PICK k \in BOOLEAN, s \in Nat, f \in Nat, a \in Latency, c \in Int :
            relayNodes[p] = [known |-> k, succeeded |-> s, failed |-> f,
                             averageLatency |-> a, score |-> c]
      BY DEF ScoreInv, RelayRecord
    <3> DEFINE t == IF k THEN s + 1 ELSE s
               r == [known |-> k, succeeded |-> t, failed |-> f,
                     averageLatency |-> a, score |-> c]
    <3>2. [relayNodes[p] EXCEPT !.succeeded = IF relayNodes[p].known THEN @ + 1 ELSE @] = r
      BY <3>1
    <3>3. updateRelayScore(p, r, l)
      <4>1. LET rr == relayNodes[p]
            IN  updateRelayScore(p, [rr EXCEPT !.succeeded =
                                       IF rr.known THEN @ + 1 ELSE @], l)
        BY <2>1, Zenon DEF recordRelaySuccess
      <4> QED BY ONLY <3>2, <4>1, Zenon
    <3>4. r \in RelayRecord
      BY DEF RelayRecord
    <3> HIDE DEF r
    <3> QED BY ONLY ScoreInv, <3>3, <3>4, UpdateInv, p \in Peers, l \in Latencies
  <2>2. ASSUME NEW p \in Peers, recordRelayFailure(p)
        PROVE  ScoreInv'
    <3>1. relayNodes' = [relayNodes EXCEPT ![p] = IF @.known THEN Penalised(@) ELSE @]
      BY <2>2 DEF recordRelayFailure
    <3>2. RelayInv(relayNodes[p]) /\ RelayInv(Penalised(relayNodes[p]))
      BY PenalisedInv DEF ScoreInv
    <3>3. relayNodes[p] \in RelayRecord /\ Penalised(relayNodes[p]) \in RelayRecord
      BY <3>2 DEF RelayInv
    <3> QED BY <3>1, <3>2, <3>3 DEF ScoreInv
  <2> QED BY <1>4, <2>1, <2>2 DEF Scoring
<1> QED
  BY <1>1, <1>2, <1>3, <1>4, Zenon
     DEF Next, vars, poolVars, Lifecycle, poolStart, poolStop, PeerEvents, onPeerConnect,
         onPeerDisconnect, OtherNodeConnects

(* A relay that has been measured is never scored above what its           *)
(* reliability and the best latency give, whatever the order of the        *)
(* answers, failures and discoveries: it is not favoured for a score it    *)
(* lost the right to.                                                      *)
THEOREM ScoresEarned == Spec => []ScoreEarned
<1>1. Init => ScoreInv
  <2> SUFFICES ASSUME Init
               PROVE  ScoreInv
    OBVIOUS
  <2>1. relayNodes = [p \in Peers |-> Unknown]
    BY DEF Init, PoolInit
  <2>2. RelayInv(Unknown) /\ Unknown \in RelayRecord
    BY PoolConstants DEF Unknown, RelayInv, RelayRecord, Latency, Unmeasured
  <2> QED BY <2>1, <2>2 DEF ScoreInv
<1>2. ScoreInv => ScoreEarned
  BY DEF ScoreInv, RelayInv, Earned, ScoreEarned
<1> QED BY <1>1, <1>2, ScoreNext, PTL DEF Spec

-----------------------------------------------------------------------------
(* The limiter.                                                            *)

(* A reputation in tenths of a point, or none.                             *)
Ratings == {Unrated} \cup 0..1000

(* The clock, and the senders of the tables.                               *)
LimiterShape ==
  /\ now \in 0..MaxTime
  /\ DOMAIN requests = Senders /\ DOMAIN dailyUsage = Senders
  /\ DOMAIN reputations = Senders /\ DOMAIN log = Senders /\ DOMAIN served = Senders

(* The messages a sender got accepted: those in the window are still in    *)
(* the array of its timestamps, whatever cleanup dropped, and they are no  *)
(* more than the sender may have. They are numbered in the order they      *)
(* came, so a new one is none of them.                                     *)
Logged(s) ==
  /\ IsFiniteSet(log[s]) /\ Cardinality(log[s]) <= MaxAccepted
  /\ \A m \in log[s] : m.time \in Nat /\ m.nr \in Nat /\ m.nr < Cardinality(log[s])
  /\ InWindow(log[s]) \subseteq requests[s] /\ requests[s] \subseteq log[s]
  /\ Cardinality(InWindow(log[s])) <= Trusted(s)

(* A sender nobody vouched for has earned at most a tenth of a point by    *)
(* message.                                                                *)
Rated(s) ==
  /\ reputations[s] \in Ratings
  /\ s \notin vouched => reputations[s] <= 250 + Cardinality(log[s])

(* The bytes of the day of a sender's last message are in its entry, and   *)
(* nothing was accepted from it on a later day.                            *)
Used(s) ==
  /\ dailyUsage[s].bytes \in Nat /\ dailyUsage[s].date \in {-1} \cup 0..today
  /\ dailyUsage[s] = [bytes |-> dailyUsage[s].bytes, date |-> dailyUsage[s].date]
  /\ served[s] \in [Days -> Nat]
  /\ \A day \in Days : day > dailyUsage[s].date => served[s][day] = 0
  /\ dailyUsage[s].date \in Days => served[s][dailyUsage[s].date] = dailyUsage[s].bytes
  /\ \A day \in Days : served[s][day] <= maxDailyStorage

(* What the global limit let pass and is in the window is still in         *)
(* globalRequests.                                                         *)
SharedInv ==
  /\ IsFiniteSet(globalRequests) /\ IsFiniteSet(checked)
  /\ \A m \in checked : m.time \in Nat
  /\ InWindow(checked) \subseteq globalRequests
  /\ Cardinality(InWindow(checked)) <= globalMaxRequests

(* The invariant from which RateBound, DailyBound and GlobalBound follow.  *)
LimiterInv ==
  /\ LimiterShape /\ SharedInv
  /\ \A s \in Senders : Logged(s) /\ Rated(s) /\ Used(s)

-----------------------------------------------------------------------------
(* The day of the clock is one of the days counted.                        *)
LEMMA TodayIsADay ==
  ASSUME now \in 0..MaxTime
  PROVE  today \in Days /\ today \in Nat
BY LimiterAssumption DEF today, Days

(* A later time is of the same day or of a later one.                      *)
LEMMA DaysPass ==
  ASSUME NEW m \in Nat, NEW n \in Nat, m <= n
  PROVE  /\ m \div DayLength <= n \div DayLength
         /\ m \div DayLength \in Nat /\ n \div DayLength \in Nat
<1>1. DayLength \in Nat \ {0}
  BY LimiterAssumption
<1> QED BY <1>1

(* A set with one more member.                                             *)
LEMMA OneMore ==
  ASSUME NEW S, IsFiniteSet(S), NEW m
  PROVE  /\ IsFiniteSet(S \cup {m})
         /\ Cardinality(S) \in Nat
         /\ Cardinality(S \cup {m}) \in Nat
         /\ Cardinality(S \cup {m}) <= Cardinality(S) + 1
         /\ m \notin S => Cardinality(S \cup {m}) = Cardinality(S) + 1
BY FS_AddElement, FS_CardinalityType, SMTT(40)

(* What is in the window of a set is a finite part of it.                  *)
LEMMA WindowOf ==
  ASSUME NEW S, IsFiniteSet(S)
  PROVE  /\ IsFiniteSet(InWindow(S)) /\ InWindow(S) \subseteq S
         /\ Cardinality(InWindow(S)) \in Nat
<1>1. InWindow(S) \subseteq S
  BY DEF InWindow
<1>2. IsFiniteSet(InWindow(S))
  BY <1>1, FS_Subset
<1> QED BY <1>1, <1>2, FS_CardinalityType

(* A window that ends later has no more of what is logged.                 *)
Since(messages, t) == {m \in messages : m.time > t - windowMs}

(* As time passes messages leave the window and none comes back to it.     *)
LEMMA WindowMoves ==
  ASSUME NEW S, IsFiniteSet(S), \A m \in S : m.time \in Nat,
         now \in Nat, NEW t \in Nat, now <= t
  PROVE  /\ Since(S, t) \subseteq InWindow(S)
         /\ Cardinality(Since(S, t)) \in Nat /\ Cardinality(InWindow(S)) \in Nat
         /\ Cardinality(Since(S, t)) <= Cardinality(InWindow(S))
<1>1. Since(S, t) \subseteq InWindow(S)
  BY LimiterAssumption DEF InWindow, Since
<1>2. IsFiniteSet(InWindow(S)) /\ Cardinality(InWindow(S)) \in Nat
  BY WindowOf
<1>3. Cardinality(Since(S, t)) \in Nat
      /\ Cardinality(Since(S, t)) <= Cardinality(InWindow(S))
  BY <1>1, <1>2, FS_Subset, FS_CardinalityType
<1> QED BY <1>1, <1>2, <1>3

(* What a recorded message makes of a window.                              *)
LEMMA WindowGrows ==
  ASSUME NEW S, IsFiniteSet(S), NEW R, InWindow(S) \subseteq R, IsFiniteSet(R), NEW m, 
         NEW limit \in Nat, Cardinality(InWindow(R)) < limit
  PROVE  /\ IsFiniteSet(InWindow(S \cup {m}))
         /\ Cardinality(InWindow(S \cup {m})) \in Nat
         /\ Cardinality(InWindow(S \cup {m})) <= limit
<1>1. InWindow(S) \subseteq InWindow(R) /\ InWindow(S \cup {m}) \subseteq InWindow(S) \cup {m}
  BY DEF InWindow
<1>2. IsFiniteSet(InWindow(R)) /\ Cardinality(InWindow(R)) \in Nat
  BY WindowOf
<1>3. IsFiniteSet(InWindow(S)) /\ Cardinality(InWindow(S)) <= Cardinality(InWindow(R))
      /\ Cardinality(InWindow(S)) \in Nat
  BY <1>1, <1>2, FS_Subset, FS_CardinalityType
<1>4. /\ IsFiniteSet(InWindow(S) \cup {m})
      /\ Cardinality(InWindow(S) \cup {m}) <= Cardinality(InWindow(S)) + 1
      /\ Cardinality(InWindow(S) \cup {m}) \in Nat
  BY <1>3, OneMore
<1>5. /\ IsFiniteSet(InWindow(S \cup {m}))
      /\ Cardinality(InWindow(S \cup {m})) <= Cardinality(InWindow(S) \cup {m})
      /\ Cardinality(InWindow(S \cup {m})) \in Nat
  BY <1>1, <1>4, FS_Subset, FS_CardinalityType
<1> QED BY <1>2, <1>3, <1>4, <1>5

(* Trust never more than triples the limit; it doubles it below a hundred  *)
(* points, adds half of it below 75 and nothing below 50.                  *)
LEMMA AdjustedLimit ==
  ASSUME NEW s, reputations[s] \in Ratings
  PROVE  /\ getAdjustedLimit(s) \in Nat
         /\ getAdjustedLimit(s) <= 3 * maxRequests
         /\ reputations[s] < 500 => getAdjustedLimit(s) <= maxRequests
         /\ reputations[s] < 750 => getAdjustedLimit(s) <= (3 * maxRequests) \div 2
         /\ reputations[s] < 1000 => getAdjustedLimit(s) <= 2 * maxRequests
<1> DEFINE r == IF reputations[s] = Unrated THEN 0 ELSE reputations[s]
           reached == {t \in DOMAIN thresholds : r >= t}
           top == Max(reached)
<1>1. /\ r \in 0..1000 /\ (reputations[s] < 500 => r < 500)
      /\ (reputations[s] < 750 => r < 750) /\ (reputations[s] < 1000 => r < 1000)
  BY DEF Ratings, Unrated
<1>2. DOMAIN thresholds = {0, 250, 500, 750, 1000}
  BY DEF thresholds
<1> HIDE DEF r
<1>3. top \in reached
  <2>1. \E x \in reached : \A y \in reached : x >= y
    <3>1. CASE r >= 1000
      BY <1>1, <1>2, <3>1
    <3>2. CASE r < 1000 /\ r >= 750
      BY <1>1, <1>2, <3>2
    <3>3. CASE r < 750 /\ r >= 500
      BY <1>1, <1>2, <3>3
    <3>4. CASE r < 500 /\ r >= 250
      BY <1>1, <1>2, <3>4
    <3>5. CASE r < 250
      BY <1>1, <1>2, <3>5
    <3> QED BY <1>1, <3>1, <3>2, <3>3, <3>4, <3>5
  <2> HIDE DEF reached
  <2> QED BY <2>1 DEF Max
<1>4. /\ top \in {0, 250, 500, 750, 1000} /\ (r < 500 => top \in {0, 250})
      /\ (r < 750 => top \in {0, 250, 500}) /\ (r < 1000 => top \in {0, 250, 500, 750})
  <2> HIDE DEF top
  <2> QED BY <1>1, <1>2, <1>3
<1>5. /\ thresholds[top] \in 0..6 /\ (r < 500 => thresholds[top] \in {1, 2})
      /\ (r < 750 => thresholds[top] \in {1, 2, 3})
      /\ (r < 1000 => thresholds[top] \in {1, 2, 3, 4})
  <2> HIDE DEF top
  <2> QED BY <1>4 DEF thresholds
<1>6. getAdjustedLimit(s) = (maxRequests * thresholds[top]) \div 2
  BY DEF getAdjustedLimit, r
<1> HIDE DEF top
<1>7. thresholds[top] \in {0, 1, 2, 3, 4, 5, 6}
  BY <1>5
<1> DEFINE h == thresholds[top]
<1>8. (maxRequests * h) \div 2 \in Nat /\ (maxRequests * h) \div 2 <= 3 * maxRequests
      /\ (h \in {1, 2} => (maxRequests * h) \div 2 <= maxRequests)
      /\ (h \in {1, 2, 3} => (maxRequests * h) \div 2 <= (3 * maxRequests) \div 2)
      /\ (h \in {1, 2, 3, 4} => (maxRequests * h) \div 2 <= 2 * maxRequests)
  <2> HIDE DEF h
  <2>1. h \in {0, 1, 2, 3, 4, 5, 6}
    BY <1>7 DEF h
  <2> QED BY <2>1, LimiterAssumption
<1> QED BY <1>1, <1>5, <1>6, <1>8

(* More messages never earn less.                                          *)
LEMMA EarnedGrows ==
  ASSUME NEW n \in Nat, NEW m \in Nat, n <= m
  PROVE  /\ EarnedLimit(n) \in Nat /\ EarnedLimit(n) <= EarnedLimit(m)
         /\ EarnedLimit(m) \in Nat /\ maxRequests <= EarnedLimit(n)
<1> DEFINE h == (3 * maxRequests) \div 2
<1>1. h \in Nat /\ maxRequests <= h /\ h <= 2 * maxRequests /\ maxRequests \in Nat
  BY LimiterAssumption
<1>2. \A k \in Nat :
        /\ k <= 250 => EarnedLimit(k) = maxRequests
        /\ k > 250 /\ k <= 500 => EarnedLimit(k) = h
        /\ k > 500 /\ k <= 750 => EarnedLimit(k) = 2 * maxRequests
        /\ k > 750 => EarnedLimit(k) = 3 * maxRequests
  BY DEF EarnedLimit
<1> HIDE DEF h
<1> QED BY <1>1, <1>2

(* A sender is trusted with no less once it has sent more or was vouched   *)
(* for.                                                                    *)
LEMMA TrustGrows ==
  ASSUME NEW s, Cardinality(log[s]) \in Nat, Cardinality(log'[s]) \in Nat,
         Cardinality(log[s]) <= Cardinality(log'[s]), s \in vouched => s \in vouched'
  PROVE  /\ Trusted(s) \in Nat /\ Trusted(s)' \in Nat /\ Trusted(s) <= Trusted(s)'
         /\ maxRequests <= Trusted(s)
<1> DEFINE n == Cardinality(log[s])
           m == Cardinality(log'[s])
<1>1. /\ EarnedLimit(n) \in Nat /\ EarnedLimit(n) <= EarnedLimit(m)
      /\ EarnedLimit(m) \in Nat /\ maxRequests <= EarnedLimit(n)
  BY EarnedGrows
<1>2. EarnedLimit(m) <= 3 * maxRequests
  BY LimiterAssumption DEF EarnedLimit
<1>3. Trusted(s) = (IF s \in vouched THEN 3 * maxRequests ELSE EarnedLimit(n))
  BY DEF Trusted
<1>4. Trusted(s)' = (IF s \in vouched' THEN 3 * maxRequests ELSE EarnedLimit(m))
  BY DEF Trusted, EarnedLimit
<1> HIDE DEF n, m
<1> QED BY <1>1, <1>2, <1>3, <1>4, LimiterAssumption

(* The limit of a sender nobody vouched for is what its messages before    *)
(* this one have earned.                                                   *)
LEMMA EarnedCovers ==
  ASSUME NEW s, reputations[s] \in Ratings, NEW n \in Nat,
         reputations[s] <= 250 + n
  PROVE  getAdjustedLimit(s) <= EarnedLimit(n + 1)
<1> DEFINE h == (3 * maxRequests) \div 2
           limit == getAdjustedLimit(s)
<1>1. /\ limit \in Nat /\ limit <= 3 * maxRequests
      /\ reputations[s] < 500 => limit <= maxRequests
      /\ reputations[s] < 750 => limit <= h
      /\ reputations[s] < 1000 => limit <= 2 * maxRequests
  BY AdjustedLimit
<1>2. /\ n + 1 <= 250 => EarnedLimit(n + 1) = maxRequests
      /\ n + 1 > 250 /\ n + 1 <= 500 => EarnedLimit(n + 1) = h
      /\ n + 1 > 500 /\ n + 1 <= 750 => EarnedLimit(n + 1) = 2 * maxRequests
      /\ n + 1 > 750 => EarnedLimit(n + 1) = 3 * maxRequests
  BY DEF EarnedLimit
<1>3. reputations[s] \in Int
  BY DEF Ratings, Unrated
<1> HIDE DEF h, limit
<1>4. limit <= EarnedLimit(n + 1)
  BY <1>1, <1>2, <1>3
<1> QED BY <1>4 DEF limit

(* adjustReputation: an accepted message raises a reputation by at most a  *)
(* tenth of a point above 25, and a report never raises it.                *)
LEMMA Adjusted ==
  ASSUME NEW s \in Senders, DOMAIN reputations = Senders, reputations[s] \in Ratings,
         NEW delta \in {1, -250}, adjustReputation(s, delta), NEW n \in Nat
  PROVE  /\ DOMAIN reputations' = Senders
         /\ reputations'[s] \in Ratings
         /\ delta = 1 /\ reputations[s] <= 250 + n => reputations'[s] <= 250 + n + 1
         /\ delta = -250 /\ reputations[s] <= 250 + n => reputations'[s] <= 250 + n
         /\ \A o \in Senders \ {s} : reputations'[o] = reputations[o]
<1> DEFINE c == IF reputations[s] \in {Unrated, 0} THEN 250 ELSE reputations[s]
           lower == Min({1000, c + delta})
           new == Max({0, lower})
<1>1. c \in 1..1000 /\ (reputations[s] <= 250 + n => c <= 250 + n)
  BY DEF Ratings, Unrated
<1>2. reputations' = [reputations EXCEPT ![s] = new]
  BY DEF adjustReputation
<1> HIDE DEF c
<1>3. lower = IF 1000 <= c + delta THEN 1000 ELSE c + delta
  BY <1>1 DEF Min
<1> HIDE DEF lower
<1>4. new = IF 0 >= lower THEN 0 ELSE lower
  BY <1>1, <1>3 DEF Max
<1> HIDE DEF new
<1> QED BY <1>1, <1>2, <1>3, <1>4 DEF Ratings, Unrated

-----------------------------------------------------------------------------
(* A step that accepts a message of s.                                     *)
LEMMA RecordShape ==
  ASSUME LimiterInv, NEW s \in Senders, NEW size \in Nat, Record(s, size), UNCHANGED now
  PROVE  /\ DOMAIN requests' = Senders /\ DOMAIN log' = Senders /\ DOMAIN served' = Senders
         /\ requests'[s] = requests[s] \cup {Message(s)}
         /\ log'[s] = log[s] \cup {Message(s)}
         /\ served'[s] = [served[s] EXCEPT ![today] = @ + size]
         /\ Cardinality(log[s]) < MaxAccepted
         /\ \A o \in Senders \ {s} :
              /\ requests'[o] = requests[o] /\ log'[o] = log[o]
              /\ served'[o] = served[o]
BY DEF LimiterInv, LimiterShape, Record

(* A message accepted below a limit the sender is trusted with keeps       *)
(* within it what is in the window.                                        *)
LEMMA RecordLogs ==
  ASSUME LimiterInv, NEW s \in Senders, NEW size \in Nat, Record(s, size), UNCHANGED <<now, vouched>>,
         NEW limit \in Nat, getRate(s) < limit,
         limit <= maxRequests \/ limit <= Trusted(s)'
  PROVE  /\ Logged(s)'
         /\ Cardinality(log'[s]) = Cardinality(log[s]) + 1
         /\ Cardinality(log[s]) \in Nat
<1> DEFINE m == Message(s)
<1>1. Logged(s) /\ now \in Nat
  BY LimiterAssumption DEF LimiterInv, LimiterShape
<1>2. /\ requests'[s] = requests[s] \cup {m} /\ log'[s] = log[s] \cup {m}
      /\ Cardinality(log[s]) < MaxAccepted
  BY RecordShape
<1>3. m = [from |-> s, nr |-> Cardinality(log[s]), time |-> now]
  BY DEF Message
<1>4. IsFiniteSet(log[s]) /\ Cardinality(log[s]) \in Nat
  BY <1>1, OneMore DEF Logged
<1>5. m.nr = Cardinality(log[s]) /\ m.time = now
  BY <1>3
<1>6. m \notin log[s]
  BY <1>1, <1>4, <1>5 DEF Logged
<1> HIDE DEF m
<1>7. IsFiniteSet(log[s] \cup {m}) /\ Cardinality(log[s] \cup {m}) = Cardinality(log[s]) + 1
  BY <1>4, <1>6, OneMore
<1>8. \A x \in log'[s] : x.time \in Nat /\ x.nr \in Nat /\ x.nr < Cardinality(log'[s])
  BY <1>1, <1>2, <1>4, <1>5, <1>7 DEF Logged
<1>9. IsFiniteSet(requests[s])
  BY <1>1, FS_Subset DEF Logged
<1>10. Cardinality(InWindow(log[s] \cup {m})) <= limit
       /\ Cardinality(InWindow(log[s] \cup {m})) \in Nat
  BY <1>1, <1>4, <1>9, WindowGrows DEF Logged, getRate
<1>11. InWindow(log[s])' = InWindow(log[s] \cup {m})
  BY <1>2 DEF InWindow
<1>12. InWindow(log[s] \cup {m}) \subseteq requests'[s]
  BY <1>1, <1>2 DEF Logged, InWindow
<1>13. requests'[s] \subseteq log'[s]
  BY <1>1, <1>2 DEF Logged
<1>14. limit <= Trusted(s)' /\ Trusted(s)' \in Nat
  <2>1. /\ Cardinality(log'[s]) \in Nat /\ Cardinality(log[s]) <= Cardinality(log'[s])
        /\ vouched' = vouched
    BY <1>2, <1>4, <1>7
  <2> QED BY <1>4, <2>1, TrustGrows, LimiterAssumption
<1>15. Cardinality(log'[s]) <= MaxAccepted
  BY <1>2, <1>4, <1>7, LimiterAssumption
<1>16. Cardinality(InWindow(log[s])') <= Trusted(s)'
  BY <1>10, <1>11, <1>14
<1> QED BY <1>2, <1>4, <1>7, <1>8, <1>11, <1>12, <1>13, <1>15, <1>16 DEF Logged

(* A call about one sender leaves what is known of the others.             *)
LEMMA OthersStay ==
  ASSUME LimiterInv, NEW o \in Senders, UNCHANGED <<now, vouched>>,
         requests'[o] = requests[o], log'[o] = log[o], served'[o] = served[o],
         dailyUsage'[o] = dailyUsage[o], reputations'[o] = reputations[o]
  PROVE  Logged(o)' /\ Rated(o)' /\ Used(o)'
<1>1. Logged(o) /\ Rated(o) /\ Used(o)
  BY DEF LimiterInv
<1>2. Logged(o)'
  BY <1>1 DEF Logged, InWindow, Trusted, EarnedLimit
<1>3. Rated(o)'
  BY <1>1 DEF Rated
<1>4. Used(o)'
  BY <1>1 DEF Used, today
<1> QED BY <1>2, <1>3, <1>4

(* A message whose size was checked against the entry of today keeps the   *)
(* day's bytes within maxDailyStorage; the first of a new day starts a new *)
(* count.                                                                  *)
LEMMA RecordUses ==
  ASSUME LimiterInv, NEW s \in Senders, NEW size \in Nat, Record(s, size), UNCHANGED now,
         IF size > 0
         THEN checkSize(size) /\ checkDailyStorage(s, size) /\ recordStorage(s, size)
         ELSE UNCHANGED dailyUsage
  PROVE  /\ Used(s)' /\ DOMAIN dailyUsage' = Senders
         /\ \A o \in Senders \ {s} : dailyUsage'[o] = dailyUsage[o]
<1>1. Used(s) /\ DOMAIN dailyUsage = Senders /\ today \in Days /\ today \in Nat
  BY TodayIsADay DEF LimiterInv, LimiterShape
<1>2. today' = today
  BY DEF today
<1>3. served'[s] = [served[s] EXCEPT ![today] = @ + size]
  BY RecordShape
<1> DEFINE u == dailyUsage[s]
           w == served[s]
<1>4. CASE size = 0
  <2>1. w \in [Days -> Nat]
    BY <1>1 DEF Used
  <2> HIDE DEF w
  <2>2. [w EXCEPT ![today] = @ + size] = w
    BY <1>1, <1>4, <2>1
  <2>3. served'[s] = served[s] /\ UNCHANGED dailyUsage
    BY <1>3, <1>4, <2>2 DEF w
  <2> QED BY <1>1, <1>2, <2>3 DEF Used
<1>5. CASE size > 0 /\ u.date = today
  <2> DEFINE b == u.bytes
  <2>2. dailyUsage' = [dailyUsage EXCEPT ![s] = [bytes |-> b + size, date |-> today]]
    BY <1>5 DEF recordStorage
  <2>3. b \in Nat /\ b + size <= maxDailyStorage
    BY <1>1, <1>5 DEF Used, checkDailyStorage
  <2>4. dailyUsage'[s] = [bytes |-> b + size, date |-> today]
    BY <1>1, <2>2
  <2>5. w \in [Days -> Nat] /\ w[today] = b /\ (\A day \in Days : w[day] <= maxDailyStorage)
        /\ \A day \in Days : day > today => w[day] = 0
    BY <1>1, <1>5, <2>3 DEF Used
  <2>6. /\ served'[s] \in [Days -> Nat] /\ served'[s][today] = b + size
        /\ \A day \in Days : served'[s][day] <= maxDailyStorage
        /\ \A day \in Days : day > today => served'[s][day] = 0
    <3> HIDE DEF w
    <3>1. served'[s] = [w EXCEPT ![today] = w[today] + size]
      BY <1>3 DEF w
    <3> QED BY <1>1, <2>3, <2>5, <3>1
  <2>7. dailyUsage'[s].bytes = b + size /\ dailyUsage'[s].date = today
    BY <2>4
  <2>8. Used(s)'
    BY <1>1, <1>2, <2>3, <2>4, <2>6, <2>7 DEF Used, Days
  <2> QED BY <1>1, <2>2, <2>8
<1>6. CASE size > 0 /\ u.date # today
  <2>1. dailyUsage' = [dailyUsage EXCEPT ![s] = [bytes |-> size, date |-> today]]
    BY <1>6 DEF recordStorage
  <2>2. dailyUsage'[s] = [bytes |-> size, date |-> today] /\ size <= maxDailyStorage
    BY <1>1, <1>6, <2>1, LimiterAssumption DEF checkSize
  <2>3. w \in [Days -> Nat] /\ w[today] = 0 /\ (\A day \in Days : w[day] <= maxDailyStorage)
        /\ \A day \in Days : day > today => w[day] = 0
    BY <1>1, <1>6 DEF Used, Days
  <2>4. /\ served'[s] \in [Days -> Nat] /\ served'[s][today] = size
        /\ \A day \in Days : served'[s][day] <= maxDailyStorage
        /\ \A day \in Days : day > today => served'[s][day] = 0
    <3> HIDE DEF w
    <3>1. served'[s] = [w EXCEPT ![today] = w[today] + size]
      BY <1>3 DEF w
    <3> QED BY <1>1, <2>2, <2>3, <3>1
  <2>5. dailyUsage'[s].bytes = size /\ dailyUsage'[s].date = today
    BY <2>2
  <2>6. Used(s)'
    BY <1>1, <1>2, <2>2, <2>4, <2>5 DEF Used, Days
  <2> QED BY <1>1, <2>1, <2>6
<1> QED BY <1>4, <1>5, <1>6

(* A reputation rises by no more than the messages accepted, and a report  *)
(* does not raise it past them.                                            *)
LEMMA RatedStays ==
  ASSUME LimiterInv, NEW s \in Senders, NEW delta \in {1, -250}, adjustReputation(s, delta),
         UNCHANGED vouched, Cardinality(log[s]) \in Nat, Cardinality(log'[s]) \in Nat,
         Cardinality(log'[s]) >= Cardinality(log[s]),
         delta = 1 => Cardinality(log'[s]) = Cardinality(log[s]) + 1
  PROVE  /\ Rated(s)' /\ DOMAIN reputations' = Senders
         /\ \A o \in Senders \ {s} : reputations'[o] = reputations[o]
<1> DEFINE n == Cardinality(log[s])
<1>1. /\ DOMAIN reputations = Senders /\ reputations[s] \in Ratings
      /\ s \notin vouched => reputations[s] <= 250 + n
  BY DEF LimiterInv, LimiterShape, Rated
<1> HIDE DEF n
<1>2. n \in Nat
  BY DEF n
<1>3. /\ DOMAIN reputations' = Senders
      /\ reputations'[s] \in Ratings
      /\ delta = 1 /\ reputations[s] <= 250 + n => reputations'[s] <= 250 + n + 1
      /\ delta = -250 /\ reputations[s] <= 250 + n => reputations'[s] <= 250 + n
      /\ \A o \in Senders \ {s} : reputations'[o] = reputations[o]
  BY <1>1, <1>2, Adjusted
<1>4. reputations'[s] \in Int
  BY <1>3 DEF Ratings, Unrated
<1>5. s \notin vouched' => reputations'[s] <= 250 + Cardinality(log'[s])
  BY <1>1, <1>3, <1>4 DEF n
<1> QED BY <1>3, <1>5 DEF Rated

(* Filtering globalRequests drops only what has left the window.           *)
LEMMA SharedStays ==
  ASSUME SharedInv, UNCHANGED <<now, checked>>, IsFiniteSet(globalRequests'),
         InWindow(globalRequests) \subseteq globalRequests'
  PROVE  SharedInv'
<1>1. InWindow(checked)' = InWindow(checked) /\ InWindow(checked) \subseteq InWindow(globalRequests)
  BY DEF SharedInv, InWindow
<1> QED BY <1>1 DEF SharedInv

(* checkAndRecord of the plain limiter, which tests both limits and pushes *)
(* to both arrays.                                                         *)
LEMMA RecordPlain ==
  ASSUME LimiterInv, NEW s \in Senders, checkAndRecordPlain(s)
  PROVE  LimiterInv'
<1>1. Record(s, 0) /\ UNCHANGED <<now, vouched, dailyUsage, reputations>>
  BY DEF checkAndRecordPlain
<1>2. maxRequests \in Nat /\ maxRequests <= maxRequests /\ 0 \in Nat
  BY LimiterAssumption
<1>3. getRate(s) < maxRequests
  BY DEF checkAndRecordPlain, Allowed
<1>4. /\ Logged(s)' /\ Cardinality(log'[s]) = Cardinality(log[s]) + 1
      /\ Cardinality(log[s]) \in Nat
  BY <1>1, <1>2, <1>3, RecordLogs
<1>5. Used(s)'
  BY <1>1, <1>2, RecordUses
<1>6. Rated(s)'
  <2>1. Rated(s) /\ reputations'[s] = reputations[s] /\ vouched' = vouched
    BY <1>1 DEF LimiterInv
  <2>2. reputations[s] \in Int
    BY <2>1 DEF Rated, Ratings, Unrated
  <2> QED BY <1>4, <2>1, <2>2 DEF Rated
<1>7. \A o \in Senders \ {s} : Logged(o)' /\ Rated(o)' /\ Used(o)'
  <2> TAKE o \in Senders \ {s}
  <2>1. requests'[o] = requests[o] /\ log'[o] = log[o] /\ served'[o] = served[o]
    BY <1>1, <1>2, RecordShape
  <2> QED BY <1>1, <2>1, OthersStay
<1>8. LimiterShape'
  BY <1>1, <1>2, RecordShape DEF LimiterInv, LimiterShape
<1>9. SharedInv'
  <2> DEFINE m == Message(s)
  <2>1. /\ globalRequests' = InWindow(globalRequests) \cup {m}
        /\ checked' = checked \cup {m}
        /\ Cardinality(InWindow(globalRequests)) < globalMaxRequests
    BY DEF checkAndRecordPlain, Push, Allowed
  <2>2. m.time = now /\ now \in Nat
    BY LimiterAssumption DEF Message, LimiterInv, LimiterShape
  <2> HIDE DEF m
  <2>3. SharedInv /\ IsFiniteSet(globalRequests) /\ IsFiniteSet(checked)
    BY DEF LimiterInv, SharedInv
  <2>4. IsFiniteSet(globalRequests') /\ IsFiniteSet(checked')
    BY <2>1, <2>3, WindowOf, OneMore
  <2>5. Cardinality(InWindow(checked \cup {m})) <= globalMaxRequests
    BY <2>1, <2>3, WindowGrows, GlobalAssumption DEF SharedInv
  <2>6. InWindow(checked)' = InWindow(checked \cup {m})
    BY <1>1, <2>1 DEF InWindow
  <2>7. InWindow(checked \cup {m}) \subseteq globalRequests'
    BY <2>1, <2>3 DEF SharedInv, InWindow
  <2>8. \A x \in checked' : x.time \in Nat
    BY <2>1, <2>2, <2>3 DEF SharedInv
  <2> QED BY <2>4, <2>5, <2>6, <2>7, <2>8 DEF SharedInv
<1> QED BY <1>4, <1>5, <1>6, <1>7, <1>8, <1>9 DEF LimiterInv

(* checkAndRecordWithReputation, which tests the sender's adjusted limit   *)
(* alone and pushes to both arrays.                                        *)
LEMMA RecordReputed ==
  ASSUME LimiterInv, NEW s \in Senders, NEW size \in Sizes,
         checkAndRecordWithReputation(s, size)
  PROVE  LimiterInv'
<1>0. size \in Nat
  BY LimiterAssumption
<1>1. /\ Record(s, size) /\ UNCHANGED <<now, vouched>> /\ adjustReputation(s, 1)
      /\ getRate(s) < getAdjustedLimit(s)
      /\ globalRequests' = globalRequests \cup {Message(s)} /\ checked' = checked
  BY DEF checkAndRecordWithReputation, checkAndRecord, check, Push
<1>2. IF size > 0
      THEN checkSize(size) /\ checkDailyStorage(s, size) /\ recordStorage(s, size)
      ELSE UNCHANGED dailyUsage
  BY DEF checkAndRecordWithReputation, checkAndRecord, check
<1>3. getAdjustedLimit(s) \in Nat /\ getAdjustedLimit(s) <= Trusted(s)'
  <2>1. Rated(s) /\ Logged(s) /\ reputations[s] \in Ratings /\ Cardinality(log[s]) \in Nat
    BY OneMore DEF LimiterInv, Rated, Logged
  <2>2. log'[s] = log[s] \cup {Message(s)}
    BY <1>0, <1>1, RecordShape
  <2>3. Message(s) \notin log[s]
    <3>1. Message(s).nr = Cardinality(log[s])
      BY DEF Message
    <3> QED BY <2>1, <3>1 DEF Logged
  <2>4. Cardinality(log'[s]) = Cardinality(log[s]) + 1
    <3> DEFINE m == Message(s)
    <3>1. m \notin log[s] /\ IsFiniteSet(log[s])
      BY <2>1, <2>3 DEF Logged
    <3> HIDE DEF m
    <3>2. Cardinality(log[s] \cup {m}) = Cardinality(log[s]) + 1
      BY <3>1, OneMore
    <3> QED BY <2>2, <3>2 DEF m
  <2>5. CASE s \in vouched
    <3>1. Trusted(s)' = 3 * maxRequests
      BY <1>1, <2>5 DEF Trusted
    <3> QED BY <2>1, <3>1, AdjustedLimit
  <2>6. CASE s \notin vouched
    <3>1. reputations[s] <= 250 + Cardinality(log[s])
      BY <2>1, <2>6 DEF Rated
    <3>2. getAdjustedLimit(s) <= EarnedLimit(Cardinality(log[s]) + 1)
      BY <2>1, <3>1, EarnedCovers
    <3>3. Trusted(s)' = EarnedLimit(Cardinality(log'[s]))
      BY <1>1, <2>6 DEF Trusted, EarnedLimit
    <3> QED BY <2>1, <2>4, <3>2, <3>3, AdjustedLimit
  <2> QED BY <2>5, <2>6
<1>4. /\ Logged(s)' /\ Cardinality(log'[s]) = Cardinality(log[s]) + 1
      /\ Cardinality(log[s]) \in Nat
  BY <1>0, <1>1, <1>3, RecordLogs
<1>5. /\ Used(s)' /\ DOMAIN dailyUsage' = Senders
      /\ \A o \in Senders \ {s} : dailyUsage'[o] = dailyUsage[o]
  BY <1>0, <1>1, <1>2, RecordUses
<1>6. /\ Rated(s)' /\ DOMAIN reputations' = Senders
      /\ \A o \in Senders \ {s} : reputations'[o] = reputations[o]
  <2>1. 1 \in {1, -250}
    OBVIOUS
  <2>2. Cardinality(log'[s]) \in Nat /\ Cardinality(log'[s]) >= Cardinality(log[s])
    BY <1>4
  <2> QED BY <1>1, <1>4, <2>1, <2>2, RatedStays
<1>7. \A o \in Senders \ {s} : Logged(o)' /\ Rated(o)' /\ Used(o)'
  <2> TAKE o \in Senders \ {s}
  <2>1. requests'[o] = requests[o] /\ log'[o] = log[o] /\ served'[o] = served[o]
    BY <1>0, <1>1, RecordShape
  <2> QED BY <1>1, <1>5, <1>6, <2>1, OthersStay
<1>8. LimiterShape'
  <2>1. DOMAIN requests' = Senders /\ DOMAIN log' = Senders /\ DOMAIN served' = Senders
    BY <1>0, <1>1, RecordShape
  <2> QED BY <1>1, <1>5, <1>6, <2>1 DEF LimiterInv, LimiterShape
<1>9. SharedInv'
  <2>1. SharedInv /\ IsFiniteSet(globalRequests)
    BY DEF LimiterInv, SharedInv
  <2>2. IsFiniteSet(globalRequests')
    BY <1>1, <2>1, OneMore
  <2>3. InWindow(globalRequests) \subseteq globalRequests'
    BY <1>1 DEF InWindow
  <2> QED BY <1>1, <2>1, <2>2, <2>3, SharedStays
<1> QED BY <1>4, <1>5, <1>6, <1>7, <1>8, <1>9 DEF LimiterInv

(* reportSpam and markTrusted write a reputation. Only markTrusted widens  *)
(* the window, of a sender then vouched for.                               *)
LEMMA TrustStep ==
  ASSUME LimiterInv, NEW s \in Senders, Trust(s), UNCHANGED serviceVars
  PROVE  LimiterInv'
<1>1. UNCHANGED <<now, requests, dailyUsage, log, served, globalRequests, checked>>
  BY DEF Trust, reportSpam, markTrusted, serviceVars
<1>2. SharedInv'
  BY <1>1 DEF LimiterInv, SharedInv, InWindow
<1>3. \A o \in Senders : Used(o)'
  BY <1>1 DEF LimiterInv, Used, today
<1>4. vouched \subseteq vouched' /\ \A o \in Senders \ {s} : o \in vouched' => o \in vouched
  BY DEF Trust, reportSpam, markTrusted
<1>5. \A o \in Senders : Logged(o)'
  <2> TAKE o \in Senders
  <2>1. Logged(o) /\ InWindow(log[o])' = InWindow(log[o])
    BY <1>1 DEF LimiterInv, InWindow
  <2>2. Trusted(o) <= Trusted(o)' /\ Trusted(o) \in Nat /\ Trusted(o)' \in Nat
    <3>1. Cardinality(log[o]) \in Nat /\ log'[o] = log[o]
      BY <1>1, <2>1, OneMore DEF Logged
    <3> QED BY <1>4, <3>1, TrustGrows
  <2>3. Cardinality(InWindow(log[o])) \in Nat
    BY <2>1, WindowOf DEF Logged
  <2>4. Cardinality(InWindow(log[o])') <= Trusted(o)'
    BY <2>1, <2>2, <2>3 DEF Logged
  <2> QED BY <1>1, <2>1, <2>4 DEF Logged
<1>6. /\ Rated(s)' /\ DOMAIN reputations' = Senders
      /\ \A o \in Senders \ {s} : reputations'[o] = reputations[o]
  <2>1. CASE reportSpam(s)
    <3>1. adjustReputation(s, -250) /\ vouched' = vouched /\ -250 \in {1, -250}
      BY <2>1 DEF reportSpam
    <3>2. Cardinality(log[s]) \in Nat
      BY OneMore DEF LimiterInv, Logged
    <3>3. Cardinality(log'[s]) \in Nat /\ Cardinality(log'[s]) >= Cardinality(log[s])
      BY <1>1, <3>2
    <3>4. -250 = 1 => Cardinality(log'[s]) = Cardinality(log[s]) + 1
      OBVIOUS
    <3> QED BY <3>1, <3>2, <3>3, <3>4, RatedStays
  <2>2. CASE \E score \in Levels : markTrusted(s, score)
    <3>1. PICK score \in Levels : markTrusted(s, score)
      BY <2>2
    <3>2. reputations' = [reputations EXCEPT ![s] = score] /\ s \in vouched'
      BY <3>1 DEF markTrusted
    <3>3. score \in Ratings
      BY LimiterAssumption DEF Ratings
    <3>4. DOMAIN reputations = Senders
      BY DEF LimiterInv, LimiterShape
    <3> QED BY <3>2, <3>3, <3>4 DEF Rated
  <2> QED BY <2>1, <2>2 DEF Trust
<1>7. \A o \in Senders \ {s} : Rated(o)'
  BY <1>1, <1>4, <1>6 DEF LimiterInv, Rated
<1>8. LimiterShape'
  BY <1>1, <1>6 DEF LimiterInv, LimiterShape
<1> QED BY <1>2, <1>3, <1>5, <1>6, <1>7, <1>8 DEF LimiterInv

(* The interval drops from the arrays what has left the window.            *)
LEMMA CleanupAllStep ==
  ASSUME LimiterInv, cleanupAll
  PROVE  LimiterInv'
<1>1. /\ UNCHANGED <<now, dailyUsage, reputations, log, served, vouched, checked>>
      /\ requests' = [s \in Senders |-> InWindow(requests[s])]
      /\ globalRequests' = InWindow(globalRequests)
  BY DEF cleanupAll, cleanup
<1>2. SharedInv'
  <2>1. SharedInv /\ IsFiniteSet(globalRequests)
    BY DEF LimiterInv, SharedInv
  <2> QED BY <1>1, <2>1, WindowOf, SharedStays
<1>3. \A o \in Senders : Used(o)' /\ Rated(o)'
  BY <1>1 DEF LimiterInv, Used, today, Rated
<1>4. \A o \in Senders : Logged(o)'
  <2> TAKE o \in Senders
  <2>1. Logged(o)
    BY DEF LimiterInv
  <2>2. InWindow(log[o])' = InWindow(log[o]) /\ Trusted(o)' = Trusted(o)
    BY <1>1 DEF InWindow, Trusted, EarnedLimit
  <2>3. requests'[o] \subseteq requests[o] /\ InWindow(log[o]) \subseteq requests'[o]
    BY <1>1, <2>1 DEF InWindow, Logged
  <2> QED BY <1>1, <2>1, <2>2, <2>3 DEF Logged
<1>5. LimiterShape'
  BY <1>1 DEF LimiterInv, LimiterShape
<1> QED BY <1>2, <1>3, <1>4, <1>5 DEF LimiterInv

(* So does a refused check, of the global array.                           *)
LEMMA FilterStep ==
  ASSUME LimiterInv, FilterGlobal
  PROVE  LimiterInv'
<1>1. UNCHANGED <<now, requests, dailyUsage, reputations, log, served, vouched, checked>>
      /\ globalRequests' = InWindow(globalRequests)
  BY DEF FilterGlobal, limiterVars
<1>2. SharedInv'
  <2>1. SharedInv /\ IsFiniteSet(globalRequests)
    BY DEF LimiterInv, SharedInv
  <2> QED BY <1>1, <2>1, WindowOf, SharedStays
<1>3. \A o \in Senders : Logged(o)' /\ Rated(o)' /\ Used(o)'
  BY <1>1, OthersStay
<1>4. LimiterShape'
  BY <1>1 DEF LimiterInv, LimiterShape
<1> QED BY <1>2, <1>3, <1>4 DEF LimiterInv

(* As the clock goes on the windows lose messages and the day may turn.    *)
LEMMA LimiterTick ==
  ASSUME LimiterInv, Tick, UNCHANGED serviceVars
  PROVE  LimiterInv'
<1>1. /\ UNCHANGED <<requests, dailyUsage, reputations, log, served, vouched,
                     globalRequests, checked>>
      /\ now \in Nat /\ now' = now + 1 /\ now' \in 0..MaxTime /\ now' \in Nat /\ now <= now'
  BY LimiterAssumption DEF Tick, serviceVars, LimiterInv, LimiterShape
<1>2. SharedInv'
  <2>1. SharedInv /\ IsFiniteSet(checked)
    BY DEF LimiterInv, SharedInv
  <2>2. InWindow(checked)' = Since(checked, now')
    BY <1>1 DEF InWindow, Since
  <2>3. \A m \in checked : m.time \in Nat
    BY <2>1 DEF SharedInv
  <2>4. /\ Since(checked, now') \subseteq InWindow(checked)
        /\ Cardinality(Since(checked, now')) \in Nat /\ Cardinality(InWindow(checked)) \in Nat
        /\ Cardinality(Since(checked, now')) <= Cardinality(InWindow(checked))
    BY <1>1, <2>1, <2>3, WindowMoves
  <2> QED BY <1>1, <2>1, <2>2, <2>4, GlobalAssumption DEF SharedInv
<1>3. \A o \in Senders : Used(o)'
  <2>1. today <= today' /\ today \in Nat /\ today' \in Nat
    BY <1>1, DaysPass DEF today
  <2> QED BY <1>1, <2>1 DEF LimiterInv, Used
<1>4. \A o \in Senders : Rated(o)'
  BY <1>1 DEF LimiterInv, Rated
<1>5. \A o \in Senders : Logged(o)'
  <2> TAKE o \in Senders
  <2>1. Logged(o) /\ IsFiniteSet(log[o]) /\ \A m \in log[o] : m.time \in Nat
    BY DEF LimiterInv, Logged
  <2>2. InWindow(log[o])' = Since(log[o], now') /\ Trusted(o)' = Trusted(o)
    BY <1>1 DEF InWindow, Since, Trusted, EarnedLimit
  <2>3. /\ Since(log[o], now') \subseteq InWindow(log[o])
        /\ Cardinality(Since(log[o], now')) \in Nat
        /\ Cardinality(InWindow(log[o])) \in Nat
        /\ Cardinality(Since(log[o], now')) <= Cardinality(InWindow(log[o]))
    BY <1>1, <2>1, WindowMoves
  <2>4. Trusted(o) \in Nat
    <3>1. Cardinality(log[o]) \in Nat /\ log'[o] = log[o]
      BY <1>1, <2>1, OneMore
    <3> QED BY <1>1, <3>1, TrustGrows
  <2>5. Cardinality(InWindow(log[o])') <= Trusted(o)'
    BY <2>1, <2>2, <2>3, <2>4 DEF Logged
  <2>6. InWindow(log[o])' \subseteq requests'[o]
    BY <1>1, <2>1, <2>2, <2>3 DEF Logged
  <2> QED BY <1>1, <2>1, <2>5, <2>6 DEF Logged
<1>6. LimiterShape'
  BY <1>1 DEF LimiterInv, LimiterShape
<1> QED BY <1>2, <1>3, <1>4, <1>5, <1>6 DEF LimiterInv

(* A limiter that has recorded nothing.                                    *)
LEMMA LimiterInitInv == SharedInit => LimiterInv
<1> SUFFICES ASSUME SharedInit
             PROVE  LimiterInv
  OBVIOUS
<1>1. LimiterShape
  BY LimiterAssumption DEF SharedInit, LimiterInit, LimiterShape
<1>2. IsFiniteSet({}) /\ Cardinality({}) = 0 /\ InWindow({}) = {}
  BY FS_EmptySet DEF InWindow
<1>3. SharedInv
  BY <1>2, GlobalAssumption DEF SharedInit, SharedInv
<1>4. ASSUME NEW s \in Senders
      PROVE  Logged(s) /\ Rated(s) /\ Used(s)
  <2>1. log[s] = {} /\ requests[s] = {} /\ reputations[s] = Unrated
        /\ dailyUsage[s] = NoUsage /\ served[s] = [day \in Days |-> 0] /\ now = 0
    BY DEF SharedInit, LimiterInit
  <2>2. Logged(s)
    <3>1. Trusted(s) \in Nat
      BY <1>2, <2>1, LimiterAssumption DEF Trusted, EarnedLimit
    <3> QED BY <1>2, <2>1, <3>1, LimiterAssumption DEF Logged
  <2>3. Rated(s)
    BY <1>2, <2>1 DEF Rated, Ratings, Unrated
  <2>4. Used(s)
    <3>1. NoUsage.bytes = 0 /\ NoUsage.date = -1 /\ -1 \notin Days
      BY DEF NoUsage, Days
    <3> QED BY <2>1, <3>1, LimiterAssumption DEF Used, NoUsage
  <2> QED BY <2>2, <2>3, <2>4
<1> QED BY <1>1, <1>3, <1>4 DEF LimiterInv

(* Every call of the limiter and every tick keeps the invariant.           *)
LEMMA LimiterInductive == LimiterInv /\ [SharedNext]_<<limiterVars, serviceVars>> => LimiterInv'
<1> SUFFICES ASSUME LimiterInv, [SharedNext]_<<limiterVars, serviceVars>>
             PROVE  LimiterInv'
  OBVIOUS
<1>1. CASE UNCHANGED <<limiterVars, serviceVars>>
  <2>1. UNCHANGED <<now, requests, dailyUsage, reputations, log, served, vouched,
                    globalRequests, checked>>
    BY <1>1 DEF limiterVars, serviceVars
  <2>2. \A o \in Senders : Logged(o)' /\ Rated(o)' /\ Used(o)'
    BY <2>1, OthersStay
  <2>3. LimiterShape' /\ SharedInv'
    BY <2>1 DEF LimiterInv, LimiterShape, SharedInv, InWindow
  <2> QED BY <2>2, <2>3 DEF LimiterInv
<1>2. CASE SharedNext
  BY <1>2, RecordPlain, RecordReputed, TrustStep, FilterStep, CleanupAllStep, LimiterTick,
     Zenon DEF SharedNext
<1> QED BY <1>1, <1>2

(* The limiter's arrays, entries and reputations account for everything it *)
(* let through.                                                            *)
THEOREM LimiterInvariant == SharedSpec => []LimiterInv
BY LimiterInitInv, LimiterInductive, PTL DEF SharedSpec

(* No sender gets more messages through in a window than its trust allows: *)
(* one nobody vouched for no more than the base limit before its 251st     *)
(* message, and after it what its messages can have earned. checkAndRecord,*)
(* by either way, reportSpam, markTrusted and cleanup come in any order,   *)
(* for any limits and any number of messages.                              *)
THEOREM SendersLimited == SharedSpec => []RateBound
<1>1. LimiterInv => RateBound
  BY DEF LimiterInv, Logged, RateBound
<1> QED BY <1>1, LimiterInvariant, PTL

(* On no day does recordStorage count more bytes of a sender than          *)
(* maxDailyStorage, also when the day turns between two messages.          *)
THEOREM StorageLimited == SharedSpec => []DailyBound
<1>1. LimiterInv => DailyBound
  BY DEF LimiterInv, Used, DailyBound
<1> QED BY <1>1, LimiterInvariant, PTL

(* No window holds more messages of the plain limiter than                 *)
(* globalMaxRequests, though the limiter by reputation pushes to the same  *)
(* array and cleanup filters it.                                           *)
THEOREM NodeLimited == SharedSpec => []GlobalBound
<1>1. LimiterInv => GlobalBound
  BY DEF LimiterInv, SharedInv, GlobalBound
<1> QED BY <1>1, LimiterInvariant, PTL
=============================================================================
