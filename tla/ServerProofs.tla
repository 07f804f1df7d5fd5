----------------------------- MODULE ServerProofs -----------------------------
(***************************************************************************)
(* Proofs about SecureServer, for any wallets and sockets, and any number  *)
(* of nonces, sessions and nodes.                                          *)
(***************************************************************************)
EXTENDS SecureServer, FiniteSetTheorems, TLAPS

Statuses == {"starting", "running", "stopped"}

(* How the tables of sessions, nodes and stops under way refer to each     *)
(* other.                                                                   *)
Tables ==
  /\ \A t \in DOMAIN data :
       /\ data[t] \in [identity : Signatures, node : Int]
       /\ data[t].node \in DOMAIN nodes \cup NoNode
  /\ DOMAIN sessions \subseteq DOMAIN data
  /\ \A n \in DOMAIN nodes :
       /\ nodes[n] \in [token : Nat, identity : Signatures, status : Statuses]
       /\ nodes[n].token \in DOMAIN data
  /\ \A s \in stopping : s.token \in DOMAIN data /\ s.node \in DOMAIN nodes

(* Nonces, tokens and nodes are numbered as they are made.                  *)
Shape ==
  /\ now \in Nat /\ issued \in Nat
  /\ DOMAIN nonces \subseteq 1..issued
  /\ \A n \in DOMAIN nonces : nonces[n] \in [expires : Nat, used : BOOLEAN]
  /\ \E k \in Nat : DOMAIN data = 1..k
  /\ \E k \in Nat : DOMAIN nodes = 1..k
  /\ Tables

(* The process ends, and a new one is started.                              *)
ProcessEnds == \E t \in Tokens : wsConnectThrows(t)

(* The next number is new.                                                  *)
LEMMA NextNumber ==
  ASSUME NEW S, \E k \in Nat : S = 1..k
  PROVE  /\ Cardinality(S) + 1 \in Nat \ {0}
         /\ Cardinality(S) + 1 \notin S
         /\ \E k \in Nat : S \cup {Cardinality(S) + 1} = 1..k
<1>1. PICK k \in Nat : S = 1..k
  OBVIOUS
<1>2. Cardinality(S) = k
  <2>1. Cardinality(1..k) = IF 1 > k THEN 0 ELSE k - 1 + 1
    BY FS_Interval
  <2> QED BY <1>1, <2>1
<1>3. S \cup {k + 1} = 1..(k + 1)
  BY <1>1
<1> QED BY <1>1, <1>2, <1>3

(* An identity, once kept for a token or given to a node, does not change.  *)
LEMMA IdentitiesKept ==
  ASSUME Shape, [Next]_vars, ~ProcessEnds
  PROVE  /\ \A t \in DOMAIN data :
              t \in DOMAIN data' /\ data'[t].identity = data[t].identity
         /\ \A n \in DOMAIN nodes :
              /\ n \in DOMAIN nodes'
              /\ nodes'[n].identity = nodes[n].identity
              /\ nodes'[n].token = nodes[n].token
<1>1. ASSUME NEW sig \in Signatures, NEW w \in Wallets, NEW n \in Nonces,
             login(sig, w, n)
      PROVE  /\ \A t \in DOMAIN data : t \in DOMAIN data' /\ data'[t] = data[t]
             /\ nodes' = nodes
  BY <1>1, NextNumber DEF login, OpenSession, Put, FreshToken, Shape, Tables
<1>2. ASSUME NEW t \in Tokens, nodeStart(t)
      PROVE  /\ \A n \in DOMAIN nodes :
                  n \in DOMAIN nodes' /\ nodes'[n] = nodes[n]
             /\ data' = data
  BY <1>2, NextNumber DEF nodeStart, Put, Shape, Tables
<1>3. CASE \/ \E n \in DOMAIN nodes : nodeStarted(n) \/ nodeStartFails(n)
           \/ \E s \in stopping : nodeStopped(s) \/ nodeStopFails(s)
  <2>1. PICK n \in DOMAIN nodes, st \in Statuses :
          nodes' = [nodes EXCEPT ![n].status = st] \/ nodes' = nodes
    BY <1>3
    DEF Shape, Tables, Statuses, nodeStarted, nodeStartFails, nodeStopped,
        nodeStopFails
  <2>2. \/ data' = data
        \/ \E t \in DOMAIN data : \E m : data' = [data EXCEPT ![t].node = m]
    BY <1>3
    DEF Shape, Tables, nodeStarted, nodeStartFails, nodeStopped, nodeStopFails
  <2>3. \A m \in DOMAIN nodes :
          /\ m \in DOMAIN nodes'
          /\ nodes'[m].identity = nodes[m].identity
          /\ nodes'[m].token = nodes[m].token
    <3>1. nodes[n] \in [token : Nat, identity : Signatures, status : Statuses]
      BY DEF Shape, Tables
    <3>2. /\ [nodes[n] EXCEPT !.status = st].identity = nodes[n].identity
          /\ [nodes[n] EXCEPT !.status = st].token = nodes[n].token
      BY <3>1
    <3> QED BY <2>1, <3>2
  <2>4. \A t \in DOMAIN data :
          t \in DOMAIN data' /\ data'[t].identity = data[t].identity
    <3>1. ASSUME NEW t \in DOMAIN data, NEW m
          PROVE  [data[t] EXCEPT !.node = m].identity = data[t].identity
      <4>1. data[t] \in [identity : Signatures, node : Int]
        BY DEF Shape, Tables
      <4> QED BY <4>1
    <3>2. ASSUME NEW t \in DOMAIN data, NEW m,
                 data' = [data EXCEPT ![t].node = m]
          PROVE  \A u \in DOMAIN data :
                   u \in DOMAIN data' /\ data'[u].identity = data[u].identity
      <4>1. data'[t] = [data[t] EXCEPT !.node = m]
        BY <3>2
      <4>2. \A u \in DOMAIN data : u # t => data'[u] = data[u]
        BY <3>2
      <4> QED BY <3>1, <3>2, <4>1, <4>2
    <3> QED BY <2>2, <3>2
  <2> QED BY <2>3, <2>4
<1>4. CASE UNCHANGED <<data, nodes>>
  BY <1>4
<1> QED
  BY <1>1, <1>2, <1>3, <1>4
  DEF Next, ProcessEnds, vars, nodeVars, authVars, generateNonce, LoginExpired,
      DropConsumed, logout, ExpiredRequest, sweep, nodeStop, wsConnect,
      wsClose, Tick

(* Data of sessions is numbered on by login only, nodes by nodeStart only.  *)
LEMMA NumbersKept ==
  ASSUME Shape, [Next]_vars, ~ProcessEnds
  PROVE  /\ \E k \in Nat : DOMAIN data' = 1..k
         /\ \E k \in Nat : DOMAIN nodes' = 1..k
<1>1. ASSUME NEW sig \in Signatures, NEW w \in Wallets, NEW n \in Nonces,
             login(sig, w, n)
      PROVE  /\ \E k \in Nat : DOMAIN data' = 1..k
             /\ DOMAIN nodes' = DOMAIN nodes
  BY <1>1, NextNumber DEF login, OpenSession, Put, FreshToken, Shape
<1>2. ASSUME NEW t \in Tokens, nodeStart(t)
      PROVE  /\ \E k \in Nat : DOMAIN nodes' = 1..k
             /\ DOMAIN data' = DOMAIN data
  BY <1>2, NextNumber DEF nodeStart, Put, Shape
<1>3. CASE DOMAIN data' = DOMAIN data /\ DOMAIN nodes' = DOMAIN nodes
  BY <1>3 DEF Shape
<1> QED
  BY <1>1, <1>2, <1>3
  DEF Shape, Next, ProcessEnds, vars, nodeVars, authVars, generateNonce,
      LoginExpired,
      DropConsumed, logout, ExpiredRequest, sweep, nodeStarted,
      nodeStartFails, nodeStop, nodeStopped, nodeStopFails, wsConnect,
      wsClose, Tick

(* Nonces are numbered as they are handed out, and only forgotten.          *)
LEMMA NoncesShape ==
  ASSUME Shape, [Next]_vars, ~ProcessEnds
  PROVE  /\ now' \in Nat /\ issued' \in Nat
         /\ DOMAIN nonces' \subseteq 1..issued'
         /\ \A n \in DOMAIN nonces' : nonces'[n] \in [expires : Nat, used : BOOLEAN]
<1>1. CASE generateNonce
  <2> DEFINE new == [expires |-> now + NONCE_EXPIRY, used |-> FALSE]
             all == Put(nonces, issued + 1, new)
  <2>1. issued' = issued + 1 /\ now' = now
    BY <1>1 DEF generateNonce
  <2>2. new \in [expires : Nat, used : BOOLEAN]
    BY ServerAssumption DEF Shape
  <2>3. nonces' = Restrict(all, {n \in DOMAIN all : all[n].expires >= now})
    BY <1>1 DEF generateNonce
  <2>4. \A n \in DOMAIN nonces' : n \in DOMAIN all /\ nonces'[n] = all[n]
    BY <2>3 DEF Restrict
  <2> HIDE DEF new
  <2>5. \A n \in DOMAIN all :
          /\ n \in DOMAIN nonces \/ n = issued + 1
          /\ all[n] = IF n = issued + 1 THEN new ELSE nonces[n]
    BY DEF Put
  <2> HIDE DEF all
  <2>6. \A n \in DOMAIN all : all[n] \in [expires : Nat, used : BOOLEAN]
    BY <2>2, <2>5 DEF Shape
  <2>7. DOMAIN nonces' \subseteq 1..issued'
    BY <2>1, <2>4, <2>5 DEF Shape
  <2> QED BY <2>1, <2>4, <2>6, <2>7 DEF Shape
<1>2. ASSUME NEW n \in Nonces, LoginExpired(n) \/ DropConsumed(n)
      PROVE  /\ now' = now /\ issued' = issued
             /\ \A m \in DOMAIN nonces' :
                  m \in DOMAIN nonces /\ nonces'[m] = nonces[m]
  BY <1>2 DEF LoginExpired, DropConsumed, Del
<1>3. ASSUME NEW sig \in Signatures, NEW w \in Wallets, NEW n \in Nonces,
             login(sig, w, n)
      PROVE  /\ now' = now /\ issued' = issued
             /\ DOMAIN nonces' = DOMAIN nonces
             /\ \A m \in DOMAIN nonces :
                  nonces'[m] \in [expires : Nat, used : BOOLEAN]
  <2>1. nonces' = [nonces EXCEPT ![n].used = TRUE] /\ n \in DOMAIN nonces
    BY <1>3 DEF login, verifyNonce
  <2>2. [nonces[n] EXCEPT !.used = TRUE] \in [expires : Nat, used : BOOLEAN]
    BY <2>1 DEF Shape
  <2> QED BY <1>3, <2>1, <2>2 DEF login, Shape
<1>4. CASE UNCHANGED <<nonces, issued>> /\ now' \in {now, now + 1}
  BY <1>4 DEF Shape
<1> QED
  BY <1>1, <1>2, <1>3, <1>4
  DEF Shape, Next, ProcessEnds, vars, nodeVars, authVars, logout,
      ExpiredRequest, sweep,
      nodeStart, nodeStarted, nodeStartFails, nodeStop, nodeStopped,
      nodeStopFails, wsConnect, wsClose, Tick

(* The sessions, their data, the nodes and the stops under way keep their   *)
(* shape.                                                                   *)
LEMMA TablesShape ==
  ASSUME Shape, [Next]_vars, ~ProcessEnds
  PROVE  Tables'
<1>1. ASSUME NEW sig \in Signatures, NEW w \in Wallets, NEW n \in Nonces,
             login(sig, w, n)
      PROVE  Tables'
  <2> DEFINE new == [identity |-> sig, node |-> Undefined]
  <2>1. /\ DOMAIN data' = DOMAIN data \cup {FreshToken}
        /\ \A t \in DOMAIN data' :
             data'[t] = IF t = FreshToken THEN new ELSE data[t]
        /\ DOMAIN sessions' = DOMAIN sessions \cup {FreshToken}
        /\ nodes' = nodes /\ stopping' = stopping
    BY <1>1 DEF login, OpenSession, Put
  <2>2. new \in [identity : Signatures, node : Int] /\ new.node \in NoNode
    BY DEF NoNode, Undefined
  <2> HIDE DEF new
  <2> QED BY <2>1, <2>2 DEF Shape, Tables
<1>2. ASSUME NEW t \in Tokens, nodeStart(t)
      PROVE  Tables'
  <2> DEFINE new == [token |-> t, identity |-> data[t].identity,
                     status |-> "starting"]
             fresh == Cardinality(DOMAIN nodes) + 1
  <2>1. /\ DOMAIN nodes' = DOMAIN nodes \cup {fresh}
        /\ \A n \in DOMAIN nodes' :
             nodes'[n] = IF n = fresh THEN new ELSE nodes[n]
        /\ data' = data /\ sessions' = sessions /\ stopping' = stopping
    BY <1>2 DEF nodeStart, Put, authVars
  <2>2. t \in DOMAIN data /\ t \in Nat
    BY <1>2 DEF nodeStart, validateSession, Shape, Tables, Tokens
  <2>3. /\ new \in [token : Nat, identity : Signatures, status : Statuses]
        /\ new.token \in DOMAIN data
    BY <2>2 DEF Shape, Tables, Statuses
  <2> HIDE DEF new, fresh
  <2> QED BY <2>1, <2>3 DEF Shape, Tables
<1>3. ASSUME NEW n \in DOMAIN nodes, NEW st \in Statuses,
             nodes' = [nodes EXCEPT ![n].status = st] \/ nodes' = nodes
      PROVE  /\ DOMAIN nodes' = DOMAIN nodes
             /\ \A m \in DOMAIN nodes :
                  /\ nodes'[m] \in
                       [token : Nat, identity : Signatures, status : Statuses]
                  /\ nodes'[m].token = nodes[m].token
  <2>1. nodes[n] \in [token : Nat, identity : Signatures, status : Statuses]
    BY DEF Shape, Tables
  <2>2. /\ [nodes[n] EXCEPT !.status = st] \in
             [token : Nat, identity : Signatures, status : Statuses]
        /\ [nodes[n] EXCEPT !.status = st].token = nodes[n].token
    BY <2>1
  <2> QED BY <1>3, <2>2 DEF Shape, Tables
<1>4. ASSUME NEW t \in DOMAIN data, NEW m \in DOMAIN nodes \cup NoNode,
             data' = [data EXCEPT ![t].node = m]
      PROVE  /\ DOMAIN data' = DOMAIN data
             /\ \A u \in DOMAIN data :
                  /\ data'[u] \in [identity : Signatures, node : Int]
                  /\ data'[u].node \in DOMAIN nodes \cup NoNode
  <2>1. data[t] \in [identity : Signatures, node : Int] /\ m \in Int
    BY DEF Shape, Tables, NoNode, Undefined, Null
  <2>2. /\ [data[t] EXCEPT !.node = m] \in [identity : Signatures, node : Int]
        /\ [data[t] EXCEPT !.node = m].node = m
    BY <2>1
  <2> QED BY <1>4, <2>2 DEF Shape, Tables
<1>5. ASSUME NEW n \in DOMAIN nodes, nodeStarted(n) \/ nodeStartFails(n)
      PROVE  Tables'
  <2>1. PICK st \in Statuses : nodes' = [nodes EXCEPT ![n].status = st]
    BY <1>5 DEF nodeStarted, nodeStartFails, Statuses
  <2>2. /\ data' = data \/ data' = [data EXCEPT ![nodes[n].token].node = n]
        /\ sessions' = sessions /\ stopping' = stopping
    BY <1>5 DEF nodeStarted, nodeStartFails, authVars
  <2>3. nodes[n].token \in DOMAIN data
    BY DEF Shape, Tables
  <2> QED BY <1>3, <1>4, <2>1, <2>2, <2>3 DEF Shape, Tables
<1>6. ASSUME NEW s \in stopping, nodeStopped(s) \/ nodeStopFails(s)
      PROVE  Tables'
  <2>1. s.token \in DOMAIN data /\ s.node \in DOMAIN nodes
    BY DEF Shape, Tables
  <2>2. \/ nodes' = [nodes EXCEPT ![s.node].status = "stopped"]
        \/ nodes' = nodes
    BY <1>6 DEF nodeStopped, nodeStopFails
  <2>3. /\ data' = data \/ data' = [data EXCEPT ![s.token].node = Null]
        /\ sessions' = sessions /\ stopping' = stopping \ {s}
    BY <1>6 DEF nodeStopped, nodeStopFails, authVars
  <2>4. "stopped" \in Statuses
    BY DEF Statuses
  <2>5. /\ DOMAIN nodes' = DOMAIN nodes
        /\ \A m \in DOMAIN nodes :
             /\ nodes'[m] \in
                  [token : Nat, identity : Signatures, status : Statuses]
             /\ nodes'[m].token = nodes[m].token
    BY <1>3, <2>1, <2>2, <2>4
  <2>6. /\ DOMAIN data' = DOMAIN data
        /\ \A u \in DOMAIN data :
             /\ data'[u] \in [identity : Signatures, node : Int]
             /\ data'[u].node \in DOMAIN nodes \cup NoNode
    <3>1. CASE data' = data
      BY <3>1 DEF Shape, Tables
    <3>2. CASE data' = [data EXCEPT ![s.token].node = Null]
      BY <1>4, <2>1, <3>2 DEF NoNode
    <3> QED BY <2>3, <3>1, <3>2
  <2> QED BY <2>3, <2>5, <2>6 DEF Shape, Tables
<1>7. ASSUME NEW t \in Tokens, nodeStop(t)
      PROVE  Tables'
  <2>1. t \in DOMAIN data
    BY <1>7 DEF nodeStop, validateSession, Shape, Tables
  <2>2. /\ data' = data /\ nodes' = nodes /\ sessions' = sessions
        /\ data[t].node \notin NoNode
        /\ stopping' = stopping \cup {[token |-> t, node |-> data[t].node]}
    BY <1>7 DEF nodeStop, authVars
  <2>3. data[t].node \in DOMAIN nodes
    BY <2>1, <2>2 DEF Shape, Tables
  <2>4. \A s \in stopping' : s.token \in DOMAIN data /\ s.node \in DOMAIN nodes
    BY <2>1, <2>2, <2>3 DEF Shape, Tables
  <2> QED BY <2>2, <2>4 DEF Shape, Tables
<1>8. CASE /\ UNCHANGED nodeVars
           /\ DOMAIN sessions' \subseteq DOMAIN sessions
  BY <1>8 DEF nodeVars, Shape, Tables
<1>9. \/ UNCHANGED nodeVars /\ DOMAIN sessions' \subseteq DOMAIN sessions
      \/ \E sig \in Signatures, w \in Wallets, n \in Nonces : login(sig, w, n)
      \/ \E t \in Tokens : nodeStart(t) \/ nodeStop(t)
      \/ \E n \in DOMAIN nodes : nodeStarted(n) \/ nodeStartFails(n)
      \/ \E s \in stopping : nodeStopped(s) \/ nodeStopFails(s)
  BY DEF Next, ProcessEnds, vars, authVars, generateNonce, LoginExpired,
         DropConsumed,
         logout, ExpiredRequest, sweep, destroySession, Del, Restrict,
         wsConnect, wsClose, Tick
<1> QED
  BY <1>1, <1>2, <1>5, <1>6, <1>7, <1>8, <1>9

(* Every other step keeps the shape.                                        *)
LEMMA ShapeNext == Shape /\ [Next]_vars /\ ~ProcessEnds => Shape'
BY NoncesShape, NumbersKept, TablesShape DEF Shape

(* Everything is empty at the start.                                        *)
LEMMA ShapeInit == Init => Shape
<1> SUFFICES ASSUME Init
             PROVE  Shape
  OBVIOUS
<1>1. \E k \in Nat : {} = 1..k
  BY 1..0 = {}
<1> QED BY <1>1 DEF Init, Shape, Tables

-----------------------------------------------------------------------------
(* Every nonce that opened a session was handed out, and its record, if it  *)
(* is still there, is marked as used.                                       *)
UsedNonces ==
  \A t \in DOMAIN data :
    LET n == data[t].identity.nonce
    IN  n \in 1..issued /\ (n \in DOMAIN nonces => nonces[n].used)

(* A nonce, once used, stays used until it is forgotten; a nonce that was   *)
(* handed out is never handed out again.                                    *)
LEMMA UsedStays ==
  ASSUME Shape, [Next]_vars, ~ProcessEnds
  PROVE  \A n \in 1..issued :
           /\ n \in 1..issued'
           /\ n \in DOMAIN nonces' =>
                /\ n \in DOMAIN nonces
                /\ nonces[n].used => nonces'[n].used
<1>1. CASE generateNonce
  <2> DEFINE all == Put(nonces, issued + 1,
                        [expires |-> now + NONCE_EXPIRY, used |-> FALSE])
  <2>1. /\ issued' = issued + 1
        /\ nonces' = Restrict(all, {n \in DOMAIN all : all[n].expires >= now})
    BY <1>1 DEF generateNonce
  <2>2. \A n \in DOMAIN nonces' : n \in DOMAIN all /\ nonces'[n] = all[n]
    BY <2>1 DEF Restrict
  <2>3. \A n \in DOMAIN all :
          n # issued + 1 => n \in DOMAIN nonces /\ all[n] = nonces[n]
    BY DEF Put
  <2> HIDE DEF all
  <2>4. issued \in Nat /\ \A n \in 1..issued : n \in Nat /\ n # issued + 1
    BY DEF Shape
  <2> QED BY <2>1, <2>2, <2>3, <2>4
<1>2. ASSUME NEW n \in Nonces, LoginExpired(n) \/ DropConsumed(n)
      PROVE  /\ issued' = issued
             /\ \A m \in DOMAIN nonces' :
                  m \in DOMAIN nonces /\ nonces'[m] = nonces[m]
  BY <1>2 DEF LoginExpired, DropConsumed, Del
<1>3. ASSUME NEW sig \in Signatures, NEW w \in Wallets, NEW n \in Nonces,
             login(sig, w, n)
      PROVE  /\ issued' = issued
             /\ \A m \in DOMAIN nonces' :
                  /\ m \in DOMAIN nonces
                  /\ nonces[m].used => nonces'[m].used
  <2>1. nonces[n] \in [expires : Nat, used : BOOLEAN]
    BY <1>3 DEF login, verifyNonce, Shape
  <2>2. [nonces[n] EXCEPT !.used = TRUE].used
    BY <2>1
  <2> QED BY <1>3, <2>2 DEF login
<1>4. CASE UNCHANGED <<nonces, issued>>
  BY <1>4
<1> QED
  BY <1>1, <1>2, <1>3, <1>4
  DEF Next, ProcessEnds, vars, nodeVars, authVars, logout, ExpiredRequest,
      sweep,
      nodeStart, nodeStarted, nodeStartFails, nodeStop, nodeStopped,
      nodeStopFails, wsConnect, wsClose, Tick

(* What a login adds, and that nothing else adds data of a session.         *)
LEMMA NewData ==
  ASSUME Shape, [Next]_vars, NEW t \in DOMAIN data', t \notin DOMAIN data
  PROVE  \E sig \in Signatures, w \in Wallets, n \in Nonces :
           /\ login(sig, w, n)
           /\ t = FreshToken
           /\ data'[t].identity = sig
<1>0. ~ProcessEnds
  <2>1. ProcessEnds => DOMAIN data' = {}
    BY DEF ProcessEnds, wsConnectThrows
  <2> QED BY <2>1
<1>1. DOMAIN data' = DOMAIN data \/
        \E sig \in Signatures, w \in Wallets, n \in Nonces : login(sig, w, n)
  BY <1>0 DEF Next, ProcessEnds, vars, nodeVars, authVars, generateNonce,
         LoginExpired, DropConsumed, logout, ExpiredRequest, sweep, nodeStart,
         nodeStarted, nodeStartFails, nodeStop, nodeStopped, nodeStopFails,
         wsConnect, wsClose, Tick
<1>2. PICK sig \in Signatures, w \in Wallets, n \in Nonces : login(sig, w, n)
  BY <1>1
<1> QED BY <1>2 DEF login, OpenSession, Put

(* A login finds its nonce unused, and so unlike any nonce used before.     *)
LEMMA NonceStep ==
  ASSUME Shape, UsedNonces, NonceOnce, [Next]_vars, ~ProcessEnds
  PROVE  UsedNonces' /\ NonceOnce'
<1>1. \A t \in DOMAIN data :
        t \in DOMAIN data' /\ data'[t].identity = data[t].identity
  BY IdentitiesKept
<1>2. CASE DOMAIN data' = DOMAIN data
  BY <1>1, <1>2, UsedStays DEF UsedNonces, NonceOnce
<1>3. CASE DOMAIN data' # DOMAIN data
  <2>1. PICK u \in DOMAIN data' : u \notin DOMAIN data
    BY <1>1, <1>3
  <2>2. PICK sig \in Signatures, w \in Wallets, n \in Nonces :
          login(sig, w, n) /\ data'[u].identity = sig /\ u = FreshToken
    BY <2>1, NewData
  <2>3. /\ sig.nonce = n /\ n \in DOMAIN nonces /\ ~nonces[n].used
        /\ issued' = issued
        /\ nonces' = [nonces EXCEPT ![n].used = TRUE]
        /\ DOMAIN data' = DOMAIN data \cup {u}
    BY <2>2 DEF login, verifyNonce, OpenSession, Put
  <2>4. \A t \in DOMAIN data : data[t].identity.nonce # n
    BY <2>3 DEF UsedNonces
  <2>5. nonces'[n].used
    <3>1. nonces[n] \in [expires : Nat, used : BOOLEAN]
      BY <2>3 DEF Shape
    <3>2. [nonces[n] EXCEPT !.used = TRUE].used
      BY <3>1
    <3> QED BY <2>3, <3>2
  <2>6. n \in 1..issued
    BY <2>3 DEF Shape
  <2>7. UsedNonces'
    BY <1>1, <2>2, <2>3, <2>5, <2>6, UsedStays DEF UsedNonces
  <2>8. NonceOnce'
    BY <1>1, <2>2, <2>3, <2>4 DEF NonceOnce
  <2> QED BY <2>7, <2>8
<1> QED BY <1>2, <1>3

-----------------------------------------------------------------------------
(* Each session record belongs to the wallet that signed, each node to the  *)
(* identity of its token, and a session's node was started for it.          *)
OwnersAgree ==
  /\ \A t \in DOMAIN sessions : sessions[t].wallet = data[t].identity.wallet
  /\ \A n \in DOMAIN nodes : nodes[n].identity = data[nodes[n].token].identity
  /\ \A t \in DOMAIN data :
       data[t].node \notin NoNode => nodes[data[t].node].token = t

(* A login and a node start write owners that agree; the rest keep them.    *)
LEMMA OwnersStep ==
  ASSUME Shape, OwnersAgree, [Next]_vars, ~ProcessEnds
  PROVE  OwnersAgree'
<1>1. /\ \A t \in DOMAIN data :
           t \in DOMAIN data' /\ data'[t].identity = data[t].identity
      /\ \A n \in DOMAIN nodes :
           /\ n \in DOMAIN nodes'
           /\ nodes'[n].identity = nodes[n].identity
           /\ nodes'[n].token = nodes[n].token
  BY IdentitiesKept
<1>2. \A t \in DOMAIN sessions' :
        sessions'[t].wallet = data'[t].identity.wallet
  <2>1. ASSUME NEW sig \in Signatures, NEW w \in Wallets, NEW n \in Nonces,
               login(sig, w, n)
        PROVE  \A t \in DOMAIN sessions' :
                 sessions'[t].wallet = data'[t].identity.wallet
    BY <2>1, NextNumber
    DEF login, OpenSession, Put, FreshToken, OwnersAgree, Shape, Tables
  <2>2. CASE /\ DOMAIN sessions' \subseteq DOMAIN sessions
             /\ \A t \in DOMAIN sessions' : sessions'[t] = sessions[t]
    BY <1>1, <2>2 DEF OwnersAgree, Shape, Tables
  <2> QED
    BY <2>1, <2>2
    DEF Next, ProcessEnds, vars, authVars, generateNonce, LoginExpired,
        DropConsumed,
        logout, ExpiredRequest, sweep, destroySession, Del, Restrict,
        nodeStart, nodeStarted, nodeStartFails, nodeStop, nodeStopped,
        nodeStopFails, wsConnect, wsClose, Tick
<1>3. \A n \in DOMAIN nodes' :
        nodes'[n].identity = data'[nodes'[n].token].identity
  <2>1. ASSUME NEW t \in Tokens, nodeStart(t)
        PROVE  \A n \in DOMAIN nodes' :
                 nodes'[n].identity = data'[nodes'[n].token].identity
    BY <2>1, NextNumber DEF nodeStart, Put, OwnersAgree, Shape, Tables
  <2>2. CASE DOMAIN nodes' = DOMAIN nodes
    BY <1>1, <2>2 DEF OwnersAgree, Shape, Tables
  <2> QED
    BY <2>1, <2>2
    DEF Next, ProcessEnds, vars, nodeVars, generateNonce, LoginExpired, login,
        DropConsumed, logout, ExpiredRequest, sweep, nodeStarted,
        nodeStartFails, nodeStop, nodeStopped, nodeStopFails, wsConnect,
        wsClose, Tick
<1>4. \A t \in DOMAIN data' :
        data'[t].node \notin NoNode => nodes'[data'[t].node].token = t
  <2>1. ASSUME NEW t \in DOMAIN data', data'[t].node \notin NoNode,
               t \in DOMAIN data => data'[t].node = data[t].node
        PROVE  nodes'[data'[t].node].token = t
    <3>1. CASE t \in DOMAIN data
      BY <1>1, <2>1, <3>1 DEF OwnersAgree, Shape, Tables
    <3>2. CASE t \notin DOMAIN data
      <4>1. data'[t].node \in NoNode
        BY <3>2, NewData DEF login, OpenSession, Put, NoNode
      <4> QED BY <2>1, <4>1
    <3> QED BY <3>1, <3>2
  <2>2. ASSUME NEW t \in DOMAIN data, NEW m,
               data' = [data EXCEPT ![t].node = m]
        PROVE  /\ DOMAIN data' = DOMAIN data
               /\ data'[t].node = m
               /\ \A u \in DOMAIN data : u # t => data'[u] = data[u]
    <3>1. data[t] \in [identity : Signatures, node : Int]
      BY DEF Shape, Tables
    <3> QED BY <2>2, <3>1
  <2>3. ASSUME NEW n \in DOMAIN nodes, nodeStarted(n)
        PROVE  \A t \in DOMAIN data' :
                 data'[t].node \notin NoNode => nodes'[data'[t].node].token = t
    <3>1. /\ data' = [data EXCEPT ![nodes[n].token].node = n]
          /\ nodes[n].token \in DOMAIN data
      BY <2>3 DEF nodeStarted, Shape, Tables
    <3> QED BY <1>1, <2>1, <2>2, <3>1
  <2>4. ASSUME NEW s \in stopping, nodeStopped(s)
        PROVE  \A t \in DOMAIN data' :
                 data'[t].node \notin NoNode => nodes'[data'[t].node].token = t
    <3>1. /\ data' = [data EXCEPT ![s.token].node = Null]
          /\ s.token \in DOMAIN data
      BY <2>4 DEF nodeStopped, Shape, Tables
    <3>2. Null \in NoNode
      BY DEF NoNode
    <3> QED BY <2>1, <2>2, <3>1, <3>2
  <2>5. ASSUME NEW sig \in Signatures, NEW w \in Wallets, NEW n \in Nonces,
               login(sig, w, n)
        PROVE  \A t \in DOMAIN data : data'[t] = data[t]
    BY <2>5, NextNumber
    DEF login, OpenSession, Put, FreshToken, Shape
  <2>6. CASE data' = data
    BY <2>1, <2>6
  <2> QED
    BY <2>1, <2>3, <2>4, <2>5, <2>6
    DEF Next, ProcessEnds, vars, nodeVars, generateNonce, LoginExpired,
        DropConsumed,
        logout, ExpiredRequest, sweep, nodeStart, nodeStartFails, nodeStop,
        nodeStopFails, wsConnect, wsClose, Tick
<1> QED BY <1>2, <1>3, <1>4 DEF OwnersAgree

-----------------------------------------------------------------------------
(* An entry of wsClients is a socket that is open and connected with that   *)
(* token.                                                                   *)
SocketsAgree ==
  \A t \in DOMAIN wsClients :
    wsClients[t] \in DOMAIN open /\ open[wsClients[t]] = t

(* A socket takes its own entry with it when it closes, or a later one's.   *)
LEMMA SocketsStep ==
  ASSUME SocketsAgree, [Next]_vars, ~ProcessEnds
  PROVE  SocketsAgree'
<1>1. ASSUME NEW ws \in Sockets, NEW t \in Tokens, wsConnect(ws, t)
      PROVE  SocketsAgree'
  BY <1>1 DEF wsConnect, Put, SocketsAgree
<1>2. ASSUME NEW ws \in Sockets, wsClose(ws)
      PROVE  SocketsAgree'
  BY <1>2 DEF wsClose, Del, SocketsAgree
<1>3. CASE UNCHANGED wsVars
  BY <1>3 DEF wsVars, SocketsAgree
<1> QED
  BY <1>1, <1>2, <1>3
  DEF Next, ProcessEnds, vars, generateNonce, LoginExpired, login,
      DropConsumed, logout,
      ExpiredRequest, sweep, nodeStart, nodeStarted, nodeStartFails,
      nodeStop, nodeStopped, nodeStopFails, Tick

-----------------------------------------------------------------------------
ServerInv == Shape /\ UsedNonces /\ NonceOnce /\ OwnersAgree /\ SocketsAgree

(* It holds of a server that has just started.                              *)
LEMMA ServerInit == Init => ServerInv
BY ShapeInit
DEF Init, ServerInv, UsedNonces, NonceOnce, OwnersAgree, SocketsAgree

(* A new process holds it, though nonces were handed out before.            *)
LEMMA ServerRestart == ServerInv /\ ProcessEnds => ServerInv'
<1> SUFFICES ASSUME ServerInv, NEW t \in Tokens, wsConnectThrows(t)
             PROVE  ServerInv'
  BY DEF ProcessEnds
<1>1. /\ now' = now /\ issued' = issued
      /\ DOMAIN nonces' = {} /\ DOMAIN sessions' = {} /\ DOMAIN data' = {}
      /\ DOMAIN nodes' = {} /\ stopping' = {}
      /\ DOMAIN open' = {} /\ DOMAIN wsClients' = {}
  BY DEF wsConnectThrows
<1>2. \E k \in Nat : {} = 1..k
  BY 1..0 = {}
<1>3. Shape'
  BY <1>1, <1>2 DEF ServerInv, Shape, Tables
<1> QED
  BY <1>1, <1>3
  DEF ServerInv, UsedNonces, NonceOnce, OwnersAgree, SocketsAgree

(* Every handler keeps it, wherever it is interrupted.                      *)
LEMMA ServerStep == ServerInv /\ [Next]_vars => ServerInv'
BY ShapeNext, NonceStep, OwnersStep, SocketsStep, ServerRestart DEF ServerInv

(* A nonce authenticates one login, for any number of challenges, logins    *)
(* and timers that forget nonces.                                           *)
THEOREM NoncesOnce == Spec => []NonceOnce
<1>1. ServerInv => NonceOnce
  BY DEF ServerInv
<1> QED BY <1>1, ServerInit, ServerStep, PTL DEF Spec

(* The clock and the challenges stay within their bounds, and sockets and   *)
(* tokens only refer to each other.                                         *)
Bounded ==
  /\ now \in 0..MaxTime /\ issued \in 0..MaxNonces
  /\ DOMAIN open \subseteq Sockets /\ open \in [DOMAIN open -> Tokens]
  /\ DOMAIN wsClients \subseteq Tokens /\ wsClients \in [DOMAIN wsClients -> Sockets]

(* Only the clock, a challenge and a socket touch them.                     *)
LEMMA BoundedStep ==
  ASSUME Bounded, [Next]_vars, ~ProcessEnds
  PROVE  Bounded'
<1>1. MaxNonces \in Nat /\ MaxTime \in Nat
  BY ServerAssumption
<1>2. CASE generateNonce
  BY <1>1, <1>2 DEF generateNonce, nodeVars, wsVars, Bounded
<1>3. CASE Tick
  BY <1>1, <1>3 DEF Tick, authVars, nodeVars, wsVars, Bounded
<1>4. ASSUME NEW ws \in Sockets, NEW t \in Tokens, wsConnect(ws, t)
      PROVE  Bounded'
  BY <1>4 DEF wsConnect, Put, authVars, nodeVars, Bounded
<1>5. ASSUME NEW ws \in Sockets, wsClose(ws)
      PROVE  Bounded'
  BY <1>5 DEF wsClose, Del, authVars, nodeVars, Bounded
<1>6. CASE UNCHANGED <<now, issued, wsVars>>
  BY <1>6 DEF wsVars, Bounded
<1> QED
  BY <1>2, <1>3, <1>4, <1>5, <1>6
  DEF Next, ProcessEnds, vars, authVars, LoginExpired, login, DropConsumed,
      logout, ExpiredRequest,
      sweep, nodeStart, nodeStarted, nodeStartFails, nodeStop, nodeStopped, nodeStopFails

(* There are no more sessions than nonces: each took one of its own.        *)
LEMMA SessionsBounded ==
  ASSUME Shape, NonceOnce
  PROVE  DOMAIN data \subseteq Tokens
<1>1. PICK k \in Nat : DOMAIN data = 1..k
  BY DEF Shape
<1>2. MaxNonces \in Nat
  BY ServerAssumption
<1> DEFINE f == [t \in 1..k |-> data[t].identity.nonce]
<1>3. f \in [1..k -> 1..MaxNonces]
  BY <1>1 DEF Shape, Tables, Signatures, Nonces
<1>4. \A n \in Nat : IsFiniteSet(1..n) /\ Cardinality(1..n) = n
  <2> TAKE n \in Nat
  <2>1. IsFiniteSet(1..n) /\ Cardinality(1..n) = IF 1 > n THEN 0 ELSE n - 1 + 1
    BY FS_Interval
  <2> QED BY <2>1
<1>5. ~(MaxNonces < k)
  <2> SUFFICES ASSUME MaxNonces < k
               PROVE  FALSE
    OBVIOUS
  <2>1. /\ IsFiniteSet(1..k) /\ IsFiniteSet(1..MaxNonces)
        /\ Cardinality(1..MaxNonces) < Cardinality(1..k)
    BY <1>2, <1>4
  <2> HIDE DEF f
  <2>2. \E x, y \in 1..k : x # y /\ f[x] = f[y]
    BY ONLY <1>3, <2>1, FS_PigeonHole
  <2> QED BY <1>1, <2>2 DEF f, NonceOnce
<1> QED BY <1>1, <1>2, <1>5 DEF Tokens

(* Every record of the server is what its handlers take it for, and there   *)
(* are at most as many sessions as challenges were handed out.              *)
THEOREM ServerTypeCorrect == Spec => []TypeOK
<1>1. Init => Bounded
  BY ServerAssumption DEF Init, Bounded
<1>2. ServerInv /\ Bounded => TypeOK
  <2> SUFFICES ASSUME ServerInv, Bounded
               PROVE  TypeOK
    OBVIOUS
  <2>1. DOMAIN data \subseteq Tokens
    BY SessionsBounded DEF ServerInv
  <2>2. /\ open \in UNION {[S -> Tokens] : S \in SUBSET Sockets}
        /\ wsClients \in UNION {[T -> Sockets] : T \in SUBSET Tokens}
    BY DEF Bounded
  <2> QED BY <2>1, <2>2 DEF TypeOK, ServerInv, Bounded, Shape, Tables, Statuses
<1>3. Bounded /\ ProcessEnds => Bounded'
  <2> SUFFICES ASSUME Bounded, ProcessEnds
               PROVE  Bounded'
    OBVIOUS
  <2>1. now' = now /\ issued' = issued /\ open' = <<>> /\ wsClients' = <<>>
    BY DEF ProcessEnds, wsConnectThrows
  <2> QED BY <2>1 DEF Bounded
<1>4. Bounded /\ [Next]_vars => Bounded'
  BY <1>3, BoundedStep
<1> QED BY <1>1, <1>2, <1>4, ServerInit, ServerStep, PTL DEF Spec

(* A session, its identity and its node belong to the wallet that signed.   *)
THEOREM SessionsOwned == Spec => []SessionOwner
<1>1. ServerInv => SessionOwner
  BY DEF ServerInv, OwnersAgree, SessionOwner, Shape, Tables
<1> QED BY <1>1, ServerInit, ServerStep, PTL DEF Spec

(* A socket only hears of mail of the identity it logged in with, whatever  *)
(* nodes and sockets of whichever sessions come and go.                     *)
THEOREM OwnersNotified == Spec => []NotifiedOwner
<1>1. ServerInv => NotifiedOwner
  BY DEF ServerInv, OwnersAgree, SocketsAgree, NotifiedOwner, broadcast
<1> QED BY <1>1, ServerInit, ServerStep, PTL DEF Spec

(* A token that was logged out or has expired never authenticates again.    *)
THEOREM EndedSessionsStayEnded == Spec => EndedStaysEnded
<1>1. ASSUME Shape, [Next]_vars
      PROVE  \A t \in DOMAIN data \ DOMAIN sessions : t \notin DOMAIN sessions'
  <2>1. ASSUME NEW sig \in Signatures, NEW w \in Wallets, NEW n \in Nonces,
               login(sig, w, n)
        PROVE  /\ DOMAIN sessions' = DOMAIN sessions \cup {FreshToken}
               /\ FreshToken \notin DOMAIN data
    BY <1>1, <2>1, NextNumber DEF login, OpenSession, Put, FreshToken, Shape
  <2>2. CASE DOMAIN sessions' \subseteq DOMAIN sessions
    BY <2>2
  <2>3. ProcessEnds => DOMAIN sessions' = {}
    BY DEF ProcessEnds, wsConnectThrows
  <2> QED
    BY <1>1, <2>1, <2>2, <2>3
    DEF Next, ProcessEnds, vars, authVars, generateNonce, LoginExpired,
        DropConsumed,
        logout, ExpiredRequest, sweep, destroySession, Del, Restrict,
        nodeStart, nodeStarted, nodeStartFails, nodeStop, nodeStopped,
        nodeStopFails, wsConnect, wsClose, Tick, Shape, Tables
<1>2. ServerInv => Shape
  BY DEF ServerInv
<1> QED
  BY <1>1, <1>2, ServerInit, ServerStep, PTL DEF Spec, EndedStaysEnded
=============================================================================
