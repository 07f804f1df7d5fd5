----------------------------- MODULE SecureServer -----------------------------
(***************************************************************************)
(* The web server: src/server/auth.js (nonces, sessions) and               *)
(* src/server/secure-server.js (the P2P node and the WebSocket of each     *)
(* session).  Handlers interleave wherever they await; a request that is   *)
(* refused and changes nothing is no step.                                 *)
(*                                                                         *)
(* A signature is the pair of the wallet that made it and the nonce it     *)
(* signs; ethers.verifyMessage recovers that wallet from the message with  *)
(* that nonce only.  The identity derived from a signature is named by it. *)
(***************************************************************************)
EXTENDS Integers, FiniteSets, Functions

CONSTANTS
  Wallets, Sockets,
  NONCE_EXPIRY, SESSION_DURATION,
  MaxNonces,     \* bound: challenges handed out
  MaxNodes,      \* bound: P2P nodes created
  MaxTime        \* bound: the last value of the clock

ASSUME ServerAssumption ==
  /\ NONCE_EXPIRY \in Nat /\ SESSION_DURATION \in Nat
  /\ MaxNonces \in Nat /\ MaxNodes \in Nat /\ MaxTime \in Nat

VARIABLES
  now,
  nonces,       \* the nonces map of auth.js: nonce -> [expires, used]
  issued,       \* how many nonces were handed out
  sessions,     \* the sessions map of auth.js: token -> session
  data,         \* the sessions map of secure-server.js: token -> [identity, node]
  nodes,        \* node -> [token, identity, status]
  stopping,     \* stop requests waiting for node.stop()
  open,         \* socket -> the token it connected with
  wsClients     \* token -> socket

authVars == <<nonces, issued, sessions>>
nodeVars == <<data, nodes, stopping>>
wsVars == <<open, wsClients>>
vars == <<now, authVars, nodeVars, wsVars>>

Undefined == 0    \* node of a session that never had one,
Null == -1        \* ... and of one whose node was stopped
NoNode == {Undefined, Null}
Nonces == 1..MaxNonces
Tokens == 1..MaxNonces      \* a nonce opens at most one session (NonceOnce)
Signatures == [wallet : Wallets, nonce : Nonces]

Put(f, k, v) == [x \in DOMAIN f \cup {k} |-> IF x = k THEN v ELSE f[x]]
Del(f, k) == [x \in DOMAIN f \ {k} |-> f[x]]

Init ==
  /\ now = 0
  /\ nonces = <<>> /\ issued = 0 /\ sessions = <<>>
  /\ data = <<>> /\ nodes = <<>> /\ stopping = {}
  /\ open = <<>> /\ wsClients = <<>>

-----------------------------------------------------------------------------
(* GET /api/auth/challenge; expired nonces are dropped on the way.         *)
generateNonce ==
  /\ issued < MaxNonces
  /\ issued' = issued + 1
  /\ nonces' =
       LET all == Put(nonces, issued + 1,
                      [expires |-> now + NONCE_EXPIRY, used |-> FALSE])
       IN  Restrict(all, {n \in DOMAIN all : all[n].expires >= now})
  /\ UNCHANGED <<now, sessions, nodeVars, wsVars>>

verifyNonce(n) ==
  n \in DOMAIN nonces /\ nonces[n].expires >= now /\ ~nonces[n].used

(* POST /api/auth/login with an expired nonce, which verifyNonce deletes.  *)
LoginExpired(n) ==
  /\ n \in DOMAIN nonces
  /\ nonces[n].expires < now
  /\ nonces' = Del(nonces, n)
  /\ UNCHANGED <<now, issued, sessions, nodeVars, wsVars>>

(* Faulty variant: nothing is kept for the new token.                      *)
SessionOnly(token, walletAddress, sig) ==
  /\ sessions' = Put(sessions, token,
       [wallet |-> walletAddress, expires |-> now + SESSION_DURATION])
  /\ UNCHANGED data

(* createSession and setSessionData, with the identity of the signature.   *)
OpenSession(token, walletAddress, sig) ==
  /\ sessions' = Put(sessions, token,
       [wallet |-> walletAddress, expires |-> now + SESSION_DURATION])
  /\ data' = Put(data, token, [identity |-> sig, node |-> Undefined])

(* Tokens are random: a new session never takes the token of another.      *)
FreshToken == Cardinality(DOMAIN data) + 1

(* Faulty variant: the nonce is checked, and not consumed.                 *)
LoginUnconsumed(sig, walletAddress, n) ==
  /\ verifyNonce(n)
  /\ sig.nonce = n /\ sig.wallet = walletAddress
  /\ FreshToken \in Tokens
  /\ OpenSession(FreshToken, walletAddress, sig)
  /\ UNCHANGED <<now, nonces, issued, nodes, stopping, wsVars>>

(* Faulty variant: the recovered address is not compared.                  *)
LoginUncompared(sig, walletAddress, n) ==
  /\ verifyNonce(n)
  /\ nonces' = [nonces EXCEPT ![n].used = TRUE]
  /\ OpenSession(FreshToken, walletAddress, sig)
  /\ UNCHANGED <<now, issued, nodes, stopping, wsVars>>

(* POST /api/auth/login: the handler has no await, so nothing comes        *)
(* between checking the nonce and consuming it.  Any signature a wallet    *)
(* may have made, for this nonce or another, is presented.                 *)
login(sig, walletAddress, n) ==
  /\ verifyNonce(n)
  /\ sig.nonce = n /\ sig.wallet = walletAddress
  /\ nonces' = [nonces EXCEPT ![n].used = TRUE]
  /\ OpenSession(FreshToken, walletAddress, sig)
  /\ UNCHANGED <<now, issued, nodes, stopping, wsVars>>

(* The timer of consumeNonce fires.                                        *)
DropConsumed(n) ==
  /\ n \in DOMAIN nonces /\ nonces[n].used
  /\ nonces' = Del(nonces, n)
  /\ UNCHANGED <<now, issued, sessions, nodeVars, wsVars>>

destroySession(token) == sessions' = Del(sessions, token)

(* POST /api/auth/logout: the node keeps running, the socket stays open.   *)
logout(token) ==
  /\ token \in DOMAIN sessions
  /\ destroySession(token)
  /\ UNCHANGED <<now, nonces, issued, nodeVars, wsVars>>

(* validateSession deletes an expired session it is asked about.           *)
ExpiredRequest(token) ==
  /\ token \in DOMAIN sessions
  /\ sessions[token].expires < now
  /\ destroySession(token)
  /\ UNCHANGED <<now, nonces, issued, nodeVars, wsVars>>

(* Faulty variant: the interval keeps what it should drop.                 *)
SweepNothing ==
  /\ \E t \in DOMAIN sessions : sessions[t].expires < now
  /\ UNCHANGED vars

(* The interval that drops expired sessions.                               *)
sweep ==
  LET expired == {t \in DOMAIN sessions : sessions[t].expires < now}
  IN  /\ expired # {}
      /\ sessions' = Restrict(sessions, DOMAIN sessions \ expired)
      /\ UNCHANGED <<now, nonces, issued, nodeVars, wsVars>>

-----------------------------------------------------------------------------
(* authMiddleware lets the request through.                                *)
validateSession(token) ==
  token \in DOMAIN sessions /\ sessions[token].expires >= now

(* POST /api/node/start up to the await of node.start.                     *)
nodeStart(token) ==
  /\ validateSession(token)
  /\ data[token].node \in NoNode
  /\ Cardinality(DOMAIN nodes) < MaxNodes
  /\ nodes' = Put(nodes, Cardinality(DOMAIN nodes) + 1,
       [token |-> token, identity |-> data[token].identity,
        status |-> "starting"])
  /\ UNCHANGED <<now, authVars, data, stopping, wsVars>>

(* Faulty variant: a started node renews its session.                      *)
RenewOnStart(n) ==
  /\ nodes[n].status = "starting"
  /\ nodes' = [nodes EXCEPT ![n].status = "running"]
  /\ data' = [data EXCEPT ![nodes[n].token].node = n]
  /\ sessions' = Put(sessions, nodes[n].token,
       [wallet |-> nodes[n].identity.wallet, expires |-> now + SESSION_DURATION])
  /\ UNCHANGED <<now, nonces, issued, stopping, wsVars>>

(* ... and after it: the session takes the node, whichever it had, and is  *)
(* not looked at again.                                                    *)
nodeStarted(n) ==
  /\ nodes[n].status = "starting"
  /\ nodes' = [nodes EXCEPT ![n].status = "running"]
  /\ data' = [data EXCEPT ![nodes[n].token].node = n]
  /\ UNCHANGED <<now, authVars, stopping, wsVars>>

nodeStartFails(n) ==
  /\ nodes[n].status = "starting"
  /\ nodes' = [nodes EXCEPT ![n].status = "stopped"]
  /\ UNCHANGED <<now, authVars, data, stopping, wsVars>>

(* POST /api/node/stop up to the await of node.stop.                       *)
nodeStop(token) ==
  /\ validateSession(token)
  /\ data[token].node \notin NoNode
  /\ stopping' = stopping \cup {[token |-> token, node |-> data[token].node]}
  /\ UNCHANGED <<now, authVars, data, nodes, wsVars>>

(* ... and after it.                                                       *)
nodeStopped(s) ==
  /\ s \in stopping
  /\ stopping' = stopping \ {s}
  /\ nodes' = [nodes EXCEPT ![s.node].status = "stopped"]
  /\ data' = [data EXCEPT ![s.token].node = Null]
  /\ UNCHANGED <<now, authVars, wsVars>>

(* node.stop rejects, in libp2p or when the database is closed: the        *)
(* session keeps the node.                                                 *)
nodeStopFails(s) ==
  /\ s \in stopping
  /\ stopping' = stopping \ {s}
  /\ nodes' = [nodes EXCEPT ![s.node].status = "stopped"] \/ UNCHANGED nodes
  /\ UNCHANGED <<now, authVars, data, wsVars>>

-----------------------------------------------------------------------------
(* A WebSocket connects with a token whose session has, or had, a node.    *)
wsConnect(ws, token) ==
  /\ ws \notin DOMAIN open
  /\ validateSession(token)
  /\ data[token].node # Undefined
  /\ open' = Put(open, ws, token)
  /\ wsClients' = Put(wsClients, token, ws)
  /\ UNCHANGED <<now, authVars, nodeVars>>

(* The session never had a node: undefined passes `node !== null', and     *)
(* node.node throws out of the listener.  Nothing in the repository        *)
(* catches that, so the process ends, and the one started next has none of *)
(* its nonces, sessions, nodes and sockets.  Nonces and tokens are random: *)
(* a nonce is not handed out again, and no record of the old tokens is     *)
(* left to tell their numbers from new ones.                               *)
wsConnectThrows(token) ==
  /\ validateSession(token)
  /\ data[token].node = Undefined
  /\ nonces' = <<>> /\ sessions' = <<>>
  /\ data' = <<>> /\ nodes' = <<>> /\ stopping' = {}
  /\ open' = <<>> /\ wsClients' = <<>>
  /\ UNCHANGED <<now, issued>>

(* It closes: its token's entry goes, whichever socket is in it.           *)
wsClose(ws) ==
  /\ ws \in DOMAIN open
  /\ open' = Del(open, ws)
  /\ wsClients' = Del(wsClients, open[ws])
  /\ UNCHANGED <<now, authVars, nodeVars>>

(* Faulty variant: the session token is not passed to broadcast.           *)
BroadcastToAll(n) == {ws \in Sockets : \E t \in DOMAIN wsClients : wsClients[t] = ws}

(* The sockets the onMessage handler of node n writes to: broadcast looks  *)
(* up the token the node was started with, and whether its socket is open. *)
broadcast(n) ==
  {ws \in DOMAIN open : nodes[n].token \in DOMAIN wsClients
                          /\ wsClients[nodes[n].token] = ws}

Tick ==
  /\ now < MaxTime
  /\ now' = now + 1
  /\ UNCHANGED <<authVars, nodeVars, wsVars>>

Next ==
  \/ generateNonce
  \/ \E n \in Nonces : LoginExpired(n)
  \/ \E sig \in Signatures, w \in Wallets, n \in Nonces : login(sig, w, n)
  \/ \E n \in Nonces : DropConsumed(n)
  \/ \E t \in Tokens : logout(t)
  \/ \E t \in Tokens : ExpiredRequest(t)
  \/ sweep
  \/ \E t \in Tokens : nodeStart(t)
  \/ \E n \in DOMAIN nodes : nodeStarted(n)
  \/ \E n \in DOMAIN nodes : nodeStartFails(n)
  \/ \E t \in Tokens : nodeStop(t)
  \/ \E s \in stopping : nodeStopped(s)
  \/ \E s \in stopping : nodeStopFails(s)
  \/ \E ws \in Sockets, t \in Tokens : wsConnect(ws, t)
  \/ \E t \in Tokens : wsConnectThrows(t)
  \/ \E ws \in Sockets : wsClose(ws)
  \/ Tick

Spec == Init /\ [][Next]_vars
FairSpec == Spec /\ WF_vars(sweep)

-----------------------------------------------------------------------------
TypeOK ==
  /\ now \in 0..MaxTime
  /\ DOMAIN nonces \subseteq 1..issued /\ issued \in 0..MaxNonces
  /\ DOMAIN sessions \subseteq DOMAIN data /\ DOMAIN data \subseteq Tokens
  /\ \A t \in DOMAIN data : data[t].identity \in Signatures
  /\ \A t \in DOMAIN data : data[t].node \in NoNode \cup DOMAIN nodes
  /\ \A n \in DOMAIN nodes : nodes[n].status \in {"starting", "running", "stopped"}
  /\ open \in UNION {[S -> Tokens] : S \in SUBSET Sockets}
  /\ wsClients \in UNION {[T -> Sockets] : T \in SUBSET Tokens}

(* A nonce authenticates once, whatever deletes its record afterwards: the *)
(* consumed-nonce timer, the cleanup of a later challenge or an expired    *)
(* login.                                                                  *)
NonceOnce ==
  \A t, u \in DOMAIN data :
    data[t].identity.nonce = data[u].identity.nonce => t = u

(* A session acts for the wallet that signed: the session record, the      *)
(* identity kept for its token and the node it runs agree.                 *)
SessionOwner ==
  \A t \in DOMAIN data :
    /\ t \in DOMAIN sessions => sessions[t].wallet = data[t].identity.wallet
    /\ data[t].node \notin NoNode => nodes[data[t].node].identity = data[t].identity

(* A socket only hears of mail for the identity of the login whose token   *)
(* it connected with: whichever nodes are running and whichever sockets    *)
(* replaced or closed one another, the node that notifies it has that      *)
(* identity.                                                               *)
NotifiedOwner ==
  \A n \in DOMAIN nodes : nodes[n].status = "running" =>
    \A ws \in broadcast(n) : data[open[ws]].identity = nodes[n].identity

(* A token that was logged out or has expired never comes back, though its *)
(* node and its data are still there.                                      *)
EndedStaysEnded ==
  [][\A t \in DOMAIN data \ DOMAIN sessions : t \notin DOMAIN sessions']_vars

(* Expired sessions do not pile up.                                        *)
Swept ==
  []<>(\A t \in DOMAIN sessions : sessions[t].expires >= now)
=============================================================================
