---------------------------- MODULE RatchetProofs ----------------------------
(***************************************************************************)
(* Proofs about RatchetSessions, for any number of messages, key pairs,    *)
(* replays and restarts and any MAX_SKIP: the types, that no key seals two *)
(* messages, forward secrecy, and that a message arriving for the first    *)
(* time decrypts, unless more than MAX_SKIP messages in a row before it    *)
(* have not been decrypted.                                                *)
(***************************************************************************)
EXTENDS RatchetSessions, TLAPS

(* A chain key: the outputs mixed into the root it was made from, and the  *)
(* steps of kdfCK since.                                                   *)
Chain == [root : Seq(SUBSET Nat), step : Nat]

(* The fields of a DoubleRatchetState that has these keys put aside.       *)
StateWith(skipped) ==
  [DHs : Nat, DHr : Nat, RK : Seq(SUBSET Nat), CKs : Chain, CKr : Chain,
   Ns : Nat, Nr : Nat, PN : Nat, MKSKIPPED : {skipped}]

(* A DoubleRatchetState: the keys put aside are chain keys, filed under    *)
(* the pair and the number of a message.                                   *)
IsState(s) ==
  /\ s \in StateWith(s.MKSKIPPED)
  /\ DOMAIN s.MKSKIPPED \subseteq Nat \X Nat
  /\ \A k \in DOMAIN s.MKSKIPPED : s.MKSKIPPED[k] \in Chain

(* What encrypt makes: the header, and the key that sealed it.             *)
Message == [from : Parties, dh : Nat, pn : Nat, n : Nat, key : Chain]

(* The types of a conversation and of its saved sessions; only what was    *)
(* sent is accepted or fails, and nothing but a party falls back.          *)
TypeOK ==
  /\ DOMAIN state = Parties /\ \A p \in Parties : IsState(state[p])
  /\ state = [p \in Parties |-> state[p]]
  /\ DOMAIN db = Parties /\ \A p \in Parties : IsState(db[p])
  /\ db = [p \in Parties |-> db[p]]
  /\ nextKey \in Nat /\ replays \in Nat /\ restarts \in Nat
  /\ sent \subseteq Message /\ accepted \subseteq sent /\ failed \subseteq sent
  /\ rolledBack \subseteq Parties

-----------------------------------------------------------------------------
(* k is the newest key pair among the outputs that made root: it is in the *)
(* last one, with an older pair.                                           *)
Newest(root, k) ==
  /\ root # <<>>
  /\ \E j \in 0..k - 1 : root[Len(root)] = {j, k}

(* A party's own pair was drawn, the pair it answers was drawn too, and    *)
(* its sending chain hangs on its own pair and counts its messages.        *)
KeysDrawn(s) ==
  /\ s.DHs \in 1..nextKey - 1 /\ s.DHr < nextKey
  /\ s.CKs # NoChain => Newest(s.CKs.root, s.DHs)
  /\ s.CKs.step = s.Ns

(* The same of every session in memory and on disk, and every message was  *)
(* sealed on a chain that hangs on the pair in its header.                 *)
AllDrawn ==
  /\ \A p \in Parties : KeysDrawn(state[p]) /\ KeysDrawn(db[p])
  /\ \A m \in sent : m.dh < nextKey /\ Newest(m.key.root, m.dh) /\ m.key.step = m.n

(* What a party that never fell back has sent: under its present pair,     *)
(* earlier messages of its present chain; under any one pair, one chain,   *)
(* and one message for each number.                                        *)
OwnChain(p) ==
  LET s == state[p] IN
  /\ \A m \in sent : m.from = p /\ m.dh = s.DHs =>
       m.n < s.Ns /\ m.pn = s.PN /\ m.key.root = s.CKs.root
  /\ \A m1, m2 \in sent : m1.from = p /\ m2.from = p /\ m1.dh = m2.dh =>
       m1.pn = m2.pn /\ m1.key.root = m2.key.root /\ (m1.n = m2.n => m1 = m2)

(* As long as nobody fell back, the two parties never send under the same  *)
(* pair.                                                                   *)
Apart ==
  /\ state[Alice].DHs # state[Bob].DHs
  /\ \A m \in sent : m.dh # state[Peer(m.from)].DHs
  /\ \A m1, m2 \in sent : m1.from # m2.from => m1.dh # m2.dh

(* The invariant from which KeysOnce follows.                              *)
KeysInv ==
  /\ AllDrawn
  /\ \A p \in Parties \ rolledBack : OwnChain(p)
  /\ rolledBack = {} => Apart

-----------------------------------------------------------------------------
(* The receiving side of a session: the receiving chain is no longer than  *)
(* the root, each key put aside is of this chain or of a shorter one, of   *)
(* this one only if it is behind it, and no chain was left under two       *)
(* pairs.                                                                  *)
Receiving(s) ==
  /\ Len(s.CKr.root) <= Len(s.RK)
  /\ s.CKr.step = s.Nr
  /\ \A k \in DOMAIN s.MKSKIPPED :
       /\ Len(s.MKSKIPPED[k].root) <= Len(s.CKr.root)
       /\ s.MKSKIPPED[k].step = k[2]
       /\ s.MKSKIPPED[k].root = s.CKr.root => k[1] = s.DHr /\ k[2] < s.Nr
  /\ \A k, l \in DOMAIN s.MKSKIPPED :
       s.MKSKIPPED[k].root = s.MKSKIPPED[l].root => k[1] = l[1]

(* A session has lost a key for good: it is not among those put aside, and *)
(* the receiving chain is longer or further.                               *)
Forgets(s, key) ==
  /\ Len(key.root) <= Len(s.CKr.root)
  /\ \A k \in DOMAIN s.MKSKIPPED : s.MKSKIPPED[k] # key
  /\ s.CKr.root = key.root => s.CKr.step > key.step

(* The invariant from which SecrecyKept follows: who did not fall back has *)
(* lost every key it has used.                                             *)
SecrecyInv ==
  \A p \in Parties \ rolledBack :
    /\ Receiving(state[p])
    /\ \A m \in accepted : m.from = Peer(p) => Forgets(state[p], m.key)

-----------------------------------------------------------------------------
(* The outputs mixed in when two parties have drawn j + 1 pairs in turn:   *)
(* of each pair with the next.                                             *)
Roots(j) == [n \in 1..j |-> {n, n + 1}]

(* The initiator draws the even pairs, the responder the odd ones.         *)
Draws(p, k) == k % 2 = IF p = Alice THEN 0 ELSE 1

(* A session of a conversation that only ever went forward: all its keys   *)
(* follow from the number of its own pair.                                 *)
InPlace(p, s) ==
  /\ Draws(p, s.DHs) /\ s.DHs > 0
  /\ s.DHr = s.DHs - 1
  /\ s.RK = Roots(s.DHs - 1)
  /\ s.CKs = [root |-> Roots(s.DHs - 1), step |-> s.Ns]
  /\ s.CKr = [root |-> Roots(s.DHs - 2), step |-> s.Nr]
  /\ s.DHs = 1 => s.Ns = 0
  /\ s.DHs <= 2 => s.Nr = 0

(* The pairs of the two parties are the last two drawn.                    *)
Adjacent ==
  \/ state[Alice].DHs = state[Bob].DHs + 1 /\ nextKey = state[Alice].DHs + 1
  \/ state[Bob].DHs = state[Alice].DHs + 1 /\ nextKey = state[Bob].DHs + 1

(* A message's key is that of its pair and number, and its sender has      *)
(* counted it.                                                             *)
Proper(m) ==
  LET s == state[m.from] IN
  /\ Draws(m.from, m.dh) /\ 1 < m.dh /\ m.dh <= s.DHs
  /\ m.key = [root |-> Roots(m.dh - 1), step |-> m.n]
  /\ m.dh = s.DHs => m.n < s.Ns /\ m.pn = s.PN
  /\ m.dh = s.DHs - 2 => m.n < s.PN

(* The session's receiving chain has passed the message.                   *)
Past(s, m) == m.dh < s.DHr \/ (m.dh = s.DHr /\ m.n < s.Nr)

(* The session has put aside the keys of exactly those waiting messages    *)
(* that its receiving chain has passed.                                    *)
Covers(s, waiting) ==
  \A m \in waiting :
    /\ Past(s, m) => /\ <<m.dh, m.n>> \in DOMAIN s.MKSKIPPED
                     /\ s.MKSKIPPED[<<m.dh, m.n>>] = m.key
    /\ <<m.dh, m.n>> \in DOMAIN s.MKSKIPPED => Past(s, m)

(* The messages to p that p has not opened.                                *)
Waiting(p) == {m \in sent : m.from = Peer(p) /\ m \notin accepted}

(* The session has not gone further than count messages of pair, the last  *)
(* pair it could have heard of.                                            *)
Within(s, pair, count) ==
  /\ s.DHr = pair => s.Nr <= count
  /\ \A k \in DOMAIN s.MKSKIPPED :
       k[1] <= pair /\ (k[1] = pair => k[2] < count)

(* p has sent the first count messages under this pair.                    *)
HasSent(p, pair, count) ==
  \A k \in 0 .. count - 1 :
    \E x \in sent : x.from = p /\ x.dh = pair /\ x.n = k

(* p has sent every message it has counted: of its present chain and the   *)
(* one before, and of the two that each of its messages tells of.          *)
Counted(p) ==
  /\ HasSent(p, state[p].DHs, state[p].Ns)
  /\ HasSent(p, state[p].DHs - 2, state[p].PN)
  /\ \A m \in sent : m.from = p =>
       HasSent(p, m.dh, m.n) /\ HasSent(p, m.dh - 2, m.pn)

(* The session's receiving chain has passed what it opened.                *)
Overtakes(s, opened) == \A m \in opened : Past(s, m)

(* The messages to p that p has opened.                                    *)
Opened(p) == {m \in accepted : m.from = Peer(p)}

(* The invariant of a conversation without replays in which nobody fell    *)
(* back: both sessions are in place, next to each other, hold the key of   *)
(* whatever is still under way and have passed what they opened, every     *)
(* message counted was sent, and nothing has failed to open.               *)
InStepInv ==
  /\ failed = {}
  /\ \A p \in Parties :
       /\ InPlace(p, state[p])
       /\ Covers(state[p], Waiting(p))
       /\ Within(state[p], state[Peer(p)].DHs, state[Peer(p)].Ns)
       /\ Counted(p) /\ Overtakes(state[p], Opened(p))
  /\ Adjacent
  /\ \A m \in sent : Proper(m)
  /\ \A m1, m2 \in sent : m1.from = m2.from =>
       /\ m1.dh = m2.dh => m1.pn = m2.pn /\ (m1.n = m2.n => m1 = m2)
       /\ m1.dh = m2.dh - 2 => m1.n < m2.pn

(* Replays and falls leave no obligation.                                  *)
StepInv == replays = 0 /\ rolledBack = {} => InStepInv

-----------------------------------------------------------------------------
(* skipMessageKeys has a chain to move, and moves it.                      *)
Moves(s, until) == s.CKr # NoChain /\ s.Nr < until

(* t is s after skipMessageKeys: the chain is at until, and the keys it    *)
(* went over are put aside.                                                *)
AfterSkip(s, until, t) ==
  /\ t.DHs = s.DHs /\ t.DHr = s.DHr /\ t.RK = s.RK /\ t.CKs = s.CKs
  /\ t.Ns = s.Ns /\ t.PN = s.PN
  /\ t.Nr = until
  /\ t.CKr = [root |-> s.CKr.root, step |-> s.CKr.step + (until - s.Nr)]
  /\ DOMAIN t.MKSKIPPED = DOMAIN s.MKSKIPPED \cup {s.DHr} \X (s.Nr .. until - 1)
  /\ \A k \in DOMAIN t.MKSKIPPED :
       t.MKSKIPPED[k] =
         IF k \in {s.DHr} \X (s.Nr .. until - 1)
         THEN [root |-> s.CKr.root, step |-> s.CKr.step + (k[2] - s.Nr)]
         ELSE s.MKSKIPPED[k]

(* t is s after dhRatchet with their pair k and the new pair fresh.        *)
AfterRatchet(s, k, fresh, t) ==
  /\ t.DHs = fresh /\ t.DHr = k
  /\ t.Ns = 0 /\ t.PN = s.Ns /\ t.Nr = 0
  /\ t.RK = Append(Append(s.RK, dh(s.DHs, k)), dh(fresh, k))
  /\ t.CKr = [root |-> Append(s.RK, dh(s.DHs, k)), step |-> 0]
  /\ t.CKs = [root |-> t.RK, step |-> 0]
  /\ t.MKSKIPPED = s.MKSKIPPED

(* The fields of a session have their types.                               *)
LEMMA Fields ==
  ASSUME NEW s, IsState(s)
  PROVE  /\ s.DHs \in Nat /\ s.DHr \in Nat /\ s.RK \in Seq(SUBSET Nat)
         /\ s.CKs \in Chain /\ s.CKr \in Chain
         /\ s.Ns \in Nat /\ s.Nr \in Nat /\ s.PN \in Nat
BY DEF IsState, StateWith

(* What skipMessageKeys does when it moves the chain.                      *)
LEMMA SkipMoves ==
  ASSUME NEW s, IsState(s), NEW until \in Nat, NEW t,
         t = skipMessageKeys(s, until), Moves(s, until)
  PROVE  IsState(t) /\ AfterSkip(s, until, t)
<1> DEFINE skipped == {s.DHr} \X (s.Nr .. until - 1)
           D == DOMAIN s.MKSKIPPED \cup skipped
           aside == [k \in D |-> IF k \in skipped
                                THEN [s.CKr EXCEPT !.step = @ + (k[2] - s.Nr)]
                                ELSE s.MKSKIPPED[k]]
           ck == [s.CKr EXCEPT !.step = @ + (until - s.Nr)]
<1>1. t = [s EXCEPT !.CKr = ck, !.Nr = until, !.MKSKIPPED = aside]
  <2>1. ~(s.CKr = NoChain \/ s.Nr >= until)
    BY DEF Moves, IsState, StateWith
  <2> QED BY <2>1 DEF skipMessageKeys
<1>2. /\ s.CKr \in Chain /\ s.Nr \in Nat /\ s.DHr \in Nat /\ s.Nr < until
      /\ s.CKr.step \in Nat
  BY DEF IsState, StateWith, Chain, Moves
<1>3. ck = [root |-> s.CKr.root, step |-> s.CKr.step + (until - s.Nr)]
  BY <1>2 DEF Chain
<1>4. \A k \in skipped :
        /\ k \in Nat \X Nat /\ k[2] \in s.Nr .. until - 1
        /\ [s.CKr EXCEPT !.step = @ + (k[2] - s.Nr)]
             = [root |-> s.CKr.root, step |-> s.CKr.step + (k[2] - s.Nr)]
  BY <1>2 DEF Chain
<1>5. /\ DOMAIN aside = D
      /\ \A k \in D : aside[k] =
           IF k \in skipped
           THEN [root |-> s.CKr.root, step |-> s.CKr.step + (k[2] - s.Nr)]
           ELSE s.MKSKIPPED[k]
  BY <1>4
<1>6. D \subseteq Nat \X Nat
  BY <1>4 DEF IsState, StateWith
<1>7. \A k \in D : aside[k] \in Chain
  <2>1. ASSUME NEW k \in skipped
        PROVE  [root |-> s.CKr.root, step |-> s.CKr.step + (k[2] - s.Nr)] \in Chain
    <3>1. s.CKr.step + (k[2] - s.Nr) \in Nat
      BY <1>2, <1>4
    <3> QED BY <1>2, <3>1 DEF Chain
  <2>2. ASSUME NEW k \in D, k \notin skipped
        PROVE  s.MKSKIPPED[k] \in Chain
    BY <2>2 DEF IsState, StateWith
  <2> HIDE DEF aside, skipped, D
  <2> QED BY <1>5, <2>1, <2>2
<1>8. ck \in Chain
  <2>1. s.CKr.step + (until - s.Nr) \in Nat
    BY <1>2
  <2> QED BY <1>2, <1>3, <2>1 DEF Chain
<1> HIDE DEF aside, ck, D
<1>9. /\ t.MKSKIPPED = aside /\ t.CKr = ck /\ t.Nr = until
      /\ t.DHs = s.DHs /\ t.DHr = s.DHr /\ t.RK = s.RK /\ t.CKs = s.CKs
      /\ t.Ns = s.Ns /\ t.PN = s.PN
      /\ t \in StateWith(t.MKSKIPPED)
  BY <1>1, <1>8 DEF IsState, StateWith
<1>10. IsState(t)
  BY <1>5, <1>6, <1>7, <1>9 DEF IsState, StateWith
<1> QED BY <1>3, <1>5, <1>9, <1>10 DEF D, AfterSkip

(* It does nothing without a chain, or when the chain is there already.    *)
LEMMA SkipStays ==
  ASSUME NEW s, IsState(s), NEW until \in Nat, ~Moves(s, until)
  PROVE  skipMessageKeys(s, until) = s
BY DEF skipMessageKeys, Moves, IsState, StateWith

(* What dhRatchet does: two root steps, a receiving chain of the first and *)
(* a sending chain of the second.                                          *)
LEMMA RatchetMoves ==
  ASSUME NEW s, IsState(s), NEW k \in Nat, NEW fresh \in Nat, NEW t,
         t = dhRatchet(s, k, fresh)
  PROVE  IsState(t) /\ AfterRatchet(s, k, fresh, t)
<1> DEFINE r1 == Append(s.RK, dh(s.DHs, k))
           r2 == Append(r1, dh(fresh, k))
           c1 == [root |-> r1, step |-> 0]
           c2 == [root |-> r2, step |-> 0]
<1>1. t = [s EXCEPT !.PN = s.Ns, !.Ns = 0, !.Nr = 0, !.DHr = k, !.DHs = fresh,
                    !.RK = r2, !.CKr = c1, !.CKs = c2]
  BY DEF dhRatchet, kdfRK
<1>2. r1 \in Seq(SUBSET Nat) /\ r2 \in Seq(SUBSET Nat)
  <2>1. dh(s.DHs, k) \in SUBSET Nat /\ dh(fresh, k) \in SUBSET Nat
    BY DEF dh, IsState, StateWith
  <2>2. s.RK \in Seq(SUBSET Nat)
    BY DEF IsState, StateWith
  <2> HIDE DEF dh
  <2> QED BY <2>1, <2>2
<1>3. c1 \in Chain /\ c2 \in Chain
  BY <1>2 DEF Chain
<1> HIDE DEF r2, c1, c2
<1>a. t = [DHs |-> fresh, DHr |-> k, RK |-> r2, CKs |-> c2, CKr |-> c1,
           Ns |-> 0, Nr |-> 0, PN |-> s.Ns, MKSKIPPED |-> s.MKSKIPPED]
  BY <1>1 DEF IsState, StateWith
<1>4. /\ t.DHs = fresh /\ t.DHr = k
      /\ t.Ns = 0 /\ t.PN = s.Ns /\ t.Nr = 0
      /\ t.RK = r2 /\ t.CKr = c1 /\ t.CKs = c2
      /\ t.MKSKIPPED = s.MKSKIPPED
      /\ t \in StateWith(t.MKSKIPPED)
  BY <1>a, <1>2, <1>3 DEF IsState, StateWith
<1> QED BY <1>4 DEF IsState, StateWith, r2, c1, c2, AfterRatchet

(* What the step of the receiving chain does after a message.              *)
LEMMA ReceiveMoves ==
  ASSUME NEW s, IsState(s), NEW t,
         t = [s EXCEPT !.CKr = kdfCK(@), !.Nr = @ + 1]
  PROVE  /\ IsState(t)
         /\ t.DHs = s.DHs /\ t.DHr = s.DHr /\ t.RK = s.RK /\ t.CKs = s.CKs
         /\ t.Ns = s.Ns /\ t.PN = s.PN /\ t.MKSKIPPED = s.MKSKIPPED
         /\ t.Nr = s.Nr + 1
         /\ t.CKr = [root |-> s.CKr.root, step |-> s.CKr.step + 1]
<1> DEFINE c == [root |-> s.CKr.root, step |-> s.CKr.step + 1]
<1>1. kdfCK(s.CKr) = c /\ c \in Chain
  BY DEF kdfCK, IsState, StateWith, Chain
<1>2. t = [s EXCEPT !.CKr = c, !.Nr = s.Nr + 1]
  BY <1>1
<1> HIDE DEF c
<1>a. t = [DHs |-> s.DHs, DHr |-> s.DHr, RK |-> s.RK, CKs |-> s.CKs, CKr |-> c,
           Ns |-> s.Ns, Nr |-> s.Nr + 1, PN |-> s.PN, MKSKIPPED |-> s.MKSKIPPED]
  BY <1>2 DEF IsState, StateWith
<1>3. /\ t.DHs = s.DHs /\ t.DHr = s.DHr /\ t.RK = s.RK /\ t.CKs = s.CKs
      /\ t.Ns = s.Ns /\ t.PN = s.PN /\ t.MKSKIPPED = s.MKSKIPPED
      /\ t.Nr = s.Nr + 1
      /\ t.CKr = c
      /\ t \in StateWith(t.MKSKIPPED)
  BY <1>1, <1>a DEF IsState, StateWith
<1> QED BY <1>3 DEF IsState, StateWith, c

(* What the deletion of keys put aside does.                               *)
LEMMA RemoveMoves ==
  ASSUME NEW s, IsState(s), NEW rest, NEW t, t = [s EXCEPT !.MKSKIPPED = rest],
         DOMAIN rest \subseteq DOMAIN s.MKSKIPPED,
         \A k \in DOMAIN rest : rest[k] = s.MKSKIPPED[k]
  PROVE  /\ IsState(t)
         /\ t.DHs = s.DHs /\ t.DHr = s.DHr /\ t.RK = s.RK /\ t.CKs = s.CKs
         /\ t.Ns = s.Ns /\ t.PN = s.PN /\ t.Nr = s.Nr /\ t.CKr = s.CKr
         /\ t.MKSKIPPED = rest
<1>3. /\ t.DHs = s.DHs /\ t.DHr = s.DHr /\ t.RK = s.RK /\ t.CKs = s.CKs
      /\ t.Ns = s.Ns /\ t.PN = s.PN /\ t.Nr = s.Nr /\ t.CKr = s.CKr
      /\ t.MKSKIPPED = rest
      /\ t \in StateWith(t.MKSKIPPED)
  BY DEF IsState, StateWith
<1> QED BY <1>3 DEF IsState

(* What the step of the sending chain does.                                *)
LEMMA EncryptMoves ==
  ASSUME NEW s, IsState(s), NEW t,
         t = [s EXCEPT !.CKs = kdfCK(@), !.Ns = @ + 1]
  PROVE  /\ IsState(t)
         /\ t.DHs = s.DHs /\ t.DHr = s.DHr /\ t.RK = s.RK /\ t.CKr = s.CKr
         /\ t.Nr = s.Nr /\ t.PN = s.PN /\ t.MKSKIPPED = s.MKSKIPPED
         /\ t.Ns = s.Ns + 1
         /\ t.CKs = [root |-> s.CKs.root, step |-> s.CKs.step + 1]
<1> DEFINE c == [root |-> s.CKs.root, step |-> s.CKs.step + 1]
<1>1. kdfCK(s.CKs) = c /\ c \in Chain
  BY DEF kdfCK, IsState, StateWith, Chain
<1>2. t = [s EXCEPT !.CKs = c, !.Ns = s.Ns + 1]
  BY <1>1
<1> HIDE DEF c
<1>3. t = [DHs |-> s.DHs, DHr |-> s.DHr, RK |-> s.RK, CKs |-> c, CKr |-> s.CKr,
           Ns |-> s.Ns + 1, Nr |-> s.Nr, PN |-> s.PN, MKSKIPPED |-> s.MKSKIPPED]
  BY <1>2 DEF IsState, StateWith
<1>4. /\ t.DHs = s.DHs /\ t.DHr = s.DHr /\ t.RK = s.RK /\ t.CKr = s.CKr
      /\ t.Nr = s.Nr /\ t.PN = s.PN /\ t.MKSKIPPED = s.MKSKIPPED
      /\ t.Ns = s.Ns + 1
      /\ t.CKs = c
      /\ t \in StateWith(t.MKSKIPPED)
  BY <1>1, <1>3 DEF IsState, StateWith
<1> QED BY <1>4 DEF IsState, StateWith, c

(* skipMessageKeys leaves the sending side and the root alone.             *)
LEMMA SkipKeeps ==
  ASSUME NEW s, IsState(s), NEW until \in Nat, NEW t, t = skipMessageKeys(s, until)
  PROVE  /\ IsState(t)
         /\ t.DHs = s.DHs /\ t.DHr = s.DHr /\ t.RK = s.RK /\ t.CKs = s.CKs
         /\ t.Ns = s.Ns /\ t.PN = s.PN
<1>1. CASE Moves(s, until)
  <2>1. IsState(t) /\ AfterSkip(s, until, t)
    BY <1>1, SkipMoves
  <2> QED BY <2>1 DEF AfterSkip
<1>2. CASE ~Moves(s, until)
  BY <1>2, SkipStays
<1> QED BY <1>1, <1>2

(* It makes a session of a session.                                        *)
LEMMA SkipType ==
  ASSUME NEW s, IsState(s), NEW until \in Nat
  PROVE  IsState(skipMessageKeys(s, until))
BY SkipMoves, SkipStays

(* What encrypt does to the one session it changes.                        *)
LEMMA Encrypts ==
  ASSUME TypeOK, NEW p \in Parties, encrypt(p)
  PROVE  \E t : /\ IsState(t)
               /\ state' = [state EXCEPT ![p] = t]
               /\ LET s == state[p] IN
                  /\ s.CKs # NoChain
                  /\ t.DHs = s.DHs /\ t.DHr = s.DHr /\ t.RK = s.RK
                  /\ t.CKr = s.CKr /\ t.Nr = s.Nr /\ t.PN = s.PN
                  /\ t.MKSKIPPED = s.MKSKIPPED
                  /\ t.Ns = s.Ns + 1
                  /\ t.CKs = [root |-> s.CKs.root, step |-> s.CKs.step + 1]
<1> DEFINE s == state[p]
           t == [s EXCEPT !.CKs = kdfCK(@), !.Ns = @ + 1]
<1>1. IsState(s)
  BY DEF TypeOK
<1>2. state' = [state EXCEPT ![p] = t]
  BY DEF encrypt
<1>3. s.CKs # NoChain
  BY DEF encrypt
<1> HIDE DEF s
<1>4. /\ IsState(t)
      /\ t.DHs = s.DHs /\ t.DHr = s.DHr /\ t.RK = s.RK
      /\ t.CKr = s.CKr /\ t.Nr = s.Nr /\ t.PN = s.PN
      /\ t.MKSKIPPED = s.MKSKIPPED
      /\ t.Ns = s.Ns + 1
      /\ t.CKs = [root |-> s.CKs.root, step |-> s.CKs.step + 1]
  BY <1>1, EncryptMoves
<1> HIDE DEF t
<1> QED BY <1>2, <1>3, <1>4 DEF s

(* The session decrypt goes on with: the rest of the old chain is put      *)
(* aside before the ratchet turns,                                         *)
Caught(s, m) == skipMessageKeys(s, m.pn)

(* ... the keys before the message are put aside,                          *)
Reached(s, m) == skipMessageKeys(Turned(s, m), m.n)

(* ... and the chain is moved behind the message.                          *)
Passed(s, m) == [Reached(s, m) EXCEPT !.CKr = kdfCK(@), !.Nr = @ + 1]

(* What decrypt does with a message whose key was not put aside: the       *)
(* session is left turned if too many keys would be skipped, else the AEAD *)
(* is tried and the chain is moved behind the message.                     *)
LEMMA Decrypts ==
  ASSUME TypeOK, NEW p \in Parties, NEW m \in sent, DecryptNext(p, m)
  PROVE  /\ m \in Message /\ IsState(state[p])
         /\ IsState(Caught(state[p], m)) /\ IsState(Turned(state[p], m))
         /\ IsState(Reached(state[p], m)) /\ IsState(Passed(state[p], m))
         /\ \/ /\ state' = [state EXCEPT ![p] = Turned(state[p], m)]
               /\ UNCHANGED <<accepted, failed>>
            \/ /\ state' = [state EXCEPT ![p] = Passed(state[p], m)]
               /\ Open(m, Reached(state[p], m).CKr)
         /\ nextKey' = IF m.dh # state[p].DHr THEN nextKey + 1 ELSE nextKey
         /\ <<m.dh, m.n>> \notin DOMAIN state[p].MKSKIPPED
         /\ m.from = Peer(p) /\ UNCHANGED sent
         /\ replays' = IF m \in accepted \cup failed THEN replays + 1 ELSE replays
<1> DEFINE s == state[p]
<1>1. m \in Message /\ IsState(s) /\ nextKey \in Nat
  BY DEF TypeOK
<1>2. /\ \/ /\ state' = [state EXCEPT ![p] = Turned(s, m)]
            /\ UNCHANGED <<accepted, failed>>
         \/ /\ state' = [state EXCEPT ![p] = Passed(s, m)]
            /\ Open(m, Reached(s, m).CKr)
      /\ nextKey' = IF m.dh # s.DHr THEN nextKey + 1 ELSE nextKey
      /\ <<m.dh, m.n>> \notin DOMAIN s.MKSKIPPED
      /\ m.from = Peer(p) /\ UNCHANGED sent
      /\ replays' = IF m \in accepted \cup failed THEN replays + 1 ELSE replays
  <2>1. /\ nextKey' = IF m.dh # s.DHr THEN nextKey + 1 ELSE nextKey
        /\ <<m.dh, m.n>> \notin DOMAIN s.MKSKIPPED
    BY Zenon DEF DecryptNext
  <2>2. /\ m.from = Peer(p) /\ UNCHANGED sent
        /\ replays' = IF m \in accepted \cup failed THEN replays + 1 ELSE replays
    BY Zenon DEF DecryptNext, Delivered
  <2>3. \/ /\ state' = [state EXCEPT ![p] = Turned(s, m)]
           /\ UNCHANGED <<accepted, failed>>
        \/ /\ state' = [state EXCEPT ![p] = Passed(s, m)]
           /\ Open(m, Reached(s, m).CKr)
    BY Zenon DEF DecryptNext, Caught, Turned, Reached, Passed
  <2> QED BY <2>1, <2>2, <2>3
<1> HIDE DEF s
<1>3. m.pn \in Nat /\ m.n \in Nat /\ m.dh \in Nat
  BY <1>1 DEF Message
<1>4. IsState(Caught(s, m))
  BY <1>1, <1>3, SkipType DEF Caught
<1>5. IsState(Turned(s, m))
  BY <1>1, <1>3, <1>4, RatchetMoves DEF Turned, Caught
<1>6. IsState(Reached(s, m))
  BY <1>3, <1>5, SkipType DEF Reached
<1>7. IsState(Passed(s, m))
  BY <1>6, ReceiveMoves DEF Passed
<1> QED BY <1>1, <1>2, <1>4, <1>5, <1>6, <1>7 DEF s

(* What decrypt does with a message whose key was put aside: that key      *)
(* goes.                                                                   *)
LEMMA Unskips ==
  ASSUME TypeOK, NEW p \in Parties, NEW m \in sent, DecryptSkipped(p, m)
  PROVE  \E t : /\ IsState(t)
               /\ state' = [state EXCEPT ![p] = t]
               /\ LET s == state[p] IN
                  /\ t.DHs = s.DHs /\ t.DHr = s.DHr /\ t.RK = s.RK /\ t.CKs = s.CKs
                  /\ t.Ns = s.Ns /\ t.PN = s.PN /\ t.Nr = s.Nr /\ t.CKr = s.CKr
                  /\ DOMAIN t.MKSKIPPED = DOMAIN s.MKSKIPPED \ {<<m.dh, m.n>>}
                  /\ \A k \in DOMAIN t.MKSKIPPED : t.MKSKIPPED[k] = s.MKSKIPPED[k]
<1> DEFINE s == state[p]
           x == <<m.dh, m.n>>
           rest == [k \in DOMAIN s.MKSKIPPED \ {x} |-> s.MKSKIPPED[k]]
           t == [s EXCEPT !.MKSKIPPED = rest]
<1>1. IsState(s)
  BY DEF TypeOK
<1>2. state' = [state EXCEPT ![p] = t]
  BY DEF DecryptSkipped
<1>3. /\ DOMAIN rest = DOMAIN s.MKSKIPPED \ {x}
      /\ \A k \in DOMAIN rest : rest[k] = s.MKSKIPPED[k]
  OBVIOUS
<1> HIDE DEF s, x, rest
<1>4. /\ IsState(t) /\ t.MKSKIPPED = rest
      /\ t.DHs = s.DHs /\ t.DHr = s.DHr /\ t.RK = s.RK /\ t.CKs = s.CKs
      /\ t.Ns = s.Ns /\ t.PN = s.PN /\ t.Nr = s.Nr /\ t.CKr = s.CKr
  BY <1>1, <1>3, RemoveMoves
<1> HIDE DEF t
<1> QED BY <1>2, <1>3, <1>4 DEF s, x

-----------------------------------------------------------------------------
(* Two sessions just made have their types.                                *)
LEMMA TypeInit == SessionInit => TypeOK
<1> SUFFICES ASSUME SessionInit
             PROVE  TypeOK
  OBVIOUS
<1>1. IsState(initAsInitiator)
  <2> DEFINE r == Append(<<>>, dh(2, 1))
             c == [root |-> r, step |-> 0]
  <2>1. initAsInitiator = [DHs |-> 2, DHr |-> 1, RK |-> r, CKs |-> c,
          CKr |-> NoChain, Ns |-> 0, Nr |-> 0, PN |-> 0, MKSKIPPED |-> <<>>]
    BY DEF initAsInitiator, kdfRK
  <2>2. r \in Seq(SUBSET Nat)
    <3>1. dh(2, 1) \in SUBSET Nat
      BY DEF dh
    <3> HIDE DEF dh
    <3> QED BY <3>1
  <2>3. c \in Chain /\ NoChain \in Chain
    BY <2>2 DEF Chain, NoChain
  <2> HIDE DEF r, c
  <2>4. initAsInitiator \in StateWith(<<>>) /\ initAsInitiator.MKSKIPPED = <<>>
    BY <2>1, <2>2, <2>3 DEF StateWith
  <2> QED BY <2>4 DEF IsState
<1>2. IsState(initAsResponder)
  <2>1. initAsResponder.MKSKIPPED = <<>>
    BY DEF initAsResponder
  <2>2. initAsResponder \in StateWith(<<>>)
    <3>1. NoChain \in Chain
      BY DEF NoChain, Chain
    <3> QED BY <3>1 DEF initAsResponder, StateWith, NoKey
  <2> QED BY <2>1, <2>2 DEF IsState
<1>3. state = [p \in Parties |-> state[p]] /\ \A p \in Parties : IsState(state[p])
  <2>1. state = [p \in Parties |->
                   IF p = Alice THEN initAsInitiator ELSE initAsResponder]
    BY DEF SessionInit, Init
  <2> QED BY <1>1, <1>2, <2>1
<1> QED BY <1>3 DEF SessionInit, Init, TypeOK

(* When one party's session changes, the other's does not.                 *)
LEMMA OneChanges ==
  ASSUME TypeOK, NEW p \in Parties, NEW t, IsState(t),
         state' = [state EXCEPT ![p] = t]
  PROVE  /\ DOMAIN state' = Parties /\ state'[p] = t
         /\ \A q \in Parties : q # p => state'[q] = state[q]
         /\ \A q \in Parties : IsState(state'[q])
         /\ state' = [q \in Parties |-> state'[q]]
<1>1. state = [q \in Parties |-> state[q]] /\ \A q \in Parties : IsState(state[q])
  BY DEF TypeOK
<1>2. /\ DOMAIN state' = Parties /\ state'[p] = t
      /\ \A q \in Parties : q # p => state'[q] = state[q]
      /\ state' = [q \in Parties |-> state'[q]]
  BY <1>1
<1> QED BY <1>1, <1>2

(* Every operation and every restart keeps the types.                      *)
LEMMA TypeStep == TypeOK /\ [SessionNext]_<<vars, sessionVars>> => TypeOK'
<1> SUFFICES ASSUME TypeOK, [SessionNext]_<<vars, sessionVars>>
             PROVE  TypeOK'
  OBVIOUS
<1>1. ASSUME NEW p \in Parties, encrypt(p), UNCHANGED sessionVars
      PROVE  TypeOK'
  <2>1. PICK t : IsState(t) /\ state' = [state EXCEPT ![p] = t]
    BY <1>1, Encrypts
  <2>2. sent' \subseteq Message
    <3> DEFINE s == state[p]
               m == [from |-> p, dh |-> s.DHs, pn |-> s.PN, n |-> s.Ns, key |-> s.CKs]
    <3>1. IsState(s)
      BY DEF TypeOK
    <3>2. m \in Message
      BY <3>1 DEF IsState, StateWith, Message
    <3>3. sent' = sent \cup {m}
      BY <1>1 DEF encrypt
    <3> HIDE DEF m
    <3> QED BY <3>2, <3>3 DEF TypeOK
  <2>3. UNCHANGED <<nextKey, accepted, failed, replays, db, restarts, rolledBack>>
    BY <1>1 DEF encrypt, sessionVars
  <2>4. sent \subseteq sent'
    BY <1>1 DEF encrypt
  <2> QED BY <2>1, <2>2, <2>3, <2>4, OneChanges DEF TypeOK
<1>2. ASSUME NEW p \in Parties, NEW m \in sent, DecryptSkipped(p, m),
             UNCHANGED sessionVars
      PROVE  TypeOK'
  <2>1. PICK t : IsState(t) /\ state' = [state EXCEPT ![p] = t]
    BY <1>2, Unskips
  <2>2. /\ UNCHANGED <<nextKey, sent, db, restarts, rolledBack>>
        /\ replays' \in {replays, replays + 1}
        /\ accepted' \subseteq accepted \cup {m} /\ failed' \subseteq failed \cup {m}
    BY <1>2 DEF DecryptSkipped, Delivered, Open, sessionVars
  <2> QED BY <2>1, <2>2, OneChanges DEF TypeOK
<1>3. ASSUME NEW p \in Parties, NEW m \in sent, DecryptNext(p, m),
             UNCHANGED sessionVars
      PROVE  TypeOK'
  <2>1. PICK t : IsState(t) /\ state' = [state EXCEPT ![p] = t]
    BY <1>3, Decrypts
  <2>2. /\ UNCHANGED <<sent, db, restarts, rolledBack>>
        /\ replays' \in {replays, replays + 1}
        /\ nextKey' \in {nextKey, nextKey + 1}
        /\ accepted' \subseteq accepted \cup {m} /\ failed' \subseteq failed \cup {m}
    BY <1>3, Decrypts DEF Open, sessionVars
  <2> QED BY <2>1, <2>2, OneChanges DEF TypeOK
<1>4. ASSUME NEW p \in Parties, saveSession(p)
      PROVE  TypeOK'
  BY <1>4 DEF saveSession, vars, TypeOK
<1>5. ASSUME NEW p \in Parties, getSession(p)
      PROVE  TypeOK'
  <2>1. IsState(db[p]) /\ state' = [state EXCEPT ![p] = db[p]]
    BY <1>5 DEF getSession, Restored, TypeOK
  <2>2. /\ UNCHANGED <<nextKey, sent, accepted, failed, replays, db>>
        /\ restarts' = restarts + 1 /\ rolledBack' \subseteq rolledBack \cup {p}
    BY <1>5 DEF getSession
  <2> QED BY <2>1, <2>2, OneChanges DEF TypeOK
<1>6. CASE UNCHANGED <<vars, sessionVars>>
  BY <1>6 DEF vars, sessionVars, TypeOK
<1> QED
  BY <1>1, <1>2, <1>3, <1>4, <1>5, <1>6
  DEF SessionNext, Encrypting, Decrypting, Storing

-----------------------------------------------------------------------------
(* A root has one newest pair.                                             *)
LEMMA NewestOnce ==
  ASSUME NEW root, NEW k \in Nat, NEW l \in Nat, Newest(root, k), Newest(root, l)
  PROVE  k = l
<1>1. PICK i \in 0..k - 1 : root[Len(root)] = {i, k}
  BY DEF Newest
<1>2. PICK j \in 0..l - 1 : root[Len(root)] = {j, l}
  BY DEF Newest
<1>3. {i, k} = {j, l} /\ i < k /\ j < l /\ i \in Nat /\ j \in Nat
  BY <1>1, <1>2, SMTT(40)
<1> QED BY <1>3

(* It is the pair the ratchet was turned with.                             *)
LEMMA NewestOfTurn ==
  ASSUME NEW r \in Seq(SUBSET Nat), NEW k \in Nat, NEW j \in Nat, j < k
  PROVE  Newest(Append(r, dh(k, j)), k)
<1> DEFINE x == dh(k, j)
           q == Append(r, x)
<1>1. x = {j, k} /\ x \in SUBSET Nat
  BY DEF dh
<1> HIDE DEF x
<1>2. Len(q) = Len(r) + 1 /\ q # <<>> /\ q[Len(q)] = x
  BY <1>1
<1>3. j \in 0..k - 1
  OBVIOUS
<1> HIDE DEF q
<1>4. Newest(q, k)
  BY <1>1, <1>2, <1>3 DEF Newest
<1> QED BY <1>4 DEF q, x

(* Two sessions just made have drawn their keys and sent nothing.          *)
LEMMA KeysInit == SessionInit => KeysInv
<1> SUFFICES ASSUME SessionInit
             PROVE  KeysInv
  OBVIOUS
<1>1. /\ nextKey = 3 /\ sent = {} /\ rolledBack = {} /\ db = state
      /\ state[Alice] = initAsInitiator /\ state[Bob] = initAsResponder
  BY RatchetAssumption DEF SessionInit, Init, Parties
<1>2. Newest(Append(<<>>, dh(2, 1)), 2)
  <2>1. <<>> \in Seq(SUBSET Nat)
    OBVIOUS
  <2>2. 1 \in Nat /\ 2 \in Nat /\ 1 < 2
    OBVIOUS
  <2> HIDE DEF Newest, dh
  <2> QED BY <2>1, <2>2, NewestOfTurn, Zenon
<1>3. /\ initAsInitiator.DHs = 2 /\ initAsInitiator.DHr = 1
      /\ initAsInitiator.CKs = [root |-> Append(<<>>, dh(2, 1)), step |-> 0]
      /\ initAsInitiator.Ns = 0
  BY DEF initAsInitiator, kdfRK
<1>4. /\ initAsResponder.DHs = 1 /\ initAsResponder.DHr = 0
      /\ initAsResponder.CKs = NoChain /\ initAsResponder.Ns = 0
  BY DEF initAsResponder, NoKey
<1>5. KeysDrawn(state[Alice]) /\ KeysDrawn(state[Bob])
  BY <1>1, <1>2, <1>3, <1>4 DEF KeysDrawn, NoChain
<1> QED
  BY <1>1, <1>3, <1>4, <1>5 DEF KeysInv, AllDrawn, OwnChain, Apart, Parties

(* A step that changes nothing about sending keeps the keys apart.         *)
LEMMA KeysAside ==
  ASSUME TypeOK, KeysInv, TypeOK', UNCHANGED <<nextKey, sent, rolledBack>>,
         \A q \in Parties :
           /\ state'[q].DHs = state[q].DHs /\ state'[q].DHr = state[q].DHr
           /\ state'[q].CKs = state[q].CKs
           /\ state'[q].Ns = state[q].Ns /\ state'[q].PN = state[q].PN
           /\ db'[q] = db[q] \/ db'[q] = state[q]
  PROVE  KeysInv'
<1>1. AllDrawn'
  <2>1. \A q \in Parties : KeysDrawn(state[q])' /\ KeysDrawn(db[q])'
    BY DEF KeysInv, AllDrawn, KeysDrawn
  <2> QED BY <2>1 DEF KeysInv, AllDrawn
<1>2. ASSUME NEW q \in Parties \ rolledBack
      PROVE  OwnChain(q)'
  BY DEF KeysInv, OwnChain
<1>3. ASSUME rolledBack = {}
      PROVE  Apart'
  <2>1. Apart
    BY <1>3 DEF KeysInv
  <2>2. \A m \in sent : Peer(m.from) \in Parties
    BY DEF Peer, Parties
  <2> QED BY <2>1, <2>2 DEF Apart, Parties
<1> QED BY <1>1, <1>2, <1>3 DEF KeysInv

(* A party that turns its ratchet draws a pair newer than every other key, *)
(* so its new chain is like no chain before it.                            *)
LEMMA KeysTurn ==
  ASSUME TypeOK, KeysInv, TypeOK', NEW p \in Parties,
         UNCHANGED <<sent, rolledBack, db>>, nextKey' = nextKey + 1,
         \A q \in Parties : q # p => state'[q] = state[q],
         NEW k \in 0..nextKey - 1, NEW r \in Seq(SUBSET Nat),
         state'[p].DHs = nextKey, state'[p].DHr = k, state'[p].Ns = 0,
         state'[p].CKs = [root |-> Append(r, dh(nextKey, k)), step |-> 0]
  PROVE  KeysInv'
<1>1. /\ nextKey \in Nat
      /\ \A q \in Parties : /\ state[q].DHs \in Nat /\ state[q].DHr \in Nat
                             /\ db[q].DHs \in Nat /\ db[q].DHr \in Nat
  BY Fields DEF TypeOK
<1>2. Newest(state'[p].CKs.root, nextKey)
  BY <1>1, NewestOfTurn
<1>3. AllDrawn'
  <2>1. \A q \in Parties : KeysDrawn(db[q])'
    BY <1>1 DEF KeysInv, AllDrawn, KeysDrawn
  <2>2. \A q \in Parties : q # p => KeysDrawn(state[q])'
    BY <1>1, SMTT(20) DEF KeysInv, AllDrawn, KeysDrawn
  <2>3. KeysDrawn(state[p])'
    <3>1. state'[p].DHs \in 1..nextKey' - 1
      BY <1>1 DEF KeysInv, AllDrawn, KeysDrawn
    <3>2. state'[p].DHr < nextKey' /\ state'[p].CKs.step = state'[p].Ns
      BY <1>1
    <3> QED BY <1>2, <3>1, <3>2 DEF KeysDrawn
  <2>4. \A m \in sent : m.dh < nextKey'
    BY <1>1 DEF KeysInv, AllDrawn, TypeOK, Message
  <2> QED BY <2>1, <2>2, <2>3, <2>4 DEF KeysInv, AllDrawn
<1>4. \A m \in sent : m.dh < nextKey /\ m.dh \in Nat
  BY DEF KeysInv, AllDrawn, TypeOK, Message
<1>5. ASSUME NEW q \in Parties \ rolledBack
      PROVE  OwnChain(q)'
  <2>1. OwnChain(q)
    BY DEF KeysInv
  <2>2. CASE q # p
    BY <2>1, <2>2 DEF OwnChain
  <2>3. CASE q = p
    BY <1>1, <1>4, <2>1, <2>3 DEF OwnChain
  <2> QED BY <2>2, <2>3
<1>6. ASSUME rolledBack = {}
      PROVE  Apart'
  <2>1. Apart
    BY <1>6 DEF KeysInv
  <2>2. \A q \in Parties : q # p => state'[q].DHs < nextKey /\ state[q].DHs \in Nat
    BY <1>1 DEF KeysInv, AllDrawn, KeysDrawn
  <2>3. state'[Alice].DHs # state'[Bob].DHs
    BY <1>1, <2>2, RatchetAssumption DEF Parties
  <2>4. \A m \in sent : m.dh # state'[Peer(m.from)].DHs
    BY <1>1, <1>4, <2>1 DEF Apart, Peer, Parties
  <2> QED BY <2>1, <2>3, <2>4 DEF Apart
<1> QED BY <1>3, <1>5, <1>6 DEF KeysInv

(* A message is numbered by its chain and sealed with the chain's key,     *)
(* which then moves on: no other message has that number or that key.      *)
LEMMA KeysEncrypt ==
  ASSUME TypeOK, KeysInv, TypeOK', NEW p \in Parties, encrypt(p),
         UNCHANGED sessionVars
  PROVE  KeysInv'
<1> DEFINE s == state[p]
           m == [from |-> p, dh |-> s.DHs, pn |-> s.PN, n |-> s.Ns, key |-> s.CKs]
<1>1. PICK t : /\ IsState(t) /\ state' = [state EXCEPT ![p] = t]
               /\ s.CKs # NoChain
               /\ t.DHs = s.DHs /\ t.DHr = s.DHr /\ t.PN = s.PN
               /\ t.Ns = s.Ns + 1
               /\ t.CKs = [root |-> s.CKs.root, step |-> s.CKs.step + 1]
  BY Encrypts
<1>2. state'[p] = t /\ \A q \in Parties : q # p => state'[q] = state[q]
  BY <1>1, OneChanges
<1>3. /\ sent' = sent \cup {m} /\ UNCHANGED <<nextKey, db, rolledBack>>
  BY DEF encrypt, sessionVars
<1>4. IsState(s) /\ KeysDrawn(s) /\ nextKey \in Nat
  BY DEF TypeOK, KeysInv, AllDrawn
<1>5. /\ m.from = p /\ m.dh = s.DHs /\ m.pn = s.PN /\ m.n = s.Ns /\ m.key = s.CKs
      /\ Newest(m.key.root, m.dh) /\ m.key.step = m.n /\ m.dh < nextKey
  BY <1>1, <1>4 DEF KeysDrawn, IsState, StateWith
<1>s. s.Ns \in Nat
  BY <1>4 DEF IsState, StateWith
<1> HIDE DEF s, m
<1>6. AllDrawn'
  <2>1. \A q \in Parties : KeysDrawn(db[q])'
    BY <1>3 DEF KeysInv, AllDrawn, KeysDrawn
  <2>2. \A q \in Parties : KeysDrawn(state[q])'
    BY <1>1, <1>2, <1>3, <1>4 DEF KeysInv, AllDrawn, KeysDrawn, s, NoChain
  <2>3. \A x \in sent' : x.dh < nextKey' /\ Newest(x.key.root, x.dh) /\ x.key.step = x.n
    BY <1>3, <1>5 DEF KeysInv, AllDrawn
  <2> QED BY <2>1, <2>2, <2>3 DEF AllDrawn
<1>7. ASSUME NEW q \in Parties \ rolledBack'
      PROVE  OwnChain(q)'
  <2>1. OwnChain(q)
    BY <1>3 DEF KeysInv
  <2>2. CASE q # p
    BY <1>2, <1>3, <1>5, <2>1, <2>2 DEF OwnChain
  <2>3. CASE q = p
    <3>1. \A x \in sent : x.from = p /\ x.dh = s.DHs =>
            x.n < s.Ns /\ x.pn = s.PN /\ x.key.root = s.CKs.root /\ x.n \in Nat
      BY <2>1, <2>3 DEF OwnChain, s, TypeOK, Message
    <3>2. \A x \in sent' : x.from = p /\ x.dh = t.DHs =>
            x.n < t.Ns /\ x.pn = t.PN /\ x.key.root = t.CKs.root
      BY <1>1, <1>3, <1>5, <1>s, <3>1
    <3>3. \A x, y \in sent' : x.from = p /\ y.from = p /\ x.dh = y.dh =>
            x.pn = y.pn /\ x.key.root = y.key.root /\ (x.n = y.n => x = y)
      <4>1. \A x, y \in sent : x.from = p /\ y.from = p /\ x.dh = y.dh =>
              x.pn = y.pn /\ x.key.root = y.key.root /\ (x.n = y.n => x = y)
        BY <2>1, <2>3 DEF OwnChain
      <4> QED BY <1>3, <1>5, <1>s, <3>1, <4>1
    <3> QED BY <1>2, <2>3, <3>2, <3>3 DEF OwnChain
  <2> QED BY <2>2, <2>3
<1>8. ASSUME rolledBack' = {}
      PROVE  Apart'
  <2>1. Apart
    BY <1>3, <1>8 DEF KeysInv
  <2>2. \A q \in Parties : state'[q].DHs = state[q].DHs
    BY <1>1, <1>2 DEF s
  <2>3. \A x \in sent : x.from \in Parties /\ Peer(x.from) \in Parties
    BY DEF Peer, Parties, TypeOK, Message
  <2>4. state[p].DHs # state[Peer(p)].DHs /\ Peer(p) \in Parties
    BY <2>1, RatchetAssumption DEF Apart, Peer, Parties
  <2>5. \A x \in sent : x.from # p => Peer(x.from) = p
    BY <2>3, RatchetAssumption DEF Peer, Parties
  <2>6. \A x \in sent' : x.dh # state[Peer(x.from)].DHs
    BY <1>3, <1>5, <2>1, <2>4 DEF Apart, s
  <2>7. \A x, y \in sent' : x.from # y.from => x.dh # y.dh
    BY <1>3, <1>5, <2>1, <2>5 DEF Apart, s
  <2>8. \A x \in sent' : Peer(x.from) \in Parties
    BY <1>3, <1>5, <2>3, <2>4
  <2> QED BY <2>1, <2>2, <2>6, <2>7, <2>8 DEF Apart, Parties
<1> QED BY <1>6, <1>7, <1>8 DEF KeysInv

(* Of the sending side decrypt changes nothing, or it turns the ratchet.   *)
LEMMA TurnOnly ==
  ASSUME TypeOK, NEW p \in Parties, NEW m \in sent, DecryptNext(p, m)
  PROVE  LET s == state[p] u == Turned(s, m) IN
         /\ u = s \/ /\ u.DHs = nextKey /\ u.DHr = m.dh /\ u.Ns = 0
                     /\ \E r \in Seq(SUBSET Nat) :
                          u.CKs = [root |-> Append(r, dh(nextKey, m.dh)), step |-> 0]
         /\ \A t \in {Reached(s, m), Passed(s, m)} :
              /\ t.DHs = u.DHs /\ t.DHr = u.DHr /\ t.CKs = u.CKs
              /\ t.Ns = u.Ns /\ t.PN = u.PN
         /\ (m.dh = s.DHr) => u = s
         /\ (m.dh # s.DHr) => u.DHs = nextKey
<1> DEFINE s == state[p]
           c == Caught(s, m)
           u == Turned(s, m)
           v == Reached(s, m)
           w == Passed(s, m)
<1>1. /\ m \in Message /\ IsState(s) /\ IsState(c) /\ IsState(u) /\ IsState(v)
  BY Decrypts
<1>2. m.dh \in Nat /\ m.n \in Nat /\ nextKey \in Nat
  BY <1>1 DEF Message, TypeOK
<1> HIDE DEF s
<1>3. CASE m.dh = s.DHr
  <2>1. u = s
    BY <1>3 DEF Turned
  <2> QED
    <3> HIDE DEF u
    <3>1. v = u \/ /\ v.DHs = u.DHs /\ v.DHr = u.DHr /\ v.CKs = u.CKs
                   /\ v.Ns = u.Ns /\ v.PN = u.PN
      BY <1>1, <1>2, SkipKeeps, SMTT(40) DEF Reached, u, v
    <3> HIDE DEF v
    <3>2. w.DHs = v.DHs /\ w.DHr = v.DHr /\ w.CKs = v.CKs /\ w.Ns = v.Ns /\ w.PN = v.PN
      BY <1>1, ReceiveMoves DEF Passed, v
    <3> QED BY <1>3, <2>1, <3>1, <3>2 DEF s, u, v
<1>4. CASE m.dh # s.DHr
  <2>1. u = dhRatchet(c, m.dh, nextKey)
    BY <1>4 DEF Turned, Caught
  <2> HIDE DEF c, u
  <2>2. /\ u.DHs = nextKey /\ u.DHr = m.dh /\ u.Ns = 0
        /\ u.RK = Append(Append(c.RK, dh(c.DHs, m.dh)), dh(nextKey, m.dh))
        /\ u.CKs = [root |-> u.RK, step |-> 0]
    <3>1. AfterRatchet(c, m.dh, nextKey, u)
      BY <1>1, <1>2, <2>1, RatchetMoves
    <3> QED BY <3>1 DEF AfterRatchet
  <2>3. Append(c.RK, dh(c.DHs, m.dh)) \in Seq(SUBSET Nat)
    <3>1. dh(c.DHs, m.dh) \in SUBSET Nat /\ c.RK \in Seq(SUBSET Nat)
      BY <1>1, <1>2 DEF dh, IsState, StateWith
    <3> HIDE DEF dh
    <3> QED BY <3>1
  <2>4. v = u \/ /\ v.DHs = u.DHs /\ v.DHr = u.DHr /\ v.CKs = u.CKs
                 /\ v.Ns = u.Ns /\ v.PN = u.PN
    BY <1>1, <1>2, SkipKeeps, SMTT(40) DEF Reached, u, v
  <2> HIDE DEF v
  <2>5. w.DHs = v.DHs /\ w.DHr = v.DHr /\ w.CKs = v.CKs /\ w.Ns = v.Ns /\ w.PN = v.PN
    BY <1>1, ReceiveMoves DEF Passed, v
  <2>6. \E r \in Seq(SUBSET Nat) :
          u.CKs = [root |-> Append(r, dh(nextKey, m.dh)), step |-> 0]
    BY <2>2, <2>3
  <2> HIDE DEF w
  <2> QED BY <1>4, <2>2, <2>4, <2>5, <2>6 DEF s, u, v, w
<1> QED BY <1>3, <1>4

(* Every step keeps the keys apart: a restart from an old save marks the   *)
(* party as rolled back.                                                   *)
LEMMA KeysStep ==
  TypeOK /\ KeysInv /\ [SessionNext]_<<vars, sessionVars>> => KeysInv'
<1> SUFFICES ASSUME TypeOK, KeysInv, [SessionNext]_<<vars, sessionVars>>
             PROVE  KeysInv'
  OBVIOUS
<1>0. TypeOK'
  BY TypeStep
<1>1. ASSUME NEW p \in Parties, encrypt(p), UNCHANGED sessionVars
      PROVE  KeysInv'
  BY <1>0, <1>1, KeysEncrypt
<1>2. ASSUME NEW p \in Parties, NEW m \in sent, DecryptSkipped(p, m),
             UNCHANGED sessionVars
      PROVE  KeysInv'
  <2>1. PICK t : /\ IsState(t) /\ state' = [state EXCEPT ![p] = t]
                 /\ t.DHs = state[p].DHs /\ t.DHr = state[p].DHr
                 /\ t.CKs = state[p].CKs
                 /\ t.Ns = state[p].Ns /\ t.PN = state[p].PN
    BY <1>2, Unskips
  <2>2. state'[p] = t /\ \A q \in Parties : q # p => state'[q] = state[q]
    BY <2>1, OneChanges
  <2>3. UNCHANGED <<nextKey, sent, db, rolledBack>>
    BY <1>2 DEF DecryptSkipped, Delivered, sessionVars
  <2> QED BY <1>0, <2>1, <2>2, <2>3, KeysAside
<1>3. ASSUME NEW p \in Parties, NEW m \in sent, DecryptNext(p, m),
             UNCHANGED sessionVars
      PROVE  KeysInv'
  <2> DEFINE s == state[p]
             u == Turned(s, m)
  <2>1. /\ IsState(u) /\ IsState(Passed(s, m))
        /\ state' = [state EXCEPT ![p] = u] \/ state' = [state EXCEPT ![p] = Passed(s, m)]
        /\ nextKey' = IF m.dh # s.DHr THEN nextKey + 1 ELSE nextKey
        /\ UNCHANGED sent
    BY <1>3, Decrypts
  <2>2. /\ u = s \/ /\ u.DHs = nextKey /\ u.DHr = m.dh /\ u.Ns = 0
                    /\ \E r \in Seq(SUBSET Nat) :
                         u.CKs = [root |-> Append(r, dh(nextKey, m.dh)), step |-> 0]
        /\ \A t \in {Reached(s, m), Passed(s, m)} :
              /\ t.DHs = u.DHs /\ t.DHr = u.DHr /\ t.CKs = u.CKs
              /\ t.Ns = u.Ns /\ t.PN = u.PN
        /\ (m.dh = s.DHr) => u = s
        /\ (m.dh # s.DHr) => u.DHs = nextKey
    BY <1>3, TurnOnly, Zenon
  <2>3. PICK t : IsState(t) /\ state' = [state EXCEPT ![p] = t] /\ t \in {u, Passed(s, m)}
    BY <2>1
  <2>4. state'[p] = t /\ \A q \in Parties : q # p => state'[q] = state[q]
    BY <2>3, OneChanges
  <2>5. UNCHANGED <<db, rolledBack>>
    BY <1>3 DEF sessionVars
  <2>6. t.DHs = u.DHs /\ t.DHr = u.DHr /\ t.CKs = u.CKs /\ t.Ns = u.Ns /\ t.PN = u.PN
    BY <2>2, <2>3
  <2>7. s.DHs < nextKey /\ m.dh \in 0..nextKey - 1 /\ nextKey \in Nat /\ s.DHs \in Nat
    <3>1. s.DHs \in Nat /\ m.dh \in Nat /\ nextKey \in Nat
      BY Fields DEF TypeOK, Message
    <3> QED BY <3>1 DEF KeysInv, AllDrawn, KeysDrawn
  <2> HIDE DEF u, s
  <2>8. CASE m.dh = s.DHr
    BY <1>0, <2>1, <2>2, <2>4, <2>5, <2>6, <2>8, KeysAside DEF s
  <2>9. CASE m.dh # s.DHr
    <3>1. u # s
      BY <2>2, <2>7, <2>9
    <3>2. PICK r \in Seq(SUBSET Nat) :
            u.CKs = [root |-> Append(r, dh(nextKey, m.dh)), step |-> 0]
      BY <2>2, <3>1
    <3>3. nextKey' = nextKey + 1
      BY <2>1, <2>9
    <3>4. u.DHs = nextKey /\ u.DHr = m.dh /\ u.Ns = 0
      BY <2>2, <3>1
    <3> HIDE DEF Newest
    <3> QED BY <1>0, <2>1, <2>4, <2>5, <2>6, <2>7, <3>2, <3>3, <3>4, KeysTurn
  <2> QED BY <2>8, <2>9
<1>4. ASSUME NEW p \in Parties, saveSession(p)
      PROVE  KeysInv'
  <2>1. UNCHANGED vars /\ UNCHANGED rolledBack
        /\ db' = [db EXCEPT ![p] = state[p]]
    BY <1>4 DEF saveSession
  <2>2. \A q \in Parties : db'[q] = db[q] \/ db'[q] = state[q]
    BY <2>1 DEF TypeOK
  <2> QED BY <1>0, <2>1, <2>2, KeysAside DEF vars
<1>5. ASSUME NEW p \in Parties, getSession(p)
      PROVE  KeysInv'
  <2>1. IsState(db[p]) /\ state' = [state EXCEPT ![p] = db[p]]
    BY <1>5 DEF getSession, Restored, TypeOK
  <2>2. state'[p] = db[p] /\ \A q \in Parties : q # p => state'[q] = state[q]
    BY <2>1, OneChanges
  <2>3. UNCHANGED <<nextKey, sent, db>>
    BY <1>5 DEF getSession
  <2>4. CASE db[p] = state[p]
    <3>1. UNCHANGED rolledBack
      BY <1>5, <2>4 DEF getSession
    <3> QED BY <1>0, <2>2, <2>3, <2>4, <3>1, KeysAside
  <2>5. CASE db[p] # state[p]
    <3>1. rolledBack' = rolledBack \cup {p}
      BY <1>5, <2>5 DEF getSession
    <3>2. AllDrawn'
      BY <2>2, <2>3 DEF KeysInv, AllDrawn, KeysDrawn
    <3>3. ASSUME NEW q \in Parties \ rolledBack'
          PROVE  OwnChain(q)'
      BY <2>2, <2>3, <3>1 DEF KeysInv, OwnChain
    <3> QED BY <3>1, <3>2, <3>3 DEF KeysInv
  <2> QED BY <2>4, <2>5
<1>6. CASE UNCHANGED <<vars, sessionVars>>
  BY <1>0, <1>6, KeysAside DEF vars, sessionVars
<1> QED
  BY <1>1, <1>2, <1>3, <1>4, <1>5, <1>6
  DEF SessionNext, Encrypting, Decrypting, Storing

(* Messages sealed with the same key were sent under the same pair, so by  *)
(* the same party, with the same number: they are the same message.        *)
LEMMA KeysFollow == TypeOK /\ KeysInv => KeysOnce
<1> SUFFICES ASSUME TypeOK, KeysInv, NEW m1 \in sent, NEW m2 \in sent,
                    m1.key = m2.key, {m1.from, m2.from} \cap rolledBack = {}
             PROVE  m1 = m2
  BY DEF KeysOnce
<1>1. m1.dh \in Nat /\ m2.dh \in Nat /\ m1.from \in Parties /\ m2.from \in Parties
  BY DEF TypeOK, Message
<1>2. m1.dh = m2.dh /\ m1.n = m2.n
  <2>1. Newest(m1.key.root, m1.dh) /\ Newest(m2.key.root, m2.dh)
        /\ m1.key.step = m1.n /\ m2.key.step = m2.n
    BY DEF KeysInv, AllDrawn
  <2> QED BY <1>1, <2>1, NewestOnce
<1>3. CASE m1.from = m2.from
  <2>1. m1.from \in Parties \ rolledBack
    BY <1>1
  <2>2. OwnChain(m1.from)
    BY <2>1 DEF KeysInv
  <2> QED BY <1>2, <1>3, <2>2 DEF OwnChain
<1>4. CASE m1.from # m2.from
  <2>1. rolledBack = {}
    BY <1>1, <1>4 DEF TypeOK, Parties
  <2> QED BY <1>2, <1>4, <2>1 DEF KeysInv, Apart
<1> QED BY <1>3, <1>4

(* The sessions of encrypt, decrypt, saveSession and getSession keep their *)
(* types, for any bounds and any MAX_SKIP.                                 *)
THEOREM RatchetTypeCorrect == SessionSpec => []TypeOK
BY TypeInit, TypeStep, PTL DEF SessionSpec

(* No key of double-ratchet.js seals two messages, for any number of       *)
(* messages, turns, replays and restarts, unless its party went on from a  *)
(* state it had left.                                                      *)
THEOREM KeysSealOnce == SessionSpec => []KeysOnce
<1>1. SessionSpec => [](TypeOK /\ KeysInv)
  BY TypeInit, TypeStep, KeysInit, KeysStep, PTL DEF SessionSpec
<1> QED BY <1>1, KeysFollow, PTL

-----------------------------------------------------------------------------
(* From s to t a session loses no ground: what it has forgotten it does    *)
(* not learn again.                                                        *)
Onward(s, t) ==
  Receiving(s) =>
    Receiving(t) /\ \A key \in Chain : Forgets(s, key) => Forgets(t, key)

(* A session whose receiving side is unchanged goes on.                    *)
LEMMA OnwardSame ==
  ASSUME NEW s, NEW t, t.RK = s.RK, t.CKr = s.CKr, t.Nr = s.Nr, t.DHr = s.DHr,
         t.MKSKIPPED = s.MKSKIPPED
  PROVE  Onward(s, t)
BY DEF Onward, Receiving, Forgets

(* Going on twice is going on.                                             *)
LEMMA OnwardTwice ==
  ASSUME NEW r, NEW s, NEW t, Onward(r, s), Onward(s, t)
  PROVE  Onward(r, t)
BY DEF Onward

(* skipMessageKeys only puts aside keys that the chain still had.          *)
LEMMA OnwardSkip ==
  ASSUME NEW s, IsState(s), NEW until \in Nat, NEW t, t = skipMessageKeys(s, until)
  PROVE  Onward(s, t)
<1>1. CASE ~Moves(s, until)
  <2>1. t = s
    BY <1>1, SkipStays
  <2> QED BY <2>1, OnwardSame
<1>2. CASE Moves(s, until)
  <2> DEFINE new == {s.DHr} \X (s.Nr .. until - 1)
             D == DOMAIN s.MKSKIPPED
  <2>1. IsState(t) /\ AfterSkip(s, until, t)
    BY <1>2, SkipMoves
  <2>2. /\ s.Nr \in Nat /\ s.CKr.step \in Nat /\ s.DHr \in Nat /\ s.Nr < until
        /\ \A k \in D : k[2] \in Nat
    <3>1. s.CKr.step \in Nat
      BY Fields DEF Chain
    <3>2. D \subseteq Nat \X Nat
      BY DEF IsState
    <3> QED BY <1>2, <3>1, <3>2, Fields DEF Moves
  <2>3. /\ t.RK = s.RK /\ t.DHr = s.DHr /\ t.Nr = until
        /\ t.CKr.root = s.CKr.root /\ t.CKr.step = s.CKr.step + (until - s.Nr)
        /\ DOMAIN t.MKSKIPPED = D \cup new
    BY <2>1 DEF AfterSkip
  <2>4. \A k \in new :
          /\ k[1] = s.DHr /\ k[2] \in Nat /\ s.Nr <= k[2] /\ k[2] < until
          /\ t.MKSKIPPED[k].root = s.CKr.root
          /\ t.MKSKIPPED[k].step = s.CKr.step + (k[2] - s.Nr)
    <3> SUFFICES ASSUME NEW k \in new
                 PROVE  /\ k[1] = s.DHr /\ k[2] \in Nat /\ s.Nr <= k[2] /\ k[2] < until
                        /\ t.MKSKIPPED[k].root = s.CKr.root
                        /\ t.MKSKIPPED[k].step = s.CKr.step + (k[2] - s.Nr)
      OBVIOUS
    <3>1. k[1] = s.DHr /\ k[2] \in s.Nr .. until - 1
      OBVIOUS
    <3>2. t.MKSKIPPED[k] = [root |-> s.CKr.root, step |-> s.CKr.step + (k[2] - s.Nr)]
      <4>1. k \in DOMAIN t.MKSKIPPED
        BY <2>3
      <4> QED BY <2>1, <4>1 DEF AfterSkip
    <3> HIDE DEF new
    <3> QED BY <2>2, <3>1, <3>2
  <2>5. \A k \in D \ new : t.MKSKIPPED[k] = s.MKSKIPPED[k]
    BY <2>1 DEF AfterSkip
  <2> HIDE DEF new, D
  <2>6. ASSUME Receiving(s)
        PROVE  Receiving(t)
    <3>1. /\ Len(s.CKr.root) <= Len(s.RK) /\ s.CKr.step = s.Nr
          /\ \A k \in D :
               /\ Len(s.MKSKIPPED[k].root) <= Len(s.CKr.root)
               /\ s.MKSKIPPED[k].step = k[2]
               /\ s.MKSKIPPED[k].root = s.CKr.root => k[1] = s.DHr /\ k[2] < s.Nr
          /\ \A k, l \in D : s.MKSKIPPED[k].root = s.MKSKIPPED[l].root => k[1] = l[1]
      BY <2>6 DEF Receiving, D
    <3>2. Len(s.CKr.root) \in Nat
      BY Fields DEF Chain
    <3>3. t.CKr.step = t.Nr
      BY <2>2, <2>3, <3>1
    <3>4. \A k \in D \cup new :
            /\ Len(t.MKSKIPPED[k].root) <= Len(t.CKr.root)
            /\ t.MKSKIPPED[k].step = k[2]
            /\ t.MKSKIPPED[k].root = t.CKr.root => k[1] = t.DHr /\ k[2] < t.Nr
      BY <2>2, <2>3, <2>4, <2>5, <3>1, <3>2
    <3>5. \A k, l \in D \cup new :
            t.MKSKIPPED[k].root = t.MKSKIPPED[l].root => k[1] = l[1]
      <4>1. \A k \in new : k[1] = s.DHr /\ t.MKSKIPPED[k].root = s.CKr.root
        BY <2>4
      <4>2. \A k \in D \ new :
              /\ t.MKSKIPPED[k] = s.MKSKIPPED[k]
              /\ t.MKSKIPPED[k].root = s.CKr.root => k[1] = s.DHr
        BY <2>5, <3>1
      <4>3. \A k, l \in D \ new :
              t.MKSKIPPED[k].root = t.MKSKIPPED[l].root => k[1] = l[1]
        BY <4>2, <3>1
      <4> QED BY <4>1, <4>2, <4>3
    <3> QED BY <2>3, <3>1, <3>3, <3>4, <3>5 DEF Receiving
  <2>7. ASSUME Receiving(s), NEW key \in Chain, Forgets(s, key)
        PROVE  Forgets(t, key)
    <3>1. /\ Len(key.root) <= Len(s.CKr.root)
          /\ \A k \in D : s.MKSKIPPED[k] # key
          /\ s.CKr.root = key.root => s.CKr.step > key.step
          /\ key.step \in Nat /\ s.CKr.step = s.Nr
      BY <2>7 DEF Forgets, Receiving, D, Chain
    <3>2. \A k \in D \cup new : t.MKSKIPPED[k] # key
      BY <2>2, <2>4, <2>5, <3>1
    <3>3. t.CKr.root = key.root => t.CKr.step > key.step
      BY <2>2, <2>3, <3>1
    <3> QED BY <2>3, <3>1, <3>2, <3>3 DEF Forgets
  <2> QED BY <2>6, <2>7 DEF Onward
<1> QED BY <1>1, <1>2

(* dhRatchet starts a chain longer than any before: no key that was        *)
(* forgotten is on it.                                                     *)
LEMMA OnwardRatchet ==
  ASSUME NEW s, IsState(s), NEW k \in Nat, NEW fresh \in Nat, NEW t,
         t = dhRatchet(s, k, fresh)
  PROVE  Onward(s, t)
<1>1. AfterRatchet(s, k, fresh, t)
  BY RatchetMoves
<1> DEFINE x == dh(s.DHs, k)
           y == dh(fresh, k)
<1>2. s.RK \in Seq(SUBSET Nat) /\ s.CKr.root \in Seq(SUBSET Nat)
  BY Fields DEF Chain
<1>3. x \in SUBSET Nat /\ y \in SUBSET Nat
  BY Fields DEF dh
<1>4. /\ t.RK = Append(Append(s.RK, x), y) /\ t.CKr.root = Append(s.RK, x)
      /\ t.CKr.step = 0 /\ t.Nr = 0 /\ t.DHr = k /\ t.MKSKIPPED = s.MKSKIPPED
  BY <1>1 DEF AfterRatchet
<1> HIDE DEF x, y
<1>5. /\ Len(t.CKr.root) = Len(s.RK) + 1 /\ Len(t.RK) = Len(s.RK) + 2
      /\ Len(s.RK) \in Nat /\ Len(s.CKr.root) \in Nat
  BY <1>2, <1>3, <1>4
<1>6. \A i \in DOMAIN s.MKSKIPPED : Len(s.MKSKIPPED[i].root) \in Nat
  BY DEF IsState, Chain
<1>7. ASSUME Receiving(s)
      PROVE  Receiving(t)
  BY <1>4, <1>5, <1>6, <1>7, SMTT(60) DEF Receiving
<1>8. ASSUME Receiving(s), NEW key \in Chain, Forgets(s, key)
      PROVE  Forgets(t, key)
  <2>1. Len(key.root) \in Nat
    BY DEF Chain
  <2> QED BY <1>4, <1>5, <1>8, <2>1 DEF Receiving, Forgets
<1> QED BY <1>7, <1>8 DEF Onward

(* The step of the receiving chain goes on, and forgets the key it stepped *)
(* from.                                                                   *)
LEMMA OnwardReceive ==
  ASSUME NEW s, IsState(s), NEW t,
         t = [s EXCEPT !.CKr = kdfCK(@), !.Nr = @ + 1]
  PROVE  /\ Onward(s, t)
         /\ Receiving(s) => Forgets(t, s.CKr)
<1>1. /\ t.RK = s.RK /\ t.DHr = s.DHr /\ t.MKSKIPPED = s.MKSKIPPED
      /\ t.Nr = s.Nr + 1 /\ t.CKr.root = s.CKr.root /\ t.CKr.step = s.CKr.step + 1
  <2>1. /\ t.RK = s.RK /\ t.DHr = s.DHr /\ t.MKSKIPPED = s.MKSKIPPED
        /\ t.Nr = s.Nr + 1
        /\ t.CKr = [root |-> s.CKr.root, step |-> s.CKr.step + 1]
    BY ReceiveMoves
  <2> QED BY <2>1
<1>2. /\ s.CKr.step \in Nat /\ s.Nr \in Nat /\ Len(s.CKr.root) \in Nat
      /\ \A k \in DOMAIN s.MKSKIPPED : k[2] \in Nat
  <2>1. DOMAIN s.MKSKIPPED \subseteq Nat \X Nat
    BY DEF IsState
  <2> QED BY <2>1, Fields DEF Chain
<1>3. ASSUME Receiving(s)
      PROVE  Receiving(t)
  BY <1>1, <1>2, <1>3 DEF Receiving
<1>4. ASSUME Receiving(s), NEW key \in Chain, Forgets(s, key)
      PROVE  Forgets(t, key)
  <2>1. key.step \in Nat
    BY DEF Chain
  <2> QED BY <1>1, <1>2, <1>4, <2>1 DEF Forgets
<1>5. ASSUME Receiving(s)
      PROVE  Forgets(t, s.CKr)
  BY <1>1, <1>2, <1>5 DEF Forgets, Receiving
<1> QED BY <1>3, <1>4, <1>5 DEF Onward

(* The deletion of a key put aside goes on, and forgets that key.          *)
LEMMA OnwardRemove ==
  ASSUME NEW s, IsState(s), NEW x \in DOMAIN s.MKSKIPPED, NEW t,
         t.RK = s.RK, t.Nr = s.Nr, t.CKr = s.CKr, t.DHr = s.DHr,
         DOMAIN t.MKSKIPPED = DOMAIN s.MKSKIPPED \ {x},
         \A k \in DOMAIN t.MKSKIPPED : t.MKSKIPPED[k] = s.MKSKIPPED[k]
  PROVE  /\ Onward(s, t)
         /\ Receiving(s) => Forgets(t, s.MKSKIPPED[x])
<1>1. Onward(s, t)
  BY DEF Onward, Receiving, Forgets
<1>2. ASSUME Receiving(s)
      PROVE  Forgets(t, s.MKSKIPPED[x])
  <2>1. DOMAIN s.MKSKIPPED \subseteq Nat \X Nat
    BY DEF IsState
  <2>2. \A k, l \in Nat \X Nat : k[1] = l[1] /\ k[2] = l[2] => k = l
    OBVIOUS
  <2>3. \A k \in DOMAIN t.MKSKIPPED : t.MKSKIPPED[k] # s.MKSKIPPED[x]
    BY <1>2, <2>1, <2>2 DEF Receiving
  <2>4. s.CKr.step \in Nat /\ x[2] \in Nat
    BY <2>1, Fields DEF Chain
  <2>5. /\ Len(s.MKSKIPPED[x].root) <= Len(s.CKr.root)
        /\ s.CKr.root = s.MKSKIPPED[x].root => s.CKr.step > s.MKSKIPPED[x].step
    BY <1>2, <2>4 DEF Receiving
  <2> QED BY <2>3, <2>5 DEF Forgets
<1> QED BY <1>1, <1>2

(* Whoever takes a step is the only one that may open a message, one sent  *)
(* to it, and goes on.                                                     *)
LEMMA SecrecyOne ==
  ASSUME TypeOK, SecrecyInv, NEW p \in Parties, NEW t, UNCHANGED rolledBack,
         state'[p] = t, \A q \in Parties : q # p => state'[q] = state[q],
         Onward(state[p], t),
         NEW m \in sent, m.from = Peer(p),
         accepted' = accepted \/
           (accepted' = accepted \cup {m} /\ (Receiving(state[p]) => Forgets(t, m.key)))
  PROVE  SecrecyInv'
<1>1. \A q \in Parties : Peer(q) = Peer(p) => q = p
  BY RatchetAssumption DEF Peer, Parties
<1>2. \A x \in accepted : x.key \in Chain
  BY DEF TypeOK, Message
<1> SUFFICES ASSUME NEW q \in Parties \ rolledBack
             PROVE  /\ Receiving(state'[q])
                    /\ \A x \in accepted' : x.from = Peer(q) => Forgets(state'[q], x.key)
  BY DEF SecrecyInv
<1>3. /\ Receiving(state[q])
      /\ \A x \in accepted : x.from = Peer(q) => Forgets(state[q], x.key)
  BY DEF SecrecyInv
<1>4. CASE q = p
  BY <1>2, <1>3, <1>4 DEF Onward
<1>5. CASE q # p
  BY <1>1, <1>3, <1>5
<1> QED BY <1>4, <1>5

(* A step that leaves the receiving side of those who have not fallen back *)
(* alone keeps their secrets.                                              *)
LEMMA SecrecyAside ==
  ASSUME TypeOK, SecrecyInv, rolledBack \subseteq rolledBack', UNCHANGED accepted,
         \A q \in Parties \ rolledBack' :
           /\ state'[q].RK = state[q].RK /\ state'[q].CKr = state[q].CKr
           /\ state'[q].Nr = state[q].Nr /\ state'[q].DHr = state[q].DHr
           /\ state'[q].MKSKIPPED = state[q].MKSKIPPED
  PROVE  SecrecyInv'
<1>1. ASSUME NEW q \in Parties \ rolledBack'
      PROVE  /\ Receiving(state'[q])
             /\ \A x \in accepted : x.from = Peer(q) => Forgets(state'[q], x.key)
  <2>1. Onward(state[q], state'[q])
    BY OnwardSame
  <2>2. /\ Receiving(state[q])
        /\ \A x \in accepted : x.from = Peer(q) => Forgets(state[q], x.key)
    BY DEF SecrecyInv
  <2>3. \A x \in accepted : x.key \in Chain
    BY DEF TypeOK, Message
  <2> QED BY <2>1, <2>2, <2>3 DEF Onward
<1> QED BY <1>1 DEF SecrecyInv

(* At the start nothing has been decrypted.                                *)
LEMMA SecrecyInit == SessionInit => SecrecyInv
<1> SUFFICES ASSUME SessionInit
             PROVE  SecrecyInv
  OBVIOUS
<1>1. /\ accepted = {}
      /\ state[Alice] = initAsInitiator /\ state[Bob] = initAsResponder
  BY RatchetAssumption DEF SessionInit, Init, Parties
<1>2. Receiving(initAsInitiator)
  <2>1. /\ initAsInitiator.CKr = NoChain /\ initAsInitiator.Nr = 0
        /\ initAsInitiator.MKSKIPPED = <<>>
        /\ initAsInitiator.RK = Append(<<>>, dh(2, 1))
    BY DEF initAsInitiator, kdfRK
  <2>2. Len(Append(<<>>, dh(2, 1))) = 1
    <3>1. <<>> \in Seq(SUBSET Nat) /\ dh(2, 1) \in SUBSET Nat
      BY DEF dh
    <3> HIDE DEF dh
    <3> QED BY <3>1
  <2> QED BY <2>1, <2>2 DEF Receiving, NoChain
<1>3. Receiving(initAsResponder)
  BY DEF initAsResponder, Receiving, NoChain
<1> QED BY <1>1, <1>2, <1>3 DEF SecrecyInv, Parties

(* Every step keeps secret what was forgotten.                             *)
LEMMA SecrecyStep ==
  TypeOK /\ SecrecyInv /\ [SessionNext]_<<vars, sessionVars>> => SecrecyInv'
<1> SUFFICES ASSUME TypeOK, SecrecyInv, [SessionNext]_<<vars, sessionVars>>
             PROVE  SecrecyInv'
  OBVIOUS
<1>1. ASSUME NEW p \in Parties, encrypt(p), UNCHANGED sessionVars
      PROVE  SecrecyInv'
  <2>1. PICK t : /\ IsState(t) /\ state' = [state EXCEPT ![p] = t]
                 /\ t.RK = state[p].RK /\ t.CKr = state[p].CKr /\ t.Nr = state[p].Nr
                 /\ t.DHr = state[p].DHr /\ t.MKSKIPPED = state[p].MKSKIPPED
    BY <1>1, Encrypts
  <2>2. state'[p] = t /\ \A q \in Parties : q # p => state'[q] = state[q]
    BY <2>1, OneChanges
  <2>3. UNCHANGED <<accepted, rolledBack>>
    BY <1>1 DEF encrypt, sessionVars
  <2> QED BY <2>1, <2>2, <2>3, SecrecyAside
<1>2. ASSUME NEW p \in Parties, NEW m \in sent, DecryptSkipped(p, m),
             UNCHANGED sessionVars
      PROVE  SecrecyInv'
  <2> DEFINE s == state[p]
             x == <<m.dh, m.n>>
  <2>1. PICK t : /\ IsState(t) /\ state' = [state EXCEPT ![p] = t]
                 /\ t.RK = s.RK /\ t.Nr = s.Nr /\ t.CKr = s.CKr /\ t.DHr = s.DHr
                 /\ DOMAIN t.MKSKIPPED = DOMAIN s.MKSKIPPED \ {x}
                 /\ \A k \in DOMAIN t.MKSKIPPED : t.MKSKIPPED[k] = s.MKSKIPPED[k]
    BY <1>2, Unskips
  <2>2. state'[p] = t /\ \A q \in Parties : q # p => state'[q] = state[q]
    BY <2>1, OneChanges
  <2>3. /\ x \in DOMAIN s.MKSKIPPED /\ m.from = Peer(p)
        /\ accepted' = accepted \/ (accepted' = accepted \cup {m} /\ s.MKSKIPPED[x] = m.key)
    BY <1>2 DEF DecryptSkipped, Delivered, Open
  <2>4. UNCHANGED rolledBack /\ IsState(s)
    BY <1>2 DEF sessionVars, TypeOK
  <2> HIDE DEF s, x
  <2>5. Onward(s, t) /\ (Receiving(s) => Forgets(t, s.MKSKIPPED[x]))
    BY <2>1, <2>3, <2>4, OnwardRemove
  <2> QED BY <2>2, <2>3, <2>4, <2>5, SecrecyOne DEF s
<1>3. ASSUME NEW p \in Parties, NEW m \in sent, DecryptNext(p, m),
             UNCHANGED sessionVars
      PROVE  SecrecyInv'
  <2> DEFINE s == state[p]
             c == Caught(s, m)
             u == Turned(s, m)
             v == Reached(s, m)
             w == Passed(s, m)
  <2>1. /\ m \in Message /\ IsState(s) /\ IsState(c) /\ IsState(u) /\ IsState(v) /\ IsState(w)
        /\ m.from = Peer(p)
        /\ \/ (state' = [state EXCEPT ![p] = u] /\ UNCHANGED accepted)
           \/ /\ state' = [state EXCEPT ![p] = w]
              /\ Open(m, v.CKr)
    BY <1>3, Decrypts
  <2>2. m.dh \in Nat /\ m.n \in Nat /\ m.pn \in Nat /\ nextKey \in Nat
    BY <2>1 DEF Message, TypeOK
  <2> HIDE DEF s
  <2>3. Onward(s, c)
    BY <2>1, <2>2, OnwardSkip DEF Caught
  <2>4. Onward(s, u)
    <3>1. CASE m.dh = s.DHr
      BY <3>1, OnwardSame DEF Turned
    <3>2. CASE m.dh # s.DHr
      <4>1. u = dhRatchet(c, m.dh, nextKey)
        BY <3>2 DEF Turned, Caught
      <4> HIDE DEF c, u
      <4>2. Onward(c, u)
        BY <2>1, <2>2, <4>1, OnwardRatchet
      <4> QED BY <2>3, <4>2, OnwardTwice
    <3> QED BY <3>1, <3>2
  <2>5. v = skipMessageKeys(u, m.n)
    BY DEF Reached
  <2>6. w = [v EXCEPT !.CKr = kdfCK(@), !.Nr = @ + 1]
    BY DEF Passed
  <2> HIDE DEF c, u, v, w
  <2>7. Onward(u, v)
    BY <2>1, <2>2, <2>5, OnwardSkip
  <2>8. Onward(v, w) /\ (Receiving(v) => Forgets(w, v.CKr))
    BY <2>1, <2>6, OnwardReceive
  <2>9. Onward(s, w) /\ (Receiving(s) => Forgets(w, v.CKr))
    <3>1. Onward(s, v)
      BY <2>4, <2>7, OnwardTwice
    <3>2. Receiving(s) => Receiving(v)
      BY <3>1 DEF Onward
    <3> QED BY <2>8, <3>1, <3>2, OnwardTwice
  <2>10. UNCHANGED rolledBack
    BY <1>3 DEF sessionVars
  <2>11. CASE state' = [state EXCEPT ![p] = u] /\ UNCHANGED accepted
    <3>1. state'[p] = u /\ \A q \in Parties : q # p => state'[q] = state[q]
      BY <2>1, <2>11, OneChanges
    <3> QED BY <2>1, <2>4, <2>10, <2>11, <3>1, SecrecyOne DEF s
  <2>12. CASE state' = [state EXCEPT ![p] = w] /\ Open(m, v.CKr)
    <3>1. state'[p] = w /\ \A q \in Parties : q # p => state'[q] = state[q]
      BY <2>1, <2>12, OneChanges
    <3>2. accepted' = accepted \/ (accepted' = accepted \cup {m} /\ v.CKr = m.key)
      BY <2>12 DEF Open
    <3> QED BY <2>1, <2>9, <2>10, <3>1, <3>2, SecrecyOne DEF s
  <2> QED BY <2>1, <2>11, <2>12
<1>4. ASSUME NEW p \in Parties, saveSession(p)
      PROVE  SecrecyInv'
  <2>1. UNCHANGED <<state, accepted, rolledBack>>
    BY <1>4 DEF saveSession, vars
  <2> QED BY <2>1, SecrecyAside
<1>5. ASSUME NEW p \in Parties, getSession(p)
      PROVE  SecrecyInv'
  <2>1. IsState(db[p]) /\ state' = [state EXCEPT ![p] = db[p]]
    BY <1>5 DEF getSession, Restored, TypeOK
  <2>2. state'[p] = db[p] /\ \A q \in Parties : q # p => state'[q] = state[q]
    BY <2>1, OneChanges
  <2>3. /\ UNCHANGED accepted /\ rolledBack \subseteq rolledBack'
        /\ p \notin rolledBack' => db[p] = state[p]
    BY <1>5 DEF getSession
  <2> QED BY <2>2, <2>3, SecrecyAside
<1>6. CASE UNCHANGED <<vars, sessionVars>>
  BY <1>6, SecrecyAside DEF vars, sessionVars
<1> QED
  BY <1>1, <1>2, <1>3, <1>4, <1>5, <1>6
  DEF SessionNext, Encrypting, Decrypting, Storing

(* A key that was forgotten is not put aside, nor ahead on the chain.      *)
LEMMA SecrecyFollows == TypeOK /\ SecrecyInv => SecrecyKept
<1> SUFFICES ASSUME TypeOK, SecrecyInv, NEW m \in accepted,
                    Peer(m.from) \notin rolledBack
             PROVE  LET s == state[Peer(m.from)] IN
                    /\ \A k \in DOMAIN s.MKSKIPPED : s.MKSKIPPED[k] # m.key
                    /\ ~(s.CKr.root = m.key.root /\ s.CKr.step <= m.key.step)
  BY DEF SecrecyKept
<1>1. m.from \in Parties /\ m.key \in Chain
  BY DEF TypeOK, Message
<1>2. Peer(m.from) \in Parties /\ m.from = Peer(Peer(m.from))
  BY <1>1, RatchetAssumption DEF Peer, Parties
<1>3. Forgets(state[Peer(m.from)], m.key)
  BY <1>2 DEF SecrecyInv
<1>4. m.key.step \in Nat /\ state[Peer(m.from)].CKr.step \in Nat
  BY <1>1, <1>2, Fields DEF TypeOK, Chain
<1> QED BY <1>3, <1>4 DEF Forgets

(* Forward secrecy: a party that did not fall back cannot derive again the *)
(* key of a message it decrypted, for any order of messages, losses,       *)
(* replays and restarts.                                                   *)
THEOREM SecretsForgotten == SessionSpec => []SecrecyKept
<1>1. SessionSpec => [](TypeOK /\ SecrecyInv)
  BY TypeInit, TypeStep, SecrecyInit, SecrecyStep, PTL DEF SessionSpec
<1> QED BY <1>1, SecrecyFollows, PTL

-----------------------------------------------------------------------------
(* The next pair adds one output to the root.                              *)
LEMMA RootsGrow ==
  ASSUME NEW j \in Nat
  PROVE  /\ Roots(j) \in Seq(SUBSET Nat)
         /\ Append(Roots(j), {j + 1, j + 2}) = Roots(j + 1)
         /\ Roots(j + 1) # <<>>
<1>1. \A n \in 1..j + 1 : {n, n + 1} \in SUBSET Nat
  OBVIOUS
<1>2. Roots(j) \in Seq(SUBSET Nat) /\ Len(Roots(j)) = j
  BY <1>1 DEF Roots
<1>3. Append(Roots(j), {j + 1, j + 2}) = Roots(j + 1)
  BY <1>2 DEF Roots
<1>4. Len(Roots(j + 1)) = j + 1
  BY <1>1 DEF Roots
<1> QED BY <1>2, <1>3, <1>4

(* There is no output before the second pair.                              *)
LEMMA RootsEmpty == Roots(0) = <<>> /\ Roots(-1) = <<>>
BY DEF Roots

(* skipMessageKeys puts aside the keys of the waiting messages it goes     *)
(* over.                                                                   *)
LEMMA CoverSkip ==
  ASSUME NEW s, IsState(s), NEW until \in Nat, NEW t, t = skipMessageKeys(s, until),
         NEW waiting, waiting \subseteq Message, s.CKr.step = s.Nr, Covers(s, waiting),
         \A m \in waiting : m.dh = s.DHr => m.key = [root |-> s.CKr.root, step |-> m.n]
  PROVE  Covers(t, waiting)
<1>1. CASE ~Moves(s, until)
  BY <1>1, SkipStays
<1>2. CASE Moves(s, until)
  <2> DEFINE new == {s.DHr} \X (s.Nr .. until - 1)
  <2>1. AfterSkip(s, until, t)
    BY <1>2, SkipMoves
  <2>2. s.Nr \in Nat /\ s.CKr.step \in Nat /\ s.DHr \in Nat /\ s.Nr < until
    BY <1>2, Fields DEF Moves, Chain
  <2>3. /\ t.DHr = s.DHr /\ t.Nr = until
        /\ DOMAIN t.MKSKIPPED = DOMAIN s.MKSKIPPED \cup new
    BY <2>1 DEF AfterSkip
  <2> SUFFICES ASSUME NEW m \in waiting
               PROVE  /\ Past(t, m) => /\ <<m.dh, m.n>> \in DOMAIN t.MKSKIPPED
                                       /\ t.MKSKIPPED[<<m.dh, m.n>>] = m.key
                      /\ <<m.dh, m.n>> \in DOMAIN t.MKSKIPPED => Past(t, m)
    BY DEF Covers
  <2> DEFINE x == <<m.dh, m.n>>
  <2>4. m.dh \in Nat /\ m.n \in Nat
    BY DEF Message
  <2>5. x \in new <=> m.dh = s.DHr /\ s.Nr <= m.n /\ m.n < until
    BY <2>2, <2>4
  <2>6. /\ Past(s, m) => x \in DOMAIN s.MKSKIPPED /\ s.MKSKIPPED[x] = m.key
        /\ x \in DOMAIN s.MKSKIPPED => Past(s, m)
    BY DEF Covers
  <2>7. CASE x \in new
    <3>1. t.MKSKIPPED[x] = [root |-> s.CKr.root, step |-> s.CKr.step + (x[2] - s.Nr)]
      BY <2>1, <2>3, <2>7 DEF AfterSkip
    <3>2. x[2] = m.n /\ s.CKr.step + (x[2] - s.Nr) = m.n
      BY <2>2, <2>4
    <3>3. t.MKSKIPPED[x] = m.key
      BY <2>5, <2>7, <3>1, <3>2
    <3> QED BY <2>3, <2>5, <2>7, <3>3 DEF Past
  <2>8. CASE x \notin new
    <3>1. x \in DOMAIN t.MKSKIPPED =>
            x \in DOMAIN s.MKSKIPPED /\ t.MKSKIPPED[x] = s.MKSKIPPED[x]
      BY <2>1, <2>3, <2>8 DEF AfterSkip
    <3>2. Past(t, m) <=> Past(s, m)
      BY <2>2, <2>3, <2>4, <2>5, <2>8 DEF Past
    <3> HIDE DEF x, new
    <3>3. x \in DOMAIN s.MKSKIPPED => x \in DOMAIN t.MKSKIPPED
      BY <2>3
    <3> QED BY <2>6, <3>1, <3>2, <3>3 DEF x
  <2> QED BY <2>7, <2>8
<1> QED BY <1>1, <1>2

(* A turn of the ratchet passes no waiting message that was not covered.   *)
LEMMA CoverTurn ==
  ASSUME NEW s, NEW t, NEW waiting, waiting \subseteq Message, Covers(s, waiting),
         s.DHr \in Nat, s.Nr \in Nat, t.DHr \in Nat, s.DHr < t.DHr, t.Nr = 0,
         t.MKSKIPPED = s.MKSKIPPED,
         \A m \in waiting : Past(s, m) \/ m.dh >= t.DHr
  PROVE  Covers(t, waiting)
<1> SUFFICES ASSUME NEW m \in waiting
             PROVE  Past(t, m) <=> Past(s, m)
  BY DEF Covers
<1>1. m.dh \in Nat /\ m.n \in Nat
  BY DEF Message
<1> QED BY <1>1 DEF Past

(* The step of the receiving chain passes the message it opens and no      *)
(* other.                                                                  *)
LEMMA CoverReceive ==
  ASSUME NEW s, NEW t, NEW waiting, waiting \subseteq Message, Covers(s, waiting),
         s.DHr \in Nat, s.Nr \in Nat, t.DHr = s.DHr, t.Nr = s.Nr + 1,
         t.MKSKIPPED = s.MKSKIPPED,
         \A m \in waiting : ~(m.dh = s.DHr /\ m.n = s.Nr)
  PROVE  Covers(t, waiting)
<1> SUFFICES ASSUME NEW m \in waiting
             PROVE  Past(t, m) <=> Past(s, m)
  BY DEF Covers
<1>1. m.dh \in Nat /\ m.n \in Nat
  BY DEF Message
<1> QED BY <1>1 DEF Past

(* skipMessageKeys goes no further than it is told.                        *)
LEMMA WithinSkip ==
  ASSUME NEW s, IsState(s), NEW until \in Nat, NEW t, t = skipMessageKeys(s, until),
         NEW pair \in Nat, NEW count \in Nat, Within(s, pair, count),
         s.DHr <= pair, s.DHr = pair => until <= count
  PROVE  Within(t, pair, count)
<1>1. CASE ~Moves(s, until)
  BY <1>1, SkipStays
<1>2. CASE Moves(s, until)
  <2> DEFINE new == {s.DHr} \X (s.Nr .. until - 1)
  <2>1. AfterSkip(s, until, t)
    BY <1>2, SkipMoves
  <2>2. s.Nr \in Nat /\ s.DHr \in Nat
    BY Fields
  <2>3. /\ t.DHr = s.DHr /\ t.Nr = until
        /\ DOMAIN t.MKSKIPPED = DOMAIN s.MKSKIPPED \cup new
    BY <2>1 DEF AfterSkip
  <2>4. \A k \in new : k[1] = s.DHr /\ k[2] \in s.Nr .. until - 1
    OBVIOUS
  <2> HIDE DEF new
  <2>5. \A k \in new : k[1] <= pair /\ (k[1] = pair => k[2] < count)
    BY <2>2, <2>4
  <2> QED BY <2>3, <2>5 DEF Within
<1> QED BY <1>1, <1>2

(* There are two parties.                                                  *)
LEMMA Opposite ==
  ASSUME NEW p \in Parties
  PROVE  /\ Peer(p) \in Parties /\ Peer(p) # p /\ Peer(Peer(p)) = p
         /\ \A q \in Parties : q # p => q = Peer(p)
BY RatchetAssumption DEF Peer, Parties

(* Adjacent, as one of the parties sees it.                                *)
LEMMA AdjacentTo ==
  ASSUME NEW p \in Parties
  PROVE  Adjacent <=>
           \/ state[p].DHs = state[Peer(p)].DHs + 1 /\ nextKey = state[p].DHs + 1
           \/ state[Peer(p)].DHs = state[p].DHs + 1 /\ nextKey = state[Peer(p)].DHs + 1
BY RatchetAssumption DEF Adjacent, Peer, Parties

(* A party receives: its sending side stays or turns, and the conversation *)
(* is still in step.                                                       *)
LEMMA InStepReceives ==
  ASSUME TypeOK, TypeOK', InStepInv, NEW p \in Parties, NEW t,
         UNCHANGED sent, failed' = {},
         state'[p] = t, \A q \in Parties : q # p => state'[q] = state[q],
         accepted \subseteq accepted',
         \A x \in accepted' : x \notin accepted => x.from = Peer(p),
         InPlace(p, t), Covers(t, Waiting(p)'),
         Within(t, state[Peer(p)].DHs, state[Peer(p)].Ns),
         Overtakes(t, Opened(p)'),
         \/ /\ t.DHs = state[p].DHs /\ t.Ns = state[p].Ns /\ t.PN = state[p].PN
            /\ nextKey' = nextKey
         \/ /\ t.DHs = state[p].DHs + 2 /\ state[Peer(p)].DHs = state[p].DHs + 1
            /\ t.Ns = 0 /\ t.PN = state[p].Ns
            /\ nextKey' = nextKey + 1
  PROVE  InStepInv'
<1> DEFINE s == state[p]
           q == Peer(p)
           o == state[q]
<1>1. q \in Parties /\ q # p /\ Peer(q) = p /\ \A r \in Parties : r \in {p, q}
  BY Opposite
<1>2. state'[q] = o
  BY <1>1
<1>3. /\ s.DHs \in Nat /\ o.DHs \in Nat /\ o.DHr \in Nat /\ nextKey \in Nat
      /\ s.Ns \in Nat /\ o.Ns \in Nat /\ s.PN \in Nat
  BY <1>1, Fields DEF TypeOK
<1>4. \A m \in sent : m.from \in Parties /\ m.dh \in Nat /\ m.n \in Nat
  BY DEF TypeOK, Message
<1>5. InPlace(q, o) /\ Covers(o, Waiting(q)) /\ Within(o, s.DHs, s.Ns)
  BY <1>1 DEF InStepInv
<1>6. Waiting(q)' = Waiting(q)
  BY <1>1 DEF Waiting
<1>7. Within(o, t.DHs, t.Ns)
  <2>1. \A k \in DOMAIN o.MKSKIPPED : k[1] \in Nat
    BY <1>1 DEF TypeOK, IsState
  <2>2. o.DHr = o.DHs - 1
    BY <1>5 DEF InPlace
  <2> QED BY <1>3, <1>5, <2>1, <2>2 DEF Within
<1>8. \A r \in Parties :
        /\ InPlace(r, state[r])'
        /\ Covers(state[r], Waiting(r))'
        /\ Within(state[r], state[Peer(r)].DHs, state[Peer(r)].Ns)'
        /\ Counted(r)' /\ Overtakes(state[r], Opened(r))'
  <2>1. InPlace(p, state[p])' /\ InPlace(q, state[q])'
    BY <1>2, <1>5 DEF InPlace
  <2>2. Covers(state[p], Waiting(p))' /\ Covers(state[q], Waiting(q))'
    BY <1>2, <1>5, <1>6 DEF Covers, Past
  <2>3. /\ Within(state[p], state[Peer(p)].DHs, state[Peer(p)].Ns)'
        /\ Within(state[q], state[Peer(q)].DHs, state[Peer(q)].Ns)'
    BY <1>1, <1>2, <1>7 DEF Within
  <2>4. Counted(p)' /\ Counted(q)'
    <3>1. Counted(p) /\ Counted(q)
      BY <1>1 DEF InStepInv
    <3>2. HasSent(p, t.DHs, t.Ns) /\ HasSent(p, t.DHs - 2, t.PN)
      <4>1. CASE t.DHs = s.DHs /\ t.Ns = s.Ns /\ t.PN = s.PN
        BY <3>1, <4>1 DEF Counted
      <4>2. CASE t.DHs = s.DHs + 2 /\ t.Ns = 0 /\ t.PN = s.Ns
        <5>1. t.DHs - 2 = s.DHs
          BY <1>3, <4>2
        <5>2. HasSent(p, t.DHs, 0)
          BY DEF HasSent
        <5> QED BY <3>1, <4>2, <5>1, <5>2 DEF Counted
      <4> QED BY <4>1, <4>2
    <3> QED BY <1>2, <3>1, <3>2 DEF Counted, HasSent
  <2>5. Overtakes(state[p], Opened(p))' /\ Overtakes(state[q], Opened(q))'
    <3>1. Opened(q)' = Opened(q)
      BY <1>1 DEF Opened
    <3>2. Overtakes(o, Opened(q))
      BY <1>1 DEF InStepInv
    <3> QED BY <1>2, <3>1, <3>2 DEF Overtakes, Past
  <2> QED BY <1>1, <2>1, <2>2, <2>3, <2>4, <2>5
<1>9. Adjacent'
  <2>1. \/ s.DHs = o.DHs + 1 /\ nextKey = s.DHs + 1
        \/ o.DHs = s.DHs + 1 /\ nextKey = o.DHs + 1
    BY AdjacentTo DEF InStepInv
  <2>2. \/ t.DHs = o.DHs + 1 /\ nextKey' = t.DHs + 1
        \/ o.DHs = t.DHs + 1 /\ nextKey' = o.DHs + 1
    BY <1>3, <2>1
  <2>3. \/ state'[p].DHs = state'[q].DHs + 1 /\ nextKey' = state'[p].DHs + 1
        \/ state'[q].DHs = state'[p].DHs + 1 /\ nextKey' = state'[q].DHs + 1
    BY <1>2, <2>2
  <2> HIDE DEF s, o
  <2> QED BY <1>1, <2>3, RatchetAssumption DEF Adjacent, Parties
<1>10. ASSUME NEW m \in sent
       PROVE  Proper(m)'
  <2>1. Proper(m) /\ m.from \in {p, q}
    BY <1>1, <1>4 DEF InStepInv
  <2>2. CASE m.from = q
    BY <1>2, <2>1, <2>2 DEF Proper
  <2>3. CASE m.from = p
    <3>1. /\ Draws(p, m.dh) /\ 1 < m.dh /\ m.dh <= s.DHs
          /\ m.key = [root |-> Roots(m.dh - 1), step |-> m.n]
          /\ m.dh = s.DHs => m.n < s.Ns /\ m.pn = s.PN
          /\ m.dh = s.DHs - 2 => m.n < s.PN
      BY <2>1, <2>3 DEF Proper
    <3>2. /\ m.dh <= t.DHs
          /\ m.dh = t.DHs => m.n < t.Ns /\ m.pn = t.PN
          /\ m.dh = t.DHs - 2 => m.n < t.PN
      BY <1>3, <1>4, <3>1
    <3> QED BY <2>3, <3>1, <3>2 DEF Proper
  <2> QED BY <2>1, <2>2, <2>3
<1>11. \A m1, m2 \in sent : m1.from = m2.from =>
         /\ m1.dh = m2.dh => m1.pn = m2.pn /\ (m1.n = m2.n => m1 = m2)
         /\ m1.dh = m2.dh - 2 => m1.n < m2.pn
  BY DEF InStepInv
<1> QED BY <1>8, <1>9, <1>10, <1>11 DEF InStepInv

(* A new message is the last of its chain, ahead of everything its         *)
(* recipient has passed.                                                   *)
LEMMA InStepEncrypts ==
  ASSUME TypeOK, TypeOK', InStepInv, NEW p \in Parties, encrypt(p)
  PROVE  InStepInv'
<1> DEFINE s == state[p]
           q == Peer(p)
           o == state[q]
           m == [from |-> p, dh |-> s.DHs, pn |-> s.PN, n |-> s.Ns, key |-> s.CKs]
<1>1. PICK t : /\ IsState(t) /\ state' = [state EXCEPT ![p] = t]
               /\ s.CKs # NoChain
               /\ t.DHs = s.DHs /\ t.DHr = s.DHr /\ t.RK = s.RK
               /\ t.CKr = s.CKr /\ t.Nr = s.Nr /\ t.PN = s.PN
               /\ t.MKSKIPPED = s.MKSKIPPED
               /\ t.Ns = s.Ns + 1
               /\ t.CKs = [root |-> s.CKs.root, step |-> s.CKs.step + 1]
  BY Encrypts
<1>2. state'[p] = t /\ \A r \in Parties : r # p => state'[r] = state[r]
  BY <1>1, OneChanges
<1>3. /\ sent' = sent \cup {m} /\ UNCHANGED <<nextKey, accepted, failed>>
  BY DEF encrypt
<1>4. q \in Parties /\ q # p /\ Peer(q) = p /\ \A r \in Parties : r \in {p, q}
  BY Opposite
<1>5. /\ s.DHs \in Nat /\ o.DHs \in Nat /\ o.DHr \in Nat /\ o.Nr \in Nat
      /\ s.Ns \in Nat /\ s.PN \in Nat
  BY <1>4, Fields DEF TypeOK
<1>6. /\ m.from = p /\ m.dh = s.DHs /\ m.pn = s.PN /\ m.n = s.Ns /\ m.key = s.CKs
  OBVIOUS
<1>7. \A x \in sent : x.from \in Parties /\ x.dh \in Nat /\ x.n \in Nat
  BY DEF TypeOK, Message
<1> HIDE DEF m
<1>8. /\ InPlace(p, s) /\ InPlace(q, o)
      /\ Covers(s, Waiting(p)) /\ Covers(o, Waiting(q))
      /\ Within(s, o.DHs, o.Ns) /\ Within(o, s.DHs, s.Ns)
  BY <1>4 DEF InStepInv
<1>9. s.DHs > 1 /\ s.CKs = [root |-> Roots(s.DHs - 1), step |-> s.Ns]
  <2>1. ~(s.DHs > 1) => s.DHs = 1 /\ s.DHs - 1 = 0 /\ s.Ns = 0
    BY <1>5, <1>8 DEF InPlace
  <2>2. s.CKs = [root |-> Roots(s.DHs - 1), step |-> s.Ns]
    BY <1>8 DEF InPlace
  <2>3. s.DHs = 1 => s.CKs = NoChain
    BY <2>1, <2>2, RootsEmpty DEF NoChain
  <2> QED BY <1>1, <2>1, <2>2, <2>3
<1>10. Waiting(p)' = Waiting(p) /\ Waiting(q)' \subseteq Waiting(q) \cup {m}
  BY <1>3, <1>4, <1>6 DEF Waiting
<1>11. InPlace(p, t)
  BY <1>1, <1>8, <1>9 DEF InPlace
<1>12. Covers(t, Waiting(p))
  BY <1>1, <1>8 DEF Covers, Past
<1>13. Covers(o, Waiting(q) \cup {m})
  <2>1. o.DHr = o.DHs - 1 /\ (o.DHs = s.DHs + 1 \/ s.DHs = o.DHs + 1)
    BY <1>8, AdjacentTo DEF InPlace, InStepInv
  <2>2. ~Past(o, m)
    BY <1>5, <1>6, <1>8, <2>1 DEF Past, Within
  <2>3. <<m.dh, m.n>> \notin DOMAIN o.MKSKIPPED
    BY <1>5, <1>6, <1>8 DEF Within
  <2> QED BY <1>8, <2>2, <2>3 DEF Covers
<1>14. Within(t, o.DHs, o.Ns) /\ Within(o, t.DHs, t.Ns)
  <2>1. \A k \in DOMAIN o.MKSKIPPED : k[2] \in Nat
    BY <1>4 DEF TypeOK, IsState
  <2> QED BY <1>1, <1>5, <1>8, <2>1 DEF Within
<1>15. \A r \in Parties :
        /\ InPlace(r, state[r])'
        /\ Covers(state[r], Waiting(r))'
        /\ Within(state[r], state[Peer(r)].DHs, state[Peer(r)].Ns)'
        /\ Counted(r)' /\ Overtakes(state[r], Opened(r))'
  <2>1. InPlace(p, state[p])' /\ InPlace(q, state[q])'
    BY <1>2, <1>4, <1>8, <1>11 DEF InPlace
  <2>2. Covers(state[p], Waiting(p))' /\ Covers(state[q], Waiting(q))'
    BY <1>2, <1>4, <1>10, <1>12, <1>13 DEF Covers, Past
  <2>3. /\ Within(state[p], state[Peer(p)].DHs, state[Peer(p)].Ns)'
        /\ Within(state[q], state[Peer(q)].DHs, state[Peer(q)].Ns)'
    BY <1>2, <1>4, <1>14 DEF Within
  <2>4. Counted(p)' /\ Counted(q)'
    <3> DEFINE Later(r, pair, count) ==
                 \A k \in 0 .. count - 1 :
                   \E x \in sent' : x.from = r /\ x.dh = pair /\ x.n = k
    <3>1. Counted(p) /\ Counted(q)
      BY <1>4 DEF InStepInv
    <3>2. \A r, pair, count : HasSent(r, pair, count) => Later(r, pair, count)
      BY <1>3 DEF HasSent
    <3>3. Later(p, t.DHs, t.Ns)
      <4>1. \A k \in 0 .. t.Ns - 1 : k \in 0 .. s.Ns - 1 \/ k = s.Ns
        BY <1>1, <1>5
      <4>2. HasSent(p, s.DHs, s.Ns)
        BY <3>1 DEF Counted
      <4> QED BY <1>1, <1>3, <1>6, <4>1, <4>2 DEF HasSent
    <3>4. Later(p, t.DHs - 2, t.PN)
      BY <1>1, <3>1, <3>2 DEF Counted
    <3>5. \A x \in sent : x.from \in {p, q} =>
            Later(x.from, x.dh, x.n) /\ Later(x.from, x.dh - 2, x.pn)
      BY <3>1, <3>2 DEF Counted
    <3>6. Later(p, m.dh, m.n) /\ Later(p, m.dh - 2, m.pn)
      BY <1>6, <3>1, <3>2 DEF Counted
    <3>7. \A x \in sent' : x.from \in {p, q} =>
            Later(x.from, x.dh, x.n) /\ Later(x.from, x.dh - 2, x.pn)
      <4> HIDE DEF Later
      <4> QED BY <1>3, <1>6, <3>5, <3>6
    <3>8. Later(q, o.DHs, o.Ns) /\ Later(q, o.DHs - 2, o.PN)
      BY <3>1, <3>2 DEF Counted
    <3>9. state'[p] = t /\ state'[q] = o
      BY <1>2, <1>4
    <3> HIDE DEF s, o, q
    <3> QED BY ONLY <3>3, <3>4, <3>7, <3>8, <3>9 DEF Counted, HasSent
  <2>5. Overtakes(state[p], Opened(p))' /\ Overtakes(state[q], Opened(q))'
    <3>1. Overtakes(s, Opened(p)) /\ Overtakes(o, Opened(q))
      BY <1>4 DEF InStepInv
    <3>2. Opened(p)' = Opened(p) /\ Opened(q)' = Opened(q)
      BY <1>3 DEF Opened
    <3> QED BY <1>1, <1>2, <1>4, <3>1, <3>2 DEF Overtakes, Past
  <2> QED BY <1>4, <2>1, <2>2, <2>3, <2>4, <2>5
<1>16. Adjacent'
  <2>1. \A r \in Parties : state'[r].DHs = state[r].DHs
    BY <1>1, <1>2
  <2> QED BY <1>3, <2>1 DEF InStepInv, Adjacent, Parties
<1>17. ASSUME NEW x \in sent'
       PROVE  Proper(x)'
  <2>1. CASE x = m
    <3>1. Draws(p, s.DHs)
      BY <1>8 DEF InPlace
    <3> QED BY <1>1, <1>2, <1>5, <1>6, <1>9, <2>1, <3>1 DEF Proper
  <2>2. CASE x \in sent
    <3>1. Proper(x) /\ x.n \in Nat
      BY <1>7, <2>2 DEF InStepInv
    <3>2. CASE x.from = p
      BY <1>1, <1>2, <1>5, <3>1, <3>2 DEF Proper
    <3>3. CASE x.from # p
      BY <1>2, <1>7, <2>2, <3>1, <3>3 DEF Proper
    <3> QED BY <3>2, <3>3
  <2> QED BY <1>3, <2>1, <2>2
<1>18. ASSUME NEW m1 \in sent', NEW m2 \in sent', m1.from = m2.from
       PROVE  /\ m1.dh = m2.dh => m1.pn = m2.pn /\ (m1.n = m2.n => m1 = m2)
              /\ m1.dh = m2.dh - 2 => m1.n < m2.pn
  <2>1. \A x \in sent : x.from = p =>
          /\ x.dh <= s.DHs
          /\ x.dh = s.DHs => x.n < s.Ns /\ x.pn = s.PN
          /\ x.dh = s.DHs - 2 => x.n < s.PN
    BY DEF InStepInv, Proper
  <2>2. CASE m1 \in sent /\ m2 \in sent
    BY <1>18, <2>2 DEF InStepInv
  <2>3. CASE m1 = m /\ m2 = m
    BY <1>5, <1>6, <2>3
  <2>4. CASE m1 = m /\ m2 \in sent
    BY <1>5, <1>6, <1>7, <1>18, <2>1, <2>4
  <2>5. CASE m1 \in sent /\ m2 = m
    BY <1>5, <1>6, <1>7, <1>18, <2>1, <2>5
  <2> QED BY <1>3, <2>2, <2>3, <2>4, <2>5
<1>19. failed' = {}
  BY <1>3 DEF InStepInv
<1> QED BY <1>15, <1>16, <1>17, <1>18, <1>19 DEF InStepInv

(* A key put aside is the one its message was sealed with.                 *)
LEMMA InStepUnskips ==
  ASSUME TypeOK, TypeOK', InStepInv, NEW p \in Parties, NEW m \in sent,
         DecryptSkipped(p, m), replays = 0, replays' = 0
  PROVE  InStepInv'
<1> DEFINE s == state[p]
           q == Peer(p)
           x == <<m.dh, m.n>>
<1>1. PICK t : /\ IsState(t) /\ state' = [state EXCEPT ![p] = t]
               /\ t.DHs = s.DHs /\ t.DHr = s.DHr /\ t.RK = s.RK /\ t.CKs = s.CKs
               /\ t.Ns = s.Ns /\ t.PN = s.PN /\ t.Nr = s.Nr /\ t.CKr = s.CKr
               /\ DOMAIN t.MKSKIPPED = DOMAIN s.MKSKIPPED \ {x}
               /\ \A k \in DOMAIN t.MKSKIPPED : t.MKSKIPPED[k] = s.MKSKIPPED[k]
  BY Unskips
<1>2. state'[p] = t /\ \A r \in Parties : r # p => state'[r] = state[r]
  BY <1>1, OneChanges
<1>3. /\ x \in DOMAIN s.MKSKIPPED /\ m.from = q /\ m \notin accepted
      /\ UNCHANGED <<sent, nextKey>>
      /\ Open(m, s.MKSKIPPED[x])
  BY DEF DecryptSkipped, Delivered
<1>4. InPlace(p, s) /\ Covers(s, Waiting(p))
      /\ Within(s, state[q].DHs, state[q].Ns) /\ failed = {}
  BY DEF InStepInv
<1>5. m \in Waiting(p)
  BY <1>3 DEF Waiting
<1>6. s.MKSKIPPED[x] = m.key
  BY <1>3, <1>4, <1>5 DEF Covers
<1>7. accepted' = accepted \cup {m} /\ failed' = {}
  BY <1>3, <1>4, <1>6 DEF Open
<1>8. Waiting(p)' = Waiting(p) \ {m}
  BY <1>3, <1>7 DEF Waiting
<1>9. \A y \in Waiting(p) \ {m} : <<y.dh, y.n>> # x
  BY <1>3 DEF InStepInv, Waiting
<1> HIDE DEF s, x
<1>10. InPlace(p, t) /\ Within(t, state[q].DHs, state[q].Ns)
  BY <1>1, <1>4 DEF InPlace, Within
<1>11. Covers(t, Waiting(p)')
  BY <1>1, <1>4, <1>8, <1>9 DEF Covers, Past
<1>12. Overtakes(t, Opened(p)')
  <2>1. Past(s, m)
    BY <1>3, <1>4, <1>5 DEF Covers, x
  <2>2. Opened(p)' = Opened(p) \cup {m} /\ Overtakes(s, Opened(p))
    BY <1>3, <1>7 DEF Opened, InStepInv, s
  <2> QED BY <1>1, <2>1, <2>2 DEF Overtakes, Past
<1> QED
  BY <1>1, <1>2, <1>3, <1>7, <1>10, <1>11, <1>12, InStepReceives DEF s

(* A message that comes next on the chain the party receives from, or      *)
(* later on it.                                                            *)
Ready(p, s, m, waiting, opened, pair, count) ==
  /\ p \in Parties /\ IsState(s) /\ m \in Message /\ pair \in Nat /\ count \in Nat
  /\ waiting \subseteq Message /\ m \in waiting
  /\ \A y \in waiting : /\ y.key = [root |-> Roots(y.dh - 1), step |-> y.n]
                        /\ y.dh = m.dh /\ y.n = m.n => y = m
  /\ InPlace(p, s) /\ s.DHs > 2 /\ s.DHr = m.dh /\ s.Nr <= m.n
  /\ Covers(s, waiting) /\ Within(s, pair, count)
  /\ opened \subseteq Message /\ Overtakes(s, opened)
  /\ s.DHr <= pair /\ (s.DHr = pair => m.n < count)

(* The session after it: the key it reached is the message's, and only     *)
(* that message is no longer waiting.                                      *)
Arrived(p, s, m, waiting, opened, pair, count, key, w) ==
  /\ key = m.key
  /\ Overtakes(w, opened \cup {m})
  /\ InPlace(p, w) /\ Covers(w, waiting \ {m}) /\ Within(w, pair, count)
  /\ w.DHs = s.DHs /\ w.Ns = s.Ns /\ w.PN = s.PN

(* A message on the chain the party receives from is opened with its own   *)
(* key.                                                                    *)
LEMMA InStepArrives ==
  ASSUME NEW p, NEW s, NEW m, NEW waiting, NEW opened, NEW pair, NEW count,
         Ready(p, s, m, waiting, opened, pair, count),
         NEW v, v = skipMessageKeys(s, m.n),
         NEW w, w = [v EXCEPT !.CKr = kdfCK(@), !.Nr = @ + 1]
  PROVE  Arrived(p, s, m, waiting, opened, pair, count, v.CKr, w)
<1> USE DEF Ready
<1>0. /\ p \in Parties /\ IsState(s) /\ m \in Message
      /\ m.key = [root |-> Roots(m.dh - 1), step |-> m.n]
  OBVIOUS
<1>1. m.dh \in Nat /\ m.n \in Nat
  BY DEF Message
<1>2. s.DHs \in Nat /\ s.DHr \in Nat /\ s.Nr \in Nat
  BY Fields
<1>3. /\ Draws(p, s.DHs) /\ s.DHr = s.DHs - 1 /\ s.RK = Roots(s.DHs - 1)
      /\ s.CKs = [root |-> Roots(s.DHs - 1), step |-> s.Ns]
      /\ s.CKr = [root |-> Roots(s.DHs - 2), step |-> s.Nr]
  BY DEF InPlace
<1>4. s.CKr # NoChain
  <2>1. s.DHs - 2 = (s.DHs - 3) + 1 /\ s.DHs - 3 \in Nat
    BY <1>2
  <2>2. Roots(s.DHs - 2) # <<>>
    BY <2>1, RootsGrow
  <2> QED BY <1>3, <2>2 DEF NoChain
<1>5. /\ IsState(v)
      /\ v.DHs = s.DHs /\ v.DHr = s.DHr /\ v.RK = s.RK /\ v.CKs = s.CKs
      /\ v.Ns = s.Ns /\ v.PN = s.PN /\ v.Nr = m.n
      /\ v.CKr = [root |-> Roots(s.DHs - 2), step |-> m.n]
  <2>1. CASE s.Nr < m.n
    <3>1. Moves(s, m.n)
      BY <1>4, <2>1 DEF Moves
    <3>2. IsState(v) /\ AfterSkip(s, m.n, v)
      BY <1>1, <3>1, SkipMoves
    <3>3. v.CKr = [root |-> s.CKr.root, step |-> s.CKr.step + (m.n - s.Nr)]
      BY <3>2 DEF AfterSkip
    <3>4. s.CKr.step + (m.n - s.Nr) = m.n /\ s.CKr.root = Roots(s.DHs - 2)
      BY <1>1, <1>2, <1>3
    <3> QED BY <3>2, <3>3, <3>4 DEF AfterSkip
  <2>2. CASE s.Nr = m.n
    <3>1. ~Moves(s, m.n)
      BY <1>2, <2>2 DEF Moves
    <3>2. v = s
      BY <1>1, <3>1, SkipStays
    <3> QED BY <1>3, <2>2, <3>2
  <2> QED BY <1>1, <1>2, <2>1, <2>2
<1>6. v.CKr = m.key
  <2>1. m.dh - 1 = s.DHs - 2
    BY <1>1, <1>2, <1>3
  <2> QED BY <1>5, <2>1
<1>7. /\ w.DHs = s.DHs /\ w.DHr = s.DHr /\ w.RK = s.RK /\ w.CKs = s.CKs
      /\ w.Ns = s.Ns /\ w.PN = s.PN /\ w.MKSKIPPED = v.MKSKIPPED
      /\ w.Nr = m.n + 1
      /\ w.CKr = [root |-> Roots(s.DHs - 2), step |-> m.n + 1]
  <2>1. /\ w.DHs = v.DHs /\ w.DHr = v.DHr /\ w.RK = v.RK /\ w.CKs = v.CKs
        /\ w.Ns = v.Ns /\ w.PN = v.PN /\ w.MKSKIPPED = v.MKSKIPPED
        /\ w.Nr = v.Nr + 1
        /\ w.CKr = [root |-> v.CKr.root, step |-> v.CKr.step + 1]
    <3>1. IsState(v) /\ w = [v EXCEPT !.CKr = kdfCK(@), !.Nr = @ + 1]
      BY <1>5
    <3> QED BY ONLY <3>1, ReceiveMoves
  <2> QED BY <1>5, <2>1
<1>8. InPlace(p, w)
  BY <1>2, <1>3, <1>7 DEF InPlace
<1>9. Covers(v, waiting)
  <2>1. \A y \in waiting : y.dh = s.DHr => y.key = [root |-> s.CKr.root, step |-> y.n]
    <3>1. ASSUME NEW y \in waiting, y.dh = s.DHr
          PROVE  y.key = [root |-> s.CKr.root, step |-> y.n]
      <4>1. y.dh - 1 = s.DHs - 2
        BY <1>2, <1>3, <3>1
      <4> QED BY <1>3, <4>1
    <3> QED BY <3>1
  <2>2. s.CKr.step = s.Nr
    BY <1>3
  <2> QED BY <1>1, <2>1, <2>2, CoverSkip
<1>10. Covers(w, waiting \ {m})
  <2>1. Covers(v, waiting \ {m})
    BY <1>9 DEF Covers
  <2>2. \A y \in waiting \ {m} : ~(y.dh = v.DHr /\ y.n = v.Nr)
    BY <1>5
  <2>3. w.DHr = v.DHr /\ w.Nr = v.Nr + 1 /\ v.DHr \in Nat /\ v.Nr \in Nat
    BY <1>1, <1>2, <1>5, <1>7
  <2>4. w.MKSKIPPED = v.MKSKIPPED /\ waiting \ {m} \subseteq Message
    BY <1>7
  <2> QED BY ONLY <2>1, <2>2, <2>3, <2>4, CoverReceive
<1>11. Within(w, pair, count)
  <2>1. Within(v, pair, count)
    BY <1>1, WithinSkip
  <2> QED BY <1>1, <1>5, <1>7, <2>1 DEF Within
<1>12. Overtakes(w, opened \cup {m})
  <2>1. s.DHr = m.dh /\ s.Nr <= m.n /\ Overtakes(s, opened)
    OBVIOUS
  <2>2. \A y \in opened : y.dh \in Nat /\ y.n \in Nat
    BY DEF Message
  <2> QED BY ONLY <1>1, <1>2, <1>7, <2>1, <2>2 DEF Overtakes, Past
<1> QED BY <1>6, <1>7, <1>8, <1>10, <1>11, <1>12 DEF Arrived

(* The ratchet turns for the first message of the other party's next pair  *)
(* to arrive.                                                              *)
LEMMA InStepTurns ==
  ASSUME NEW p \in Parties, NEW s, IsState(s), NEW m \in Message,
         NEW c, c = skipMessageKeys(s, m.pn),
         NEW fresh \in Nat, NEW u, u = dhRatchet(c, m.dh, fresh),
         NEW waiting, waiting \subseteq Message,
         InPlace(p, s), m.dh = s.DHs + 1, fresh = s.DHs + 2,
         \A y \in waiting : /\ y.key = [root |-> Roots(y.dh - 1), step |-> y.n]
                            /\ 1 < y.dh
                            /\ y.dh <= m.dh /\ y.dh # s.DHs
                            /\ y.dh = m.dh - 2 => y.n < m.pn,
         Covers(s, waiting),
         NEW count \in Nat, Within(s, m.dh, count)
  PROVE  /\ InPlace(p, u) /\ Covers(u, waiting) /\ Within(u, m.dh, count)
         /\ u.DHs = s.DHs + 2 /\ u.DHr = m.dh /\ u.Nr = 0 /\ u.Ns = 0 /\ u.PN = s.Ns
<1>1. m.dh \in Nat /\ m.pn \in Nat
  BY DEF Message
<1>2. s.DHs \in Nat /\ s.DHr \in Nat /\ s.Nr \in Nat /\ s.Ns \in Nat
  BY Fields
<1>0. m.dh = s.DHs + 1 /\ fresh = s.DHs + 2
  OBVIOUS
<1>3. /\ Draws(p, s.DHs) /\ s.DHs > 0 /\ s.DHr = s.DHs - 1 /\ s.RK = Roots(s.DHs - 1)
      /\ s.CKr = [root |-> Roots(s.DHs - 2), step |-> s.Nr]
      /\ s.DHs <= 2 => s.Nr = 0
  BY DEF InPlace
<1>4. /\ IsState(c) /\ c.DHs = s.DHs /\ c.DHr = s.DHr /\ c.RK = s.RK /\ c.Ns = s.Ns
  <2>1. IsState(s) /\ c = skipMessageKeys(s, m.pn)
    OBVIOUS
  <2> QED BY ONLY <1>1, <2>1, SkipKeeps
<1>5. IsState(u) /\ AfterRatchet(c, m.dh, fresh, u)
  BY <1>1, <1>4, RatchetMoves
<1>6. /\ u.DHs = s.DHs + 2 /\ u.DHr = m.dh /\ u.Nr = 0 /\ u.Ns = 0 /\ u.PN = s.Ns
      /\ u.MKSKIPPED = c.MKSKIPPED
      /\ u.RK = Append(Append(s.RK, dh(s.DHs, m.dh)), dh(fresh, m.dh))
      /\ u.CKr = [root |-> Append(s.RK, dh(s.DHs, m.dh)), step |-> 0]
      /\ u.CKs = [root |-> u.RK, step |-> 0]
  BY <1>4, <1>5 DEF AfterRatchet
<1>7. Append(s.RK, dh(s.DHs, m.dh)) = Roots(s.DHs)
  <2> DEFINE j == s.DHs - 1
  <2>1. j \in Nat /\ j + 1 = s.DHs /\ j + 2 = s.DHs + 1
    BY <1>2, <1>3
  <2>2. dh(s.DHs, m.dh) = {j + 1, j + 2}
    BY <2>1 DEF dh
  <2> HIDE DEF j
  <2>3. Append(Roots(j), {j + 1, j + 2}) = Roots(j + 1)
    BY <2>1, RootsGrow
  <2> QED BY <1>3, <2>1, <2>2, <2>3 DEF j
<1>8. u.RK = Roots(s.DHs + 1)
  <2>1. dh(fresh, m.dh) = {s.DHs + 1, s.DHs + 2}
    BY DEF dh
  <2>2. Append(Roots(s.DHs), {s.DHs + 1, s.DHs + 2}) = Roots(s.DHs + 1)
    BY <1>2, RootsGrow
  <2> QED BY <1>6, <1>7, <2>1, <2>2
<1>9. InPlace(p, u)
  <2>1. Draws(p, s.DHs + 2)
    BY <1>2, <1>3 DEF Draws
  <2>2. u.DHs - 1 = s.DHs + 1 /\ u.DHs - 2 = s.DHs /\ u.DHs > 2
    BY ONLY <1>2, <1>3, <1>6
  <2>3. u.DHr = u.DHs - 1
    BY ONLY <1>0, <1>2, <1>6
  <2>4. /\ u.RK = Roots(u.DHs - 1)
        /\ u.CKs = [root |-> Roots(u.DHs - 1), step |-> u.Ns]
        /\ u.CKr = [root |-> Roots(u.DHs - 2), step |-> u.Nr]
    BY ONLY <1>6, <1>7, <1>8, <2>2
  <2>5. Draws(p, u.DHs) /\ u.DHs > 0
    BY ONLY <1>6, <2>1, <2>2, <1>2
  <2>6. (u.DHs = 1 => u.Ns = 0) /\ (u.DHs <= 2 => u.Nr = 0)
    BY ONLY <1>6
  <2> QED BY ONLY <2>3, <2>4, <2>5, <2>6 DEF InPlace
<1>10. Covers(c, waiting)
  <2>1. \A y \in waiting : y.dh = s.DHr => y.key = [root |-> s.CKr.root, step |-> y.n]
    <3>1. ASSUME NEW y \in waiting, y.dh = s.DHr
          PROVE  y.key = [root |-> s.CKr.root, step |-> y.n]
      <4>1. y.dh - 1 = s.DHs - 2
        BY <1>2, <1>3, <3>1
      <4> QED BY <1>3, <4>1
    <3> QED BY <3>1
  <2>2. s.CKr.step = s.Nr
    BY <1>3
  <2> QED BY <1>1, <2>1, <2>2, CoverSkip
<1>11. \A y \in waiting : Past(c, y) \/ y.dh >= m.dh
  <2> SUFFICES ASSUME NEW y \in waiting, y.dh < m.dh
               PROVE  Past(c, y)
    <3>1. \A y \in waiting : y.dh \in Nat
      BY DEF Message
    <3> QED BY <1>1, <3>1
  <2>1. y.dh \in Nat /\ y.n \in Nat
    BY DEF Message
  <2>a. /\ y.dh < m.dh /\ y.dh # s.DHs
        /\ y.dh = m.dh - 2 => y.n < m.pn
    OBVIOUS
  <2>b. y.dh = s.DHr => 1 < s.DHr
    OBVIOUS
  <2>2. y.dh < s.DHr \/ y.dh = s.DHr
    BY ONLY <1>0, <1>2, <1>3, <2>1, <2>a
  <2>3. CASE y.dh = s.DHr
    <3>1. y.dh = m.dh - 2 /\ s.DHs > 2
      BY ONLY <1>0, <1>2, <1>3, <2>1, <2>3, <2>b
    <3>2. y.n < m.pn
      BY <2>a, <3>1
    <3>3. s.CKr # NoChain
      <4>1. s.DHs - 2 = (s.DHs - 3) + 1 /\ s.DHs - 3 \in Nat
        BY <1>2, <3>1
      <4>2. Roots(s.DHs - 2) # <<>>
        BY <4>1, RootsGrow
      <4> QED BY <1>3, <4>2 DEF NoChain
    <3>4. CASE s.Nr < m.pn
      <4>1. AfterSkip(s, m.pn, c)
        BY <1>1, <3>3, <3>4, SkipMoves DEF Moves
      <4> QED BY <1>4, <2>3, <3>2, <4>1 DEF Past, AfterSkip
    <3>5. CASE ~(s.Nr < m.pn)
      <4>1. c = s
        BY <1>1, <3>5, SkipStays DEF Moves
      <4> QED BY <1>1, <1>2, <2>1, <2>3, <3>2, <3>5, <4>1 DEF Past
    <3> QED BY <3>4, <3>5
  <2> QED BY <1>4, <2>2, <2>3 DEF Past
<1>12. Covers(u, waiting)
  <2>1. c.DHr \in Nat /\ c.Nr \in Nat /\ c.DHr < u.DHr /\ u.DHr \in Nat
    BY <1>1, <1>2, <1>3, <1>4, <1>6, Fields, SMTT(40)
  <2> QED BY <1>6, <1>10, <1>11, <2>1, CoverTurn, Zenon
<1>13. Within(u, m.dh, count)
  <2>1. Within(c, m.dh, count)
    <3>1. s.DHr <= m.dh /\ s.DHr # m.dh
      BY <1>1, <1>2, <1>3
    <3> QED BY <1>1, <3>1, WithinSkip
  <2> QED BY <1>6, <2>1 DEF Within
<1> QED BY <1>6, <1>9, <1>12, <1>13

(* Whatever arrives in a conversation in step is from the pair the party   *)
(* receives from or from the next one, and is opened with its own key.     *)
LEMMA InStepDecrypts ==
  ASSUME TypeOK, TypeOK', InStepInv, NEW p \in Parties, NEW m \in sent,
         DecryptNext(p, m), replays = 0, replays' = 0
  PROVE  InStepInv'
<1> DEFINE s == state[p]
           q == Peer(p)
           o == state[q]
           c == Caught(s, m)
           u == Turned(s, m)
           v == Reached(s, m)
           w == Passed(s, m)
<1>1. /\ m \in Message /\ IsState(s) /\ IsState(c) /\ IsState(u) /\ IsState(w)
      /\ \/ /\ state' = [state EXCEPT ![p] = u]
            /\ UNCHANGED <<accepted, failed>>
         \/ /\ state' = [state EXCEPT ![p] = w]
            /\ Open(m, v.CKr)
      /\ nextKey' = IF m.dh # s.DHr THEN nextKey + 1 ELSE nextKey
      /\ <<m.dh, m.n>> \notin DOMAIN s.MKSKIPPED
      /\ m.from = q /\ UNCHANGED sent
      /\ replays' = IF m \in accepted \cup failed THEN replays + 1 ELSE replays
  BY Decrypts
<1>2. q \in Parties /\ q # p /\ Peer(q) = p
  BY Opposite
<1>3. /\ s.DHs \in Nat /\ s.DHr \in Nat /\ s.Nr \in Nat /\ s.Ns \in Nat /\ s.PN \in Nat
      /\ o.DHs \in Nat /\ o.Ns \in Nat
      /\ m.dh \in Nat /\ m.n \in Nat /\ m.pn \in Nat /\ nextKey \in Nat
  BY <1>1, <1>2, Fields DEF TypeOK, Message
<1>4. m \notin accepted /\ failed = {}
  BY <1>1 DEF InStepInv
<1>5. /\ InPlace(p, s) /\ Covers(s, Waiting(p)) /\ Within(s, o.DHs, o.Ns)
      /\ s.DHr = s.DHs - 1 /\ Draws(p, s.DHs) /\ s.DHs > 0
  BY DEF InStepInv, InPlace
<1>6. m \in Waiting(p) /\ Waiting(p) \subseteq Message
  BY <1>1, <1>4 DEF Waiting, TypeOK
<1>7. ~Past(s, m)
  BY <1>1, <1>5, <1>6 DEF Covers
<1>8. \A y \in Waiting(p) :
        /\ y.key = [root |-> Roots(y.dh - 1), step |-> y.n]
        /\ y.dh = m.dh /\ y.n = m.n => y = m
        /\ 1 < y.dh /\ y.dh <= o.DHs /\ Draws(q, y.dh)
        /\ y.dh = o.DHs => y.n < o.Ns
        /\ y.dh = m.dh - 2 => y.n < m.pn
  <2>1. \A y \in Waiting(p) : y \in sent /\ y.from = q
    BY DEF Waiting
  <2>2. \A y \in Waiting(p) : Proper(y)
    BY <2>1 DEF InStepInv
  <2>3. \A y \in Waiting(p) :
          /\ y.dh = m.dh => (y.n = m.n => y = m)
          /\ y.dh = m.dh - 2 => y.n < m.pn
    BY <1>1, <2>1 DEF InStepInv
  <2> QED BY <2>1, <2>2, <2>3 DEF Proper
<1>9. \/ s.DHs = o.DHs + 1 /\ nextKey = s.DHs + 1
      \/ o.DHs = s.DHs + 1 /\ nextKey = o.DHs + 1
  BY AdjacentTo DEF InStepInv
<1>a. /\ 1 < m.dh /\ m.dh <= o.DHs /\ Draws(q, m.dh)
      /\ m.dh = o.DHs => m.n < o.Ns
  BY <1>6, <1>8
<1>b. \A k \in Nat : ~(Draws(p, k) /\ Draws(q, k))
  BY <1>2, RatchetAssumption DEF Draws, Parties, Peer
<1>c. m.dh # s.DHs /\ \A y \in Waiting(p) : y.dh # s.DHs
  BY <1>3, <1>5, <1>8, <1>a, <1>b
<1>d. ~(m.dh < s.DHr) /\ (m.dh = s.DHr => s.Nr <= m.n)
  BY <1>3, <1>7 DEF Past
<1>e. Waiting(p) \ {m} = {y \in sent : y.from = q /\ y \notin accepted \cup {m}}
  BY DEF Waiting
<1>f. /\ Opened(p) \subseteq Message /\ Overtakes(s, Opened(p))
      /\ \A y \in Opened(p) : y.dh \in Nat /\ y.n \in Nat
  BY DEF Opened, InStepInv, TypeOK, Message
<1>10. CASE m.dh = s.DHr
  <2>1. u = s /\ v = skipMessageKeys(s, m.n)
    BY <1>10 DEF Turned, Reached
  <2>2. w = [v EXCEPT !.CKr = kdfCK(@), !.Nr = @ + 1]
    BY DEF Passed
  <2>3. nextKey' = nextKey /\ s.DHs > 2 /\ s.DHr <= o.DHs /\ s.Nr <= m.n
    BY <1>1, <1>3, <1>5, <1>a, <1>d, <1>10
  <2> HIDE DEF s, o, q, u, v, w
  <2>4. /\ v.CKr = m.key
        /\ InPlace(p, w) /\ Covers(w, Waiting(p) \ {m}) /\ Within(w, o.DHs, o.Ns)
        /\ Overtakes(w, Opened(p) \cup {m})
        /\ w.DHs = s.DHs /\ w.Ns = s.Ns /\ w.PN = s.PN
    <3>1. \A y \in Waiting(p) : /\ y.key = [root |-> Roots(y.dh - 1), step |-> y.n]
                                /\ y.dh = m.dh /\ y.n = m.n => y = m
      BY <1>8
    <3>3. s.DHr = o.DHs => m.n < o.Ns
      BY <1>a, <1>10
    <3>4. s.DHr = m.dh
      BY <1>10
    <3>5. /\ p \in Parties /\ IsState(s) /\ m \in Message /\ m \in Waiting(p)
          /\ Waiting(p) \subseteq Message /\ o.DHs \in Nat /\ o.Ns \in Nat
          /\ v = skipMessageKeys(s, m.n)
          /\ Opened(p) \subseteq Message /\ Overtakes(s, Opened(p))
          /\ InPlace(p, s) /\ Covers(s, Waiting(p)) /\ Within(s, o.DHs, o.Ns)
      BY <1>1, <1>3, <1>5, <1>6, <1>f, <2>1
    <3>6. Ready(p, s, m, Waiting(p), Opened(p), o.DHs, o.Ns)
      BY ONLY <2>3, <3>1, <3>3, <3>4, <3>5 DEF Ready
    <3>7. Arrived(p, s, m, Waiting(p), Opened(p), o.DHs, o.Ns, v.CKr, w)
      BY ONLY <2>2, <3>5, <3>6, InStepArrives
    <3> QED BY ONLY <3>7 DEF Arrived
  <2>5. CASE state' = [state EXCEPT ![p] = u] /\ UNCHANGED <<accepted, failed>>
    <3>1. state'[p] = s /\ \A r \in Parties : r # p => state'[r] = state[r]
      BY <1>1, <2>1, <2>5, OneChanges
    <3>2. Waiting(p)' = Waiting(p) /\ Opened(p)' = Opened(p)
      BY <1>1, <2>5 DEF Waiting, Opened
    <3> QED BY <1>1, <1>4, <1>5, <1>f, <2>3, <2>5, <3>1, <3>2, InStepReceives DEF s, o, q
  <2>6. CASE state' = [state EXCEPT ![p] = w] /\ Open(m, v.CKr)
    <3>1. state'[p] = w /\ \A r \in Parties : r # p => state'[r] = state[r]
      BY <1>1, <2>6, OneChanges
    <3>2. accepted' = accepted \cup {m} /\ failed' = {}
      BY <1>4, <2>4, <2>6 DEF Open
    <3>3. Waiting(p)' = Waiting(p) \ {m} /\ Opened(p)' = Opened(p) \cup {m}
      BY <1>1, <3>2 DEF Waiting, Opened, q
    <3> QED BY <1>1, <2>3, <2>4, <3>1, <3>2, <3>3, InStepReceives DEF s, o, q
  <2> QED BY <1>1, <2>5, <2>6
<1>11. CASE m.dh # s.DHr
  <2>1. m.dh = s.DHs + 1 /\ o.DHs = s.DHs + 1 /\ nextKey = s.DHs + 2
    BY <1>3, <1>5, <1>9, <1>11, <1>a, <1>c, <1>d
  <2>2. /\ c = skipMessageKeys(s, m.pn) /\ u = dhRatchet(c, m.dh, nextKey)
        /\ v = skipMessageKeys(u, m.n)
        /\ w = [v EXCEPT !.CKr = kdfCK(@), !.Nr = @ + 1]
    BY <1>11 DEF Caught, Turned, Reached, Passed
  <2>3. nextKey' = nextKey + 1
    BY <1>1, <1>11
  <2> HIDE DEF s, o, q, c, u, v, w
  <2>4. /\ InPlace(p, u) /\ Covers(u, Waiting(p)) /\ Within(u, m.dh, o.Ns)
        /\ u.DHs = s.DHs + 2 /\ u.DHr = m.dh /\ u.Nr = 0 /\ u.Ns = 0 /\ u.PN = s.Ns
    <3>1. \A y \in Waiting(p) : /\ y.key = [root |-> Roots(y.dh - 1), step |-> y.n]
                                /\ 1 < y.dh
                                /\ y.dh <= m.dh /\ y.dh # s.DHs
                                /\ y.dh = m.dh - 2 => y.n < m.pn
      BY <1>8, <1>c, <2>1
    <3>2. Within(s, m.dh, o.Ns)
      BY <1>5, <2>1
    <3> QED BY ONLY <1>1, <1>3, <1>5, <1>6, <2>1, <2>2, <3>1, <3>2, InStepTurns
  <2>a. Overtakes(u, Opened(p))
    <3>1. s.DHr < m.dh
      BY <1>3, <1>11, <1>d
    <3> QED BY ONLY <1>3, <1>f, <2>4, <3>1 DEF Overtakes, Past
  <2>5. /\ v.CKr = m.key
        /\ InPlace(p, w) /\ Covers(w, Waiting(p) \ {m}) /\ Within(w, o.DHs, o.Ns)
        /\ Overtakes(w, Opened(p) \cup {m})
        /\ w.DHs = u.DHs /\ w.Ns = u.Ns /\ w.PN = u.PN
    <3>1. \A y \in Waiting(p) : /\ y.key = [root |-> Roots(y.dh - 1), step |-> y.n]
                                /\ y.dh = m.dh /\ y.n = m.n => y = m
      BY <1>8
    <3>3. m.n < o.Ns /\ u.DHs > 2 /\ u.Nr <= m.n /\ u.DHr <= o.DHs /\ Within(u, o.DHs, o.Ns)
      BY <1>3, <1>5, <1>a, <2>1, <2>4
    <3>4. /\ p \in Parties /\ IsState(u) /\ m \in Message /\ m \in Waiting(p)
          /\ Waiting(p) \subseteq Message /\ o.DHs \in Nat /\ o.Ns \in Nat
          /\ v = skipMessageKeys(u, m.n)
          /\ InPlace(p, u) /\ Covers(u, Waiting(p)) /\ u.DHr = m.dh
          /\ Opened(p) \subseteq Message /\ Overtakes(u, Opened(p))
      BY <1>1, <1>3, <1>6, <1>f, <2>2, <2>4, <2>a
    <3>5. w = [v EXCEPT !.CKr = kdfCK(@), !.Nr = @ + 1]
      BY <2>2
    <3>6. Ready(p, u, m, Waiting(p), Opened(p), o.DHs, o.Ns)
      BY ONLY <3>1, <3>3, <3>4 DEF Ready
    <3>7. Arrived(p, u, m, Waiting(p), Opened(p), o.DHs, o.Ns, v.CKr, w)
      BY ONLY <3>4, <3>5, <3>6, InStepArrives
    <3> QED BY ONLY <3>7 DEF Arrived
  <2>6. CASE state' = [state EXCEPT ![p] = u] /\ UNCHANGED <<accepted, failed>>
    <3>1. state'[p] = u /\ \A r \in Parties : r # p => state'[r] = state[r]
      BY <1>1, <2>6, OneChanges
    <3>2. Waiting(p)' = Waiting(p) /\ Opened(p)' = Opened(p)
      BY <1>1, <2>6 DEF Waiting, Opened
    <3>3. Within(u, o.DHs, o.Ns)
      BY <2>1, <2>4
    <3> QED BY <1>1, <1>4, <2>1, <2>3, <2>4, <2>a, <2>6, <3>1, <3>2, <3>3, InStepReceives
            DEF s, o, q
  <2>7. CASE state' = [state EXCEPT ![p] = w] /\ Open(m, v.CKr)
    <3>1. state'[p] = w /\ \A r \in Parties : r # p => state'[r] = state[r]
      BY <1>1, <2>7, OneChanges
    <3>2. accepted' = accepted \cup {m} /\ failed' = {}
      BY <1>4, <2>5, <2>7 DEF Open
    <3>3. Waiting(p)' = Waiting(p) \ {m} /\ Opened(p)' = Opened(p) \cup {m}
      BY <1>1, <3>2 DEF Waiting, Opened, q
    <3> QED BY <1>1, <2>1, <2>3, <2>4, <2>5, <3>1, <3>2, <3>3, InStepReceives
            DEF s, o, q
  <2> QED BY <1>1, <2>6, <2>7
<1> QED BY <1>10, <1>11

(* Two sessions just made are in step.                                     *)
LEMMA InStepInit == SessionInit => StepInv
<1> SUFFICES ASSUME SessionInit
             PROVE  InStepInv
  BY DEF StepInv
<1>1. /\ nextKey = 3 /\ sent = {} /\ failed = {}
      /\ state[Alice] = initAsInitiator /\ state[Bob] = initAsResponder
  BY RatchetAssumption DEF SessionInit, Init, Parties
<1>2. Append(<<>>, dh(2, 1)) = Roots(1) /\ Roots(0) = <<>> /\ Roots(-1) = <<>>
  <2>1. 0 \in Nat /\ 0 + 1 = 1 /\ 0 + 2 = 2
    OBVIOUS
  <2>2. Append(Roots(0), {1, 2}) = Roots(1)
    BY <2>1, RootsGrow
  <2>3. dh(2, 1) = {1, 2}
    BY DEF dh
  <2> QED BY <2>2, <2>3, RootsEmpty
<1>3. InPlace(Alice, initAsInitiator)
  <2>1. /\ initAsInitiator.DHs = 2 /\ initAsInitiator.DHr = 1
        /\ initAsInitiator.RK = Roots(1)
        /\ initAsInitiator.CKs = [root |-> Roots(1), step |-> 0]
        /\ initAsInitiator.CKr = [root |-> Roots(0), step |-> 0]
        /\ initAsInitiator.Ns = 0 /\ initAsInitiator.Nr = 0
    <3> HIDE DEF Roots, dh
    <3> QED BY <1>2 DEF initAsInitiator, kdfRK, NoChain
  <2> QED BY <2>1 DEF InPlace, Draws
<1>4. InPlace(Bob, initAsResponder)
  <2>1. /\ initAsResponder.DHs = 1 /\ initAsResponder.DHr = 0
        /\ initAsResponder.RK = Roots(0)
        /\ initAsResponder.CKs = [root |-> Roots(0), step |-> 0]
        /\ initAsResponder.CKr = [root |-> Roots(-1), step |-> 0]
        /\ initAsResponder.Ns = 0 /\ initAsResponder.Nr = 0
    BY <1>2 DEF initAsResponder, NoChain, NoKey
  <2> QED BY <2>1, RatchetAssumption DEF InPlace, Draws
<1>5. \A p \in Parties : Covers(state[p], Waiting(p))
  BY <1>1 DEF Covers, Waiting
<1>6. /\ \A p \in Parties : DOMAIN state[p].MKSKIPPED = {} /\ state[p].Nr = 0
      /\ \A p \in Parties : state[p].Ns = 0
  BY <1>1 DEF Parties, initAsInitiator, initAsResponder
<1>7. \A p \in Parties : Within(state[p], state[Peer(p)].DHs, state[Peer(p)].Ns)
  BY <1>6, Opposite DEF Within
<1>8. Adjacent
  <2>1. initAsInitiator.DHs = 2 /\ initAsResponder.DHs = 1
    BY DEF initAsInitiator, initAsResponder
  <2> QED BY <1>1, <2>1 DEF Adjacent
<1>9. \A p \in Parties : InPlace(p, state[p])
  BY <1>1, <1>3, <1>4 DEF Parties
<1>10. \A p \in Parties : Counted(p) /\ Overtakes(state[p], Opened(p))
  <2>1. \A p \in Parties : state[p].Ns = 0 /\ state[p].PN = 0
    BY <1>1 DEF Parties, initAsInitiator, initAsResponder
  <2>2. accepted = {}
    BY DEF SessionInit, Init
  <2> QED BY <1>1, <2>1, <2>2 DEF Counted, HasSent, Overtakes, Opened
<1> QED BY <1>1, <1>5, <1>7, <1>8, <1>9, <1>10 DEF InStepInv

(* Every operation keeps them in step, and so does a restart from an up-   *)
(* to-date save.                                                           *)
LEMMA InStepStep ==
  TypeOK /\ StepInv /\ [SessionNext]_<<vars, sessionVars>> => StepInv'
<1> SUFFICES ASSUME TypeOK, StepInv, [SessionNext]_<<vars, sessionVars>>,
                    replays' = 0, rolledBack' = {}
             PROVE  InStepInv'
  BY DEF StepInv
<1>0. TypeOK'
  BY TypeStep
<1>1. ASSUME NEW p \in Parties, encrypt(p), UNCHANGED sessionVars
      PROVE  InStepInv'
  <2>1. UNCHANGED <<replays, rolledBack>>
    BY <1>1 DEF encrypt, sessionVars
  <2> QED BY <1>0, <1>1, <2>1, InStepEncrypts DEF StepInv
<1>2. ASSUME NEW p \in Parties, NEW m \in sent, DecryptSkipped(p, m),
             UNCHANGED sessionVars
      PROVE  InStepInv'
  <2>1. UNCHANGED rolledBack /\ replays' \in {replays, replays + 1} /\ replays \in Nat
    BY <1>2 DEF DecryptSkipped, Delivered, sessionVars, TypeOK
  <2>2. replays = 0
    BY <2>1
  <2> QED BY <1>0, <1>2, <2>1, <2>2, InStepUnskips DEF StepInv
<1>3. ASSUME NEW p \in Parties, NEW m \in sent, DecryptNext(p, m),
             UNCHANGED sessionVars
      PROVE  InStepInv'
  <2>1. UNCHANGED rolledBack /\ replays' \in {replays, replays + 1} /\ replays \in Nat
    BY <1>3, Decrypts DEF sessionVars, TypeOK
  <2>2. replays = 0
    BY <2>1
  <2> QED BY <1>0, <1>3, <2>1, <2>2, InStepDecrypts DEF StepInv
<1>4. ASSUME UNCHANGED vars, rolledBack = {}
      PROVE  InStepInv'
  <2>1. UNCHANGED <<state, nextKey, sent, accepted, failed, replays>>
    BY <1>4 DEF vars
  <2>2. InStepInv
    BY <1>4, <2>1 DEF StepInv
  <2> QED
    BY <2>1, <2>2
    DEF InStepInv, Covers, Waiting, Past, Within, InPlace, Adjacent, Proper,
        Counted, HasSent, Overtakes, Opened
<1>5. ASSUME NEW p \in Parties, saveSession(p)
      PROVE  InStepInv'
  BY <1>4, <1>5 DEF saveSession
<1>6. ASSUME NEW p \in Parties, getSession(p)
      PROVE  InStepInv'
  <2>1. /\ rolledBack = {} /\ db[p] = state[p]
        /\ UNCHANGED <<nextKey, sent, accepted, failed, replays>>
        /\ state' = [state EXCEPT ![p] = db[p]]
    BY <1>6 DEF getSession, Restored
  <2>2. state' = state
    BY <2>1 DEF TypeOK
  <2> QED BY <1>4, <2>1, <2>2 DEF vars
<1>7. CASE UNCHANGED <<vars, sessionVars>>
  BY <1>4, <1>7 DEF sessionVars
<1> QED
  BY <1>1, <1>2, <1>3, <1>5, <1>6, <1>7
  DEF SessionNext, Encrypting, Decrypting, Storing

(* decrypt refuses a message under way only if more than MAX_SKIP messages *)
(* before it were not decrypted: those of the old chain that the message   *)
(* tells of, or those of its own chain.                                    *)
LEMMA RefusedForGap ==
  ASSUME TypeOK, InStepInv, NEW m \in sent, m \notin accepted,
         Refuses(state[Peer(m.from)], m)
  PROVE  LongGap(m)
<1> DEFINE q == m.from
           p == Peer(q)
           s == state[p]
           o == state[q]
<1>1. p \in Parties /\ q \in Parties /\ Peer(p) = q /\ p # q
  BY Opposite DEF TypeOK, Message
<1>2. /\ IsState(s) /\ m \in Message /\ m.dh \in Nat /\ m.n \in Nat /\ m.pn \in Nat
      /\ s.DHs \in Nat /\ s.DHr \in Nat /\ s.Nr \in Nat /\ o.DHs \in Nat
      /\ nextKey \in Nat
  BY <1>1, Fields DEF TypeOK, Message
<1>3. MAX_SKIP \in Nat
  BY RatchetAssumption
<1>4. /\ InPlace(p, s) /\ Covers(s, Waiting(p)) /\ Overtakes(s, Opened(p))
      /\ Counted(q) /\ Proper(m)
  BY <1>1 DEF InStepInv
<1>5. /\ m.dh <= o.DHs /\ Draws(q, m.dh) /\ Draws(p, s.DHs) /\ s.DHr = s.DHs - 1
      /\ 1 < m.dh
  BY <1>4 DEF Proper, InPlace
<1>6. o.DHs <= s.DHs + 1
  BY <1>1, <1>2, AdjacentTo DEF InStepInv
<1>7. m.dh # s.DHs
  BY <1>1, <1>2, <1>5, RatchetAssumption DEF Draws, Parties
<1>8. ~Past(s, m)
  <2>1. m \in Waiting(p)
    BY <1>1 DEF Waiting
  <2> QED BY <1>4, <2>1 DEF Covers, Refuses
<1>9. m.dh = s.DHr \/ m.dh = s.DHr + 2
  BY <1>2, <1>5, <1>6, <1>7, <1>8 DEF Past
<1>10. HasSent(q, m.dh, m.n) /\ HasSent(q, m.dh - 2, m.pn)
  BY <1>4 DEF Counted
<1>11. \A y \in accepted : y.from = q => Past(s, y)
  BY <1>1, <1>4 DEF Overtakes, Opened
<1>12. ASSUME NEW pair \in Nat, NEW first \in Nat,
              pair <= m.dh,
              \A k \in first .. first + MAX_SKIP :
                /\ pair = m.dh => k < m.n
                /\ \E y \in sent : y.from = q /\ y.dh = pair /\ y.n = k,
              s.DHr < pair \/ (s.DHr = pair /\ s.Nr <= first)
       PROVE  LongGap(m)
  <2>1. ASSUME NEW k \in first .. first + MAX_SKIP
        PROVE  \E y \in sent \ accepted : Before(y, m) /\ y.dh = pair /\ y.n = k
    <3>1. PICK y \in sent : y.from = q /\ y.dh = pair /\ y.n = k
      BY <1>12
    <3>2. ~Past(s, y)
      BY <1>2, <1>3, <1>12, <3>1 DEF Past
    <3>3. y \notin accepted
      BY <1>11, <3>1, <3>2
    <3>4. Before(y, m)
      BY <1>2, <1>12, <3>1 DEF Before
    <3> QED BY <3>1, <3>3, <3>4
  <2>2. first \in first .. first + MAX_SKIP
    BY <1>3
  <2>3. PICK y \in sent \ accepted : Before(y, m) /\ y.dh = pair /\ y.n = first
    BY <2>1, <2>2
  <2> QED BY <2>1, <2>3 DEF LongGap
<1>13. CASE m.dh # s.DHr /\ TooManySkipped(s, m.pn)
  <2>1. m.dh - 2 = s.DHr /\ s.Nr + MAX_SKIP < m.pn
    BY <1>2, <1>9, <1>13 DEF TooManySkipped
  <2>2. \A k \in s.Nr .. s.Nr + MAX_SKIP : k \in 0 .. m.pn - 1
    BY <1>2, <1>3, <2>1
  <2>3. \A k \in s.Nr .. s.Nr + MAX_SKIP :
          \E y \in sent : y.from = q /\ y.dh = s.DHr /\ y.n = k
    BY <1>10, <2>1, <2>2 DEF HasSent
  <2>4. s.DHr <= m.dh /\ s.DHr # m.dh
    BY <1>2, <2>1
  <2> HIDE DEF s, q
  <2> QED BY <1>2, <1>12, <2>3, <2>4
<1>14. CASE m.dh = s.DHr /\ TooManySkipped(s, m.n)
  <2>1. s.Nr + MAX_SKIP < m.n
    BY <1>14 DEF TooManySkipped
  <2>2. \A k \in s.Nr .. s.Nr + MAX_SKIP : k \in 0 .. m.n - 1 /\ k < m.n
    BY <1>2, <1>3, <2>1
  <2>3. \A k \in s.Nr .. s.Nr + MAX_SKIP :
          \E y \in sent : y.from = q /\ y.dh = m.dh /\ y.n = k
    BY <1>10, <2>2 DEF HasSent
  <2> HIDE DEF s, q
  <2> QED BY <1>2, <1>12, <1>14, <2>2, <2>3
<1>15. CASE m.dh # s.DHr /\ TooManySkipped(Turned(s, m), m.n)
  <2>1. Turned(s, m).Nr = 0
    <3>1. Turned(s, m) = dhRatchet(skipMessageKeys(s, m.pn), m.dh, nextKey)
      BY <1>15 DEF Turned
    <3>2. IsState(skipMessageKeys(s, m.pn))
      BY <1>2, SkipType
    <3> HIDE DEF s
    <3>3. AfterRatchet(skipMessageKeys(s, m.pn), m.dh, nextKey, Turned(s, m))
      BY <1>2, <3>1, <3>2, RatchetMoves
    <3> QED BY <3>3 DEF AfterRatchet
  <2>2. MAX_SKIP < m.n
    BY <1>3, <1>15, <2>1 DEF TooManySkipped
  <2>3. \A k \in 0 .. 0 + MAX_SKIP : k \in 0 .. m.n - 1 /\ k < m.n
    BY <1>2, <1>3, <2>2
  <2>4. \A k \in 0 .. 0 + MAX_SKIP :
          \E y \in sent : y.from = q /\ y.dh = m.dh /\ y.n = k
    BY <1>10, <2>3 DEF HasSent
  <2>5. s.DHr < m.dh
    BY <1>2, <1>9, <1>15
  <2> HIDE DEF s, q
  <2> QED BY <1>2, <1>12, <2>3, <2>4, <2>5
<1> QED BY <1>13, <1>14, <1>15 DEF Refuses, Turned

(* A message that arrives for the first time decrypts, whatever was        *)
(* delayed or reordered and however often the ratchet turned, unless       *)
(* decrypt refuses it for more than MAX_SKIP messages in a row before it   *)
(* that have not been decrypted, a party fell back or a message was        *)
(* replayed before.                                                        *)
THEOREM MessagesDecrypt == SessionSpec => []InStepKept
<1>1. SessionSpec => [](TypeOK /\ StepInv)
  BY TypeInit, TypeStep, InStepInit, InStepStep, PTL DEF SessionSpec
<1>2. TypeOK /\ StepInv => InStepKept
  BY RefusedForGap DEF StepInv, InStepInv, InStepKept
<1> QED BY <1>1, <1>2, PTL
=============================================================================
