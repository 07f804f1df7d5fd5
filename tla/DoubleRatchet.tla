----------------------------- MODULE DoubleRatchet -----------------------------
(***************************************************************************)
(* A conversation of two DoubleRatchetSessions                             *)
(* (src/crypto/double-ratchet.js) over a network that loses, delays,       *)
(* reorders and duplicates messages.                                       *)
(*                                                                         *)
(* Keys are symbolic.  A key pair is a number, drawn in order; the Diffie- *)
(* Hellman output of two of them is the set of both; a root key is the     *)
(* sequence of the outputs mixed in since the shared secret; a chain key   *)
(* is the root step that made it with the number of kdfCK steps since, and *)
(* the message key of a chain key is named by that chain key.  An AEAD     *)
(* opens only under the key that sealed it.                                *)
(***************************************************************************)
EXTENDS Integers, Sequences, FiniteSets

CONSTANTS
  Alice, Bob,     \* the initiator and the responder
  MAX_SKIP,
  MaxKeys,        \* bound: key pairs generated
  MaxSent,        \* bound: messages encrypted
  MaxReplays      \* bound: deliveries of a message already processed

ASSUME RatchetAssumption ==
  /\ Alice # Bob
  /\ MAX_SKIP \in Nat /\ MaxKeys \in Nat /\ MaxSent \in Nat /\ MaxReplays \in Nat

VARIABLES
  state,      \* party -> DoubleRatchetState
  nextKey,    \* the next key pair generateKeyPair returns
  sent,       \* the messages encrypted, each with the key that sealed it
  accepted,   \* history: the messages that decrypted
  failed,     \* history: the messages whose AEAD did not open
  replays     \* history: deliveries of a message already processed

vars == <<state, nextKey, sent, accepted, failed, replays>>

Parties == {Alice, Bob}
Peer(p) == IF p = Alice THEN Bob ELSE Alice

NoKey == 0
NoChain == [root |-> <<>>, step |-> 0]

-----------------------------------------------------------------------------
dh(i, j) == {i, j}

kdfRK(rootKey, dhOutput) ==
  LET root == Append(rootKey, dhOutput)
  IN  [rootKey |-> root, chainKey |-> [root |-> root, step |-> 0]]

(* kdfCK yields the next chain key; the message key is named by chainKey.  *)
kdfCK(chainKey) == [chainKey EXCEPT !.step = @ + 1]

(* The signed pre-key of Bob is pair 1, the pair Alice generates is 2.     *)
initAsInitiator ==
  LET k == kdfRK(<<>>, dh(2, 1))
  IN  [DHs |-> 2, DHr |-> 1, RK |-> k.rootKey, CKs |-> k.chainKey,
       CKr |-> NoChain, Ns |-> 0, Nr |-> 0, PN |-> 0, MKSKIPPED |-> <<>>]

initAsResponder ==
  [DHs |-> 1, DHr |-> NoKey, RK |-> <<>>, CKs |-> NoChain,
   CKr |-> NoChain, Ns |-> 0, Nr |-> 0, PN |-> 0, MKSKIPPED |-> <<>>]

Init ==
  /\ state = [p \in Parties |->
                IF p = Alice THEN initAsInitiator ELSE initAsResponder]
  /\ nextKey = 3
  /\ sent = {} /\ accepted = {} /\ failed = {} /\ replays = 0

-----------------------------------------------------------------------------
(* Without a sending chain kdfCK throws and nothing has changed.           *)
encrypt(p) ==
  LET s == state[p] IN
  /\ s.CKs # NoChain
  /\ Cardinality(sent) < MaxSent
  /\ sent' = sent \cup {[from |-> p, dh |-> s.DHs, pn |-> s.PN, n |-> s.Ns,
                         key |-> s.CKs]}
  /\ state' = [state EXCEPT ![p].CKs = kdfCK(@), ![p].Ns = @ + 1]
  /\ UNCHANGED <<nextKey, accepted, failed, replays>>

TooManySkipped(s, until) == s.Nr + MAX_SKIP < until

(* The message keys Nr .. until-1 of the receiving chain are put aside.    *)
skipMessageKeys(s, until) ==
  IF s.CKr = NoChain \/ s.Nr >= until THEN s
  ELSE LET skipped == {s.DHr} \X (s.Nr .. until - 1)
       IN  [s EXCEPT
              !.CKr.step = @ + (until - s.Nr),
              !.Nr = until,
              !.MKSKIPPED = [k \in DOMAIN s.MKSKIPPED \cup skipped |->
                 IF k \in skipped
                 THEN [s.CKr EXCEPT !.step = @ + (k[2] - s.Nr)]
                 ELSE s.MKSKIPPED[k]]]

(* Faulty variant: the sending chain is made with the old key pair.        *)
KeepSendingPair(s, theirPublicKey, fresh) ==
  LET k1 == kdfRK(s.RK, dh(s.DHs, theirPublicKey))
  IN  [s EXCEPT !.PN = s.Ns, !.Ns = 0, !.Nr = 0, !.DHr = theirPublicKey,
                !.RK = k1.rootKey, !.CKr = k1.chainKey, !.CKs = k1.chainKey]

dhRatchet(s, theirPublicKey, fresh) ==
  LET k1 == kdfRK(s.RK, dh(s.DHs, theirPublicKey))
      k2 == kdfRK(k1.rootKey, dh(fresh, theirPublicKey))
  IN  [s EXCEPT !.PN = s.Ns, !.Ns = 0, !.Nr = 0,
                !.DHr = theirPublicKey, !.DHs = fresh,
                !.RK = k2.rootKey, !.CKr = k1.chainKey, !.CKs = k2.chainKey]

(* The session decrypt looks for the key of m in: after a turn of the      *)
(* ratchet if m comes under another pair than the last.                    *)
Turned(s, m) ==
  IF m.dh # s.DHr THEN dhRatchet(skipMessageKeys(s, m.pn), m.dh, nextKey) ELSE s

(* decrypt throws 'Too many skipped messages': of the old chain, before    *)
(* anything has changed, or of the chain m is on, after the turn.          *)
Refuses(s, m) ==
  /\ <<m.dh, m.n>> \notin DOMAIN s.MKSKIPPED
  /\ \/ m.dh # s.DHr /\ TooManySkipped(s, m.pn)
     \/ TooManySkipped(Turned(s, m), m.n)

(* What decrypt does to the histories, given the key it tries.             *)
Open(m, messageKey) ==
  /\ accepted' = IF messageKey = m.key THEN accepted \cup {m} ELSE accepted
  /\ failed' = IF messageKey = m.key THEN failed ELSE failed \cup {m}

Delivered(p, m) ==
  /\ m \in sent /\ m.from = Peer(p)
  /\ replays < MaxReplays \/ m \notin accepted \cup failed
  /\ replays' = IF m \in accepted \cup failed THEN replays + 1 ELSE replays
  /\ UNCHANGED sent

(* Faulty variant: the key put aside is used and kept.                     *)
UseAndKeep(p, m) ==
  /\ Delivered(p, m)
  /\ <<m.dh, m.n>> \in DOMAIN state[p].MKSKIPPED
  /\ Open(m, state[p].MKSKIPPED[<<m.dh, m.n>>])
  /\ UNCHANGED <<state, nextKey>>

(* decrypt, for a message whose key was put aside: it is deleted before    *)
(* the AEAD is tried.                                                      *)
DecryptSkipped(p, m) ==
  /\ Delivered(p, m)
  /\ <<m.dh, m.n>> \in DOMAIN state[p].MKSKIPPED
  /\ Open(m, state[p].MKSKIPPED[<<m.dh, m.n>>])
  /\ state' = [state EXCEPT ![p].MKSKIPPED =
                 [k \in DOMAIN @ \ {<<m.dh, m.n>>} |-> @[k]]]
  /\ UNCHANGED nextKey

(* decrypt, for any other message.  Every change made before an exception  *)
(* (too many skipped messages, an AEAD that does not open) stays.          *)
DecryptNext(p, m) ==
  LET s == state[p]
      turn == m.dh # s.DHr
      s1 == Turned(s, m)
      s2 == skipMessageKeys(s1, m.n)
  IN  /\ Delivered(p, m)
      /\ <<m.dh, m.n>> \notin DOMAIN s.MKSKIPPED
      /\ turn => /\ ~TooManySkipped(s, m.pn)
                 /\ nextKey <= MaxKeys
      /\ nextKey' = IF turn THEN nextKey + 1 ELSE nextKey
      /\ \/ /\ TooManySkipped(s1, m.n)
            /\ state' = [state EXCEPT ![p] = s1]
            /\ UNCHANGED <<accepted, failed>>
         \/ /\ ~TooManySkipped(s1, m.n)
            /\ Open(m, s2.CKr)
            /\ state' = [state EXCEPT ![p] =
                           [s2 EXCEPT !.CKr = kdfCK(@), !.Nr = @ + 1]]

=============================================================================
