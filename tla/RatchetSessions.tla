--------------------------- MODULE RatchetSessions ---------------------------
(***************************************************************************)
(* DoubleRatchet with the storage of sessions: SessionManager in           *)
(* src/crypto/double-ratchet.js, and the same ratchet in                   *)
(* api/src/crypto/double-ratchet.service.ts, whose callers keep the        *)
(* serialized state.  A session is saved when it is created; after that    *)
(* only if a caller asks for it.  A process that restarts goes on from     *)
(* what was saved last.                                                    *)
(***************************************************************************)
EXTENDS DoubleRatchet

CONSTANT MaxRestarts     \* bound: restarts of both parties together

ASSUME RestartAssumption == MaxRestarts \in Nat

VARIABLES
  db,          \* party -> the session as saved
  restarts,
  rolledBack   \* history: parties that went on from a state they had left

sessionVars == <<db, restarts, rolledBack>>

SessionInit ==
  /\ Init
  /\ db = state                \* createSession saves
  /\ restarts = 0
  /\ rolledBack = {}

(* Faulty variant: the keys put aside are not among the saved fields.      *)
WithoutSkipped(s) == [s EXCEPT !.MKSKIPPED = <<>>]

(* deserialize of what serialize made: every field, in base64 and back.    *)
Restored(s) == s

(* serialize, of the session of the moment, and put.                       *)
saveSession(p) ==
  /\ db' = [db EXCEPT ![p] = state[p]]
  /\ UNCHANGED <<vars, restarts, rolledBack>>

(* The process restarts and getSession loads the session.                  *)
getSession(p) ==
  /\ restarts < MaxRestarts
  /\ restarts' = restarts + 1
  /\ state' = [state EXCEPT ![p] = Restored(db[p])]
  /\ rolledBack' = rolledBack \cup (IF db[p] = state[p] THEN {} ELSE {p})
  /\ UNCHANGED <<nextKey, sent, accepted, failed, replays, db>>

Encrypting == \E p \in Parties : encrypt(p)

Decrypting ==
  \E p \in Parties, m \in sent : DecryptSkipped(p, m) \/ DecryptNext(p, m)

Storing == \E p \in Parties : saveSession(p) \/ getSession(p)

SessionNext ==
  \/ (Encrypting \/ Decrypting) /\ UNCHANGED sessionVars
  \/ Storing

SessionSpec == SessionInit /\ [][SessionNext]_<<vars, sessionVars>>

-----------------------------------------------------------------------------
(* No key of a party seals two messages, over both directions, every turn  *)
(* of the ratchet, replays, and restarts of the other party whatever it    *)
(* lost; only a party that went on from a state it had left repeats keys.  *)
KeysOnce ==
  \A m1, m2 \in sent :
    (m1.key = m2.key /\ {m1.from, m2.from} \cap rolledBack = {}) => m1 = m2

(* A message of o's sender that was encrypted before o.                    *)
Before(x, o) == x.from = o.from /\ (x.dh < o.dh \/ (x.dh = o.dh /\ x.n < o.n))

(* More than MAX_SKIP messages in a row, sent before m, have not been      *)
(* decrypted.                                                              *)
LongGap(m) ==
  \E first \in {x \in sent \ accepted : Before(x, m)} :
    \A k \in first.n .. first.n + MAX_SKIP :
      \E x \in sent \ accepted : Before(x, m) /\ x.dh = first.dh /\ x.n = k

(* A message that arrives for the first time, in whatever order and after  *)
(* whatever losses, also when a party restarted in between from an up-to-  *)
(* date save, decrypts: no AEAD fails, and decrypt refuses a message only  *)
(* for a gap of more than MAX_SKIP messages before it.                     *)
InStepKept ==
  (replays = 0 /\ rolledBack = {}) =>
    /\ failed = {}
    /\ \A m \in sent \ accepted : Refuses(state[Peer(m.from)], m) => LongGap(m)

(* Forward secrecy over restarts: a recipient that did not fall back can   *)
(* no longer derive the key of a message it decrypted, neither from a key  *)
(* put aside nor from the receiving chain; no replay is ever accepted.     *)
SecrecyKept ==
  \A m \in accepted :
    LET s == state[Peer(m.from)]
    IN  Peer(m.from) \notin rolledBack =>
          /\ \A k \in DOMAIN s.MKSKIPPED : s.MKSKIPPED[k] # m.key
          /\ ~(s.CKr.root = m.key.root /\ s.CKr.step <= m.key.step)
=============================================================================
