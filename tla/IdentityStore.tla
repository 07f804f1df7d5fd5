---------------------------- MODULE IdentityStore ----------------------------
(***************************************************************************)
(* api/src/crypto/identity-store.service.ts and the local part of          *)
(* api/src/blockchain/registry.service.ts.  An identity is written to a    *)
(* file of its own, then to identity.json, the file of earlier versions,   *)
(* which holds the latest one; only then is it in memory.  writeFile       *)
(* truncates the file first: a crash leaves it torn.  The local registry   *)
(* is in memory only.  An identity stands for its address and its keys.    *)
(***************************************************************************)
EXTENDS FiniteSets

CONSTANTS
  Addresses,           \* the identities that may exist
  Names,               \* the names users give them
  None

ASSUME IdentityAssumption ==
  /\ Names \cap Addresses = {}
  /\ None \notin Names \cup Addresses

Labels == Names \cup Addresses

VARIABLES
  up,                  \* the service has started
  files,               \* identities/<address>.json
  legacy,              \* identity.json: the identity in it
  label,               \* name || address, as both files have it
  identities,          \* in memory
  localRegistry,       \* label -> identity
  addressToName,       \* address -> label
  unsaved              \* history: found in identity.json and not copied

storeVars == <<up, files, legacy, label, identities, localRegistry,
               addressToName, unsaved>>

Absent == "no file"
Torn == "torn"
Saved == "saved"

(* identity.json may come from an earlier version, or from the command     *)
(* line.                                                                   *)
StoreInit ==
  /\ up = FALSE
  /\ files = [a \in Addresses |-> Absent]
  /\ legacy \in Addresses \cup {None}
  /\ label \in [Addresses -> Labels]
  /\ \A a \in Addresses : label[a] \in Names \cup {a}
  /\ \A a \in Addresses : a # legacy => label[a] = a
  /\ identities = {}
  /\ localRegistry = [l \in Labels |-> None]
  /\ addressToName = [a \in Addresses |-> None]
  /\ unsaved = {}

-----------------------------------------------------------------------------
(* loadAllIdentities, before the service listens: a file that cannot be    *)
(* parsed is skipped; identity.json is loaded if its identity was not, and *)
(* then copied.  The copy may fail, or die with the process.               *)
Loaded == {a \in Addresses : files[a] = Saved}

Migrates == legacy \in Addresses /\ legacy \notin Loaded

loadAllIdentities ==
  /\ ~up
  /\ IF Migrates
     THEN \E outcome \in {Saved, Torn, Absent} :
            /\ files' = [files EXCEPT ![legacy] =
                           IF outcome = Absent THEN @ ELSE outcome]
            /\ unsaved' = IF outcome = Saved THEN unsaved
                          ELSE unsaved \cup {legacy}
            /\ identities' = Loaded \cup {legacy}
     ELSE identities' = Loaded /\ UNCHANGED <<files, unsaved>>
  /\ up' = TRUE
  /\ UNCHANGED <<legacy, label, localRegistry, addressToName>>

DiesLoading ==
  /\ ~up
  /\ Migrates
  /\ files' = [files EXCEPT ![legacy] = Torn]
  /\ UNCHANGED <<up, legacy, label, identities, localRegistry, addressToName,
                 unsaved>>

(* getIdentity: what is not in memory is looked for on disk.               *)
getIdentity(a) ==
  identities' = identities \cup (IF files[a] = Saved THEN {a} ELSE {})

-----------------------------------------------------------------------------
(* createIdentity: the first writeFile begins, ends and the second begins, *)
(* the second ends.  Two at once may leave identity.json torn.             *)
BeginCreate(a, l) ==
  /\ files[a] = Absent /\ legacy # a
  /\ files' = [files EXCEPT ![a] = Torn]
  /\ label' = [label EXCEPT ![a] = l]
  /\ UNCHANGED <<legacy, identities>>

(* Faulty variant: the write of the own file is not awaited.               *)
NotAwaited(a) ==
  /\ legacy' = Torn
  /\ UNCHANGED <<files, label, identities>>

OwnFileWritten(a) ==
  /\ files' = [files EXCEPT ![a] = Saved]
  /\ legacy' = Torn
  /\ UNCHANGED <<label, identities>>

LegacyWritten(a, alone) ==
  /\ legacy' \in IF alone THEN {a} ELSE {a, Torn}
  /\ identities' = identities \cup {a}
  /\ UNCHANGED <<files, label>>

-----------------------------------------------------------------------------
(* Maps: what was there under the name or the address is replaced.         *)
registerLocal(a) ==
  /\ localRegistry' = [localRegistry EXCEPT ![label[a]] = a]
  /\ addressToName' = [addressToName EXCEPT ![a] = label[a]]

(* By way of the name.                                                     *)
lookupLocalByAddress(a) ==
  IF addressToName[a] = None THEN None ELSE localRegistry[addressToName[a]]

StoreCrash ==
  /\ up' = FALSE
  /\ identities' = {}
  /\ localRegistry' = [l \in Labels |-> None]
  /\ addressToName' = [a \in Addresses |-> None]
  /\ UNCHANGED <<files, legacy, label, unsaved>>

(* No identity the service works with is lost with the process: its file,  *)
(* or identity.json, has it - except one found in identity.json whose copy *)
(* failed, which the next identity created overwrites.                     *)
IdentityKept ==
  \A a \in identities : files[a] = Saved \/ legacy = a \/ a \in unsaved
=============================================================================
