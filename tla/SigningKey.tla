----------------------------- MODULE SigningKey -----------------------------
(***************************************************************************)
(* The registry's signing key: the backends of services/registry/src/      *)
(* signing.rs and the key that crates/registry/src/handlers/discovery.rs   *)
(* publishes.  Vault keeps numbered versions of the key and signs with the *)
(* newest; the process reads the newest public key once, when it starts.   *)
(* The development backend makes a key of its own at every start.          *)
(*                                                                         *)
(* A key is named by its version; what a version signed verifies with that *)
(* version's public key and no other.  The key id never changes.           *)
(***************************************************************************)
EXTENDS Naturals

CONSTANT KeyVersions    \* bound: versions of the key ever made, 1..KeyVersions

ASSUME KeyAssumption == KeyVersions \in Nat \ {0}

VARIABLES
  keyVault,      \* Vault: the newest version
  keyHeld,       \* the process: its backend, the version it publishes, and (history)
                 \* the newest one when it started
  keySigned      \* history: versions that signed for the process that runs now

keyVars == <<keyVault, keyHeld, keySigned>>

KeyDown == [backend |-> "none", public |-> 0, start |-> 0]

KeyInit == keyVault = 1 /\ keyHeld = KeyDown /\ keySigned = {}

\* A slip: the first version's public key.
KeyReadFirst == 1

\* VaultTransitBackend::new: the public key of `latest_version'.
KeyRead == keyVault

\* create_signing_backend; AWS and GCP are not implemented, and the process does
\* not start without Vault's answer.
KeyStart ==
  /\ keyHeld = KeyDown
  /\ \/ /\ keyHeld' = [backend |-> "vault", public |-> KeyRead, start |-> keyVault]
        /\ UNCHANGED keyVault
     \/ /\ keyVault < KeyVersions
        /\ keyVault' = keyVault + 1
        /\ keyHeld' = [backend |-> "development", public |-> keyVault + 1,
                       start |-> keyVault + 1]
  /\ UNCHANGED keySigned

KeyStop ==
  /\ keyHeld # KeyDown
  /\ keyHeld' = KeyDown /\ keySigned' = {}
  /\ UNCHANGED keyVault

\* sign: Vault takes the newest version there is, the response's version is
\* not looked at; the development backend its own.
KeySign ==
  /\ keyHeld # KeyDown
  /\ keySigned' = keySigned \cup
       {IF keyHeld.backend = "vault" THEN keyVault ELSE keyHeld.public}
  /\ UNCHANGED <<keyVault, keyHeld>>

\* An operator rotates the key in Vault.
KeyRotate ==
  /\ keyVault < KeyVersions
  /\ keyVault' = keyVault + 1
  /\ UNCHANGED <<keyHeld, keySigned>>

KeyNext == KeyStart \/ KeyStop \/ KeySign \/ KeyRotate

KeySpec == KeyInit /\ [][KeyNext]_keyVars

\* get_keys and get_discovery_document: what the backend read at its start.
KeyPublished == keyHeld.public

KeyTypeOK ==
  /\ keyVault \in 1..KeyVersions
  /\ keyHeld \in [backend : {"none", "vault", "development"}, public : 0..KeyVersions,
                  start : 0..KeyVersions]
  /\ keySigned \subseteq 1..KeyVersions

\* The key the registry publishes verifies everything this process has signed,
\* until the key is rotated in Vault; from then on it does not verify what is
\* signed, and only a restart helps.  The development backend is not affected.
KeyPublishedVerifies ==
  \A v \in keySigned :
    \/ v = KeyPublished
    \/ keyHeld.backend = "vault" /\ keyHeld.start < v
=============================================================================
