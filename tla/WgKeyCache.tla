----------------------------- MODULE WgKeyCache -----------------------------
(***************************************************************************)
(* The WireGuard key pair kept in the configuration                        *)
(* (rustlib/src/config/persistence.rs, WireGuardKeyCache), as operators    *)
(* on its value.  A key pair is named by its public key; `secret` names    *)
(* the key whose secret half is in memory, which the code has to check.    *)
(***************************************************************************)
CONSTANTS Keys, None

Stores == {"Plaintext", "Keychain", "Sealed", "None"}

KeyCache ==
  [type: {"absent", "plaintext", "sealed", "detached"},
   public: Keys \cup {None},
   secret: Keys \cup {None},
   age: {"unused", "young", "old"},    \* first_use: never, recently, over 30 days ago
   registered: BOOLEAN,                \* registered_at.is_some()
   old: SUBSET Keys]                   \* old_public_keys

EmptyCache == [type |-> "absent", public |-> None, secret |-> None,
               age |-> "unused", registered |-> FALSE, old |-> {}]

\* How the store keeps a new pair; a pair that cannot be sealed stays in memory.
PairType(store, sealed) ==
  CASE store = "Plaintext"           -> "plaintext"
    [] store = "Sealed" /\ sealed    -> "sealed"
    [] OTHER                         -> "detached"

\* Operators whose name begins with "Bad" are faulty variants of the operator
\* that follows them; only the sensitivity checks of PROJECT.json use them.

\* rotate_now_internal: k becomes current, what was current is remembered.
RotateNow(c, store, sealed, k) ==
  [type |-> PairType(store, sealed), public |-> k, secret |-> k,
   age |-> "unused", registered |-> FALSE,
   old |-> c.old \cup ({c.public} \ {None})]

\* ensure_key_pair: an absent pair, or one without its secret, is replaced.
EnsureKeyPair(c, store, sealed, k) ==
  IF c.secret # None THEN c ELSE RotateNow(c, store, sealed, k)

\* use_key_pair
UseKeyPair(c, store, sealed, k) ==
  LET e == EnsureKeyPair(c, store, sealed, k)
  IN  [e EXCEPT !.age = IF @ = "unused" THEN "young" ELSE @]

\* rotate_if_required
RotateIfRequired(c, store, sealed, k) ==
  IF c.age = "old" THEN RotateNow(c, store, sealed, k) ELSE c

\* The answer is taken to be for the current key; all old keys are dropped.
BadRegisteredAnyKey(c, key, removed) ==
  [c EXCEPT !.registered = TRUE, !.old = @ \ removed]

BadRegisteredClearsOld(c, key, removed) ==
  [c EXCEPT !.registered = @ \/ key = c.public, !.old = {}]

\* registered: the answer may be for a key that is not current any more.
Registered(c, key, removed) ==
  [c EXCEPT !.registered = @ \/ key = c.public,
            !.old = @ \ removed]

\* What reaches the disk: only plaintext pairs keep their secret.
Persisted(c) ==
  [c EXCEPT !.secret = IF c.type = "plaintext" THEN @ ELSE None]

\* Whatever the keychain holds is taken.
BadTrySetSecretKey(c, store, keychain, unsealable) ==
  CASE store = "Sealed" /\ c.type = "sealed" /\ unsealable ->
         [c EXCEPT !.secret = c.public]
    [] store = "Keychain" /\ c.type = "detached" -> [c EXCEPT !.secret = keychain]
    [] OTHER -> c

\* try_set_secret_key, after loading: the secret comes from the TPM or the
\* keychain and is taken only if it belongs to the persisted public key.
TrySetSecretKey(c, store, keychain, unsealable) ==
  CASE store = "Sealed" /\ c.type = "sealed" /\ unsealable ->
         [c EXCEPT !.secret = c.public]
    [] store = "Keychain" /\ c.type = "detached" /\ keychain = c.public ->
         [c EXCEPT !.secret = keychain]
    [] OTHER -> c
=============================================================================
