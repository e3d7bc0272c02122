------------------------------ MODULE SealingKey ------------------------------
(***************************************************************************)
(* The TPM key that seals the WireGuard secret in the configuration file   *)
(* (rustlib/src/wg_key_store: mod.rs, windows.rs, linux.rs).               *)
(*                                                                         *)
(* What is sealed is bound to PCR 7, the measurement of the Secure Boot    *)
(* configuration.  Windows binds a persisted key, which the service        *)
(* replaces when it does not decrypt; Linux recreates the same primary key *)
(* every time and binds each sealed object.  Every request to the TPM may  *)
(* fail.                                                                   *)
(***************************************************************************)
CONSTANTS BootStates, None

VARIABLES
  windows,   \* or Linux
  boot,      \* what PCR 7 measured at the last boot
  key,       \* the PCR 7 to which the persisted key of Windows is bound
  blob,      \* the sealed secret in the configuration
  store,     \* WgKeyStore: "closed", "sealed", or "other" without the TPM
  unsealed,  \* the process has the secret that is sealed in blob
  trouble    \* history: since the secret was sealed the TPM failed, or the
             \* service was started in another boot state

vars == <<windows, boot, key, blob, store, unsealed, trouble>>

\* live: the key that sealed it has not been deleted.
Blobs == [boot : BootStates, live : BOOLEAN]

Init ==
  /\ windows \in BOOLEAN
  /\ boot \in BootStates
  /\ key = None
  /\ blob = None
  /\ store = "closed"
  /\ unsealed = FALSE
  /\ trouble = FALSE

-----------------------------------------------------------------------------
(* Opening and unsealing                                                   *)

\* Operators whose name begins with "Bad" are faulty variants of the operator
\* that follows them; only the sensitivity checks of PROJECT.json use them.

\* A key that opens is taken.
BadDecrypts == key # None

\* open_key: a key with a stale binding opens and encrypts, but does not decrypt.
Decrypts == key = boot

\* delete_key takes with it what the key has sealed.
DeleteKey == blob' = IF blob = None THEN None ELSE [blob EXCEPT !.live = FALSE]

\* create_key binds the new key to the present state.
CreateKey == DeleteKey /\ key' = boot

\* WindowsSealingKey::open: the key there is, or a new one instead of one that
\* is missing or failed the probe.  What fails may leave no key.
OpenWindows(works) ==
  \/ Decrypts /\ store' = "sealed" /\ UNCHANGED <<key, blob>>
  \/ (~Decrypts \/ ~works) /\ CreateKey /\ store' = "sealed"
  \/ /\ ~works /\ store' = "other"
     /\ \/ UNCHANGED <<key, blob>>
        \/ DeleteKey /\ key' = None

\* LinuxSealingKey::open: the primary key is derived from the TPM's seed.
OpenLinux(works) ==
  /\ store' \in (IF works THEN {"sealed"} ELSE {"sealed", "other"})
  /\ UNCHANGED <<key, blob>>

OpenStore ==
  /\ store = "closed"
  /\ \E works \in BOOLEAN :
       /\ IF windows THEN OpenWindows(works) ELSE OpenLinux(works)
       /\ trouble' = (trouble \/ ~works \/ (blob # None /\ blob.boot # boot))
  /\ UNCHANGED <<windows, boot, unsealed>>

\* The persisted key decrypts what it has sealed itself.
UnsealsWindows == blob.live /\ key = boot

\* The policy of the sealed object asks for the measurement at its creation.
UnsealsLinux == blob.boot = boot

Unseals == blob # None /\ (IF windows THEN UnsealsWindows ELSE UnsealsLinux)

\* The configuration is loaded.
Load ==
  /\ \E works \in BOOLEAN :
       /\ unsealed' = (store = "sealed" /\ Unseals /\ works)
       /\ trouble' = (trouble \/ ~works)
  /\ UNCHANGED <<windows, boot, key, blob, store>>

-----------------------------------------------------------------------------
(* Its use, and its end                                                    *)

\* sealed_object_public has the policy of the present state computed.
SealedObject == [boot |-> boot, live |-> TRUE]

\* The TPM creates the object, or the persisted key of Windows encrypts, which
\* it does in any boot state.
Seal ==
  /\ store = "sealed"
  /\ blob' = SealedObject
  /\ unsealed' = TRUE
  /\ trouble' = FALSE

\* The new pair is kept in another way, or the account and its keys are reset.
NotSealed == blob' = None /\ unsealed' = FALSE /\ trouble' = FALSE

NewKeyPair ==
  /\ Seal \/ NotSealed
  /\ UNCHANGED <<windows, boot, key, store>>

Close ==
  /\ store' = "closed" /\ unsealed' = FALSE
  /\ UNCHANGED <<windows, boot, key, blob, trouble>>

\* Secure Boot may have been changed.
Reboot ==
  /\ boot' \in BootStates
  /\ store' = "closed" /\ unsealed' = FALSE
  /\ UNCHANGED <<windows, key, blob, trouble>>
=============================================================================
