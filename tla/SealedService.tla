---------------------------- MODULE SealedService ----------------------------
(***************************************************************************)
(* The service together with the TPM key that it opens when it starts, in  *)
(* the order of service::run: the OS, the key store, the manager with its  *)
(* configuration.                                                          *)
(***************************************************************************)
EXTENDS Service

CONSTANTS
  BootStates,   \* what PCR 7 may measure
  None

ASSUME NoneIsNoBootState == None \notin BootStates

VARIABLES boot, key, blob, store, unsealed, trouble

Sealing == INSTANCE SealingKey

keyVars == <<boot, key, blob, store, unsealed, trouble>>

all == <<vars, keyVars>>

SealedInit == Init /\ Sealing!Init

\* WgKeyStore::sealed, after the OS is set up
StoreOpened ==
  /\ service = "starting"
  /\ Sealing!OpenStore
  /\ UNCHANGED vars

\* Manager::new
ManagerStarts ==
  /\ store # "closed"
  /\ Starts /\ Sealing!Load

\* Before or after the store was opened
StartEnds == StartFails /\ Sealing!Close

\* A pair is generated for a registration, a tunnel, or a rotation.
KeyPairGenerated ==
  /\ Runs
  /\ Sealing!NewKeyPair
  /\ UNCHANGED vars

ProcessEnds == (Reverted \/ Crash \/ Stop) /\ Sealing!Close

MachineReboots == Reboot /\ Sealing!Reboot

WithoutKey ==
  /\ \/ Begin \/ Revoked \/ RevokeTimesOut \/ Loop \/ Command
     \/ ShutdownRequested \/ StartRequested
     \/ OthersSetTarget \/ Give \/ GivesUp \/ OrphanExecuted
  /\ UNCHANGED keyVars

SealedNext ==
  \/ StoreOpened \/ ManagerStarts \/ StartEnds \/ KeyPairGenerated
  \/ ProcessEnds \/ MachineReboots \/ WithoutKey

\* A start with its key store ends.  The fairness of Service is assumed, too.
SealedSpec ==
  /\ SealedInit /\ [][SealedNext]_all
  /\ Fairness
  /\ WF_all(StoreOpened)

-----------------------------------------------------------------------------
(* Properties                                                              *)

\* A secret that was sealed is there after every restart and every reboot, as
\* long as the TPM works and the service is not started in another boot state:
\* no start leaves a key that seals and does not unseal.
SealedKeysReturn == Runs /\ blob # None /\ ~trouble => unsealed
=============================================================================
