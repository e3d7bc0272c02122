------------------------------- MODULE WgKeys -------------------------------
(***************************************************************************)
(* The life of the WireGuard key: memory, configuration file, keychain and *)
(* the set of keys the API server holds for the account                    *)
(* (client_state.rs, config/mod.rs, on the operators of WgKeyCache).       *)
(*                                                                         *)
(* The registration task, tunnel attempts, the reconciliation loop and     *)
(* user commands all change the cache, each in one exclusive step, while a *)
(* registration request is on its way.  Saving may fail, and the process   *)
(* may end at any time and start again from what was saved.                *)
(***************************************************************************)
EXTENDS WgKeyCache

ASSUME NoneIsNoKey == None \notin Keys

VARIABLES
  mem,        \* the Config in memory: is an account set, and the key cache
  disk,       \* the configuration file
  dirty,      \* ConfigHandle::dirty
  store,      \* the kind of WgKeyStore this process runs with
  keychain,   \* the key whose secret the keychain holds
  server,     \* keys the server holds for the present login
  req,        \* the registration request under way
  generated,  \* keys that were ever generated
  strays,     \* keys that reached the server from an earlier login
  lost        \* an exit has lost unsaved changes of the present login

vars == <<mem, disk, dirty, store, keychain, server, req, generated, strays, lost>>

Config == [login: BOOLEAN, cache: KeyCache]

\* stale: prepared under an earlier login.  foreign: sent for an earlier login.
Request == [phase: {"idle", "prepared", "sent", "answered", "refused"},
            key: Keys \cup {None}, old: SUBSET Keys,
            stale: BOOLEAN, foreign: BOOLEAN]

Idle == [phase |-> "idle", key |-> None, old |-> {}, stale |-> FALSE, foreign |-> FALSE]

Init ==
  /\ mem = [login |-> FALSE, cache |-> EmptyCache]
  /\ disk = mem
  /\ dirty = FALSE
  /\ store \in Stores
  /\ keychain = None
  /\ server = {}
  /\ req = Idle
  /\ generated = {}
  /\ strays = {}
  /\ lost = FALSE

-----------------------------------------------------------------------------
\* ConfigHandle::change: the new configuration replaces the old one whether or
\* not it can be saved; unsaved changes are saved with the next change.
Save(new) ==
  \/ disk' = [new EXCEPT !.cache = Persisted(new.cache)] /\ dirty' = FALSE
  \/ disk' = disk /\ dirty' = TRUE

Change(new) ==
  /\ mem' = new
  /\ IF dirty \/ new # mem THEN Save(new) ELSE UNCHANGED <<disk, dirty>>

\* Candidates for the key that an operation on the cache generates, if it does.
NewKeys(rotates) == IF rotates THEN Keys \ generated ELSE {None}

\* The cache becomes new, in which k was generated.  Setting the keychain may
\* fail, which is only logged.
ChangeCache(new, k) ==
  /\ Change([mem EXCEPT !.cache = new])
  /\ generated' = generated \cup ({k} \ {None})
  /\ keychain' \in IF k # None /\ store = "Keychain" THEN {keychain, k} ELSE {keychain}

-----------------------------------------------------------------------------
(* Registration: register_cached_wireguard_key_if_new                      *)

PrepareRegistration ==
  /\ req.phase = "idle"
  /\ \E sealed \in BOOLEAN, k \in NewKeys(mem.cache.secret = None) :
       ChangeCache(EnsureKeyPair(mem.cache, store, sealed, k), k)
  /\ req' = IF mem'.cache.registered THEN req
            ELSE [Idle EXCEPT !.phase = "prepared", !.key = mem'.cache.public, !.old = mem'.cache.old]
  /\ UNCHANGED <<store, server, strays, lost>>

\* api_client: the client of whatever account is set by now; none, no request.
SendRegistration ==
  /\ req.phase = "prepared"
  /\ req' = IF mem.login THEN [req EXCEPT !.phase = "sent"] ELSE Idle
  /\ UNCHANGED <<mem, disk, dirty, store, keychain, server, generated, strays, lost>>

\* The server removes the previous keys and adds the new one.
ServerRegisters ==
  /\ req.phase = "sent"
  /\ req' = [req EXCEPT !.phase = "answered"]
  /\ server' = IF req.foreign THEN server ELSE (server \ req.old) \cup {req.key}
  /\ strays' = IF req.stale /\ ~req.foreign THEN strays \cup {req.key} ELSE strays
  /\ UNCHANGED <<mem, disk, dirty, store, keychain, generated, lost>>

\* The server answers that the key has to be rotated first.
ServerRefuses ==
  /\ req.phase = "sent"
  /\ req' = [req EXCEPT !.phase = "refused"]
  /\ UNCHANGED <<mem, disk, dirty, store, keychain, server, generated, strays, lost>>

RegistrationSucceeds ==
  /\ req.phase = "answered"
  /\ Change([mem EXCEPT !.cache = Registered(mem.cache, req.key, req.old)])
  /\ req' = Idle
  /\ UNCHANGED <<store, keychain, server, generated, strays, lost>>

RegistrationRefused ==
  /\ req.phase = "refused"
  /\ \E sealed \in BOOLEAN, k \in NewKeys(TRUE) :
       ChangeCache(RotateNow(mem.cache, store, sealed, k), k)
  /\ req' = Idle
  /\ UNCHANGED <<store, server, strays, lost>>

\* The request failed, before or after the server processed it.
RegistrationFails ==
  /\ req.phase \in {"sent", "answered", "refused"}
  /\ req' = Idle
  /\ UNCHANGED <<mem, disk, dirty, store, keychain, server, generated, strays, lost>>

-----------------------------------------------------------------------------
(* The other users of the cache                                            *)

\* new_tunnel takes the key pair for a tunnel.
UseKey ==
  /\ \E sealed \in BOOLEAN, k \in NewKeys(mem.cache.secret = None) :
       ChangeCache(UseKeyPair(mem.cache, store, sealed, k), k)
  /\ UNCHANGED <<store, server, req, strays, lost>>

\* rotate_wireguard_key_if_required, when the reconciliation loop disconnects.
RotateAged ==
  /\ \E sealed \in BOOLEAN, k \in NewKeys(mem.cache.age = "old") :
       ChangeCache(RotateIfRequired(mem.cache, store, sealed, k), k)
  /\ UNCHANGED <<store, server, req, strays, lost>>

\* rotate_wg_key, set_api_url, or new_tunnel when the server demands it.
Rotate ==
  /\ \E sealed \in BOOLEAN, k \in NewKeys(TRUE) :
       ChangeCache(RotateNow(mem.cache, store, sealed, k), k)
  /\ UNCHANGED <<store, server, req, strays, lost>>

\* Any other setting changes, an API answer's authentication token among them;
\* the whole configuration is saved.
ChangeSettings ==
  /\ Save(mem)
  /\ UNCHANGED <<mem, store, keychain, server, req, generated, strays, lost>>

\* Thirty days pass since the first use.
Age ==
  /\ mem.cache.age = "young"
  /\ mem' = [mem EXCEPT !.cache.age = "old"]
  /\ disk' = IF disk.cache.age = "young" THEN [disk EXCEPT !.cache.age = "old"] ELSE disk
  /\ UNCHANGED <<dirty, store, keychain, server, req, generated, strays, lost>>

\* set_account_id with another account, or none: the configuration is reset,
\* the keys of the earlier login are forgotten on purpose.
SwitchAccount ==
  /\ \E l \in BOOLEAN :
       /\ l \/ mem.login
       /\ Change([login |-> l, cache |-> EmptyCache])
  /\ server' = {}
  /\ strays' = {}
  /\ lost' = FALSE
  /\ req' = CASE req.phase = "idle"     -> req
              [] req.phase = "prepared" -> [req EXCEPT !.stale = TRUE]
              [] OTHER                  -> [req EXCEPT !.stale = TRUE, !.foreign = TRUE]
  /\ UNCHANGED <<store, keychain, generated>>

\* The process ends and starts again, possibly with another key store (the
\* TPM may have become unavailable), from what was saved.
Restart ==
  /\ store' \in Stores
  /\ \E unsealable \in BOOLEAN :
       mem' = [disk EXCEPT !.cache = TrySetSecretKey(disk.cache, store', keychain, unsealable)]
  /\ dirty' = FALSE
  /\ lost' = (lost \/ dirty)
  /\ req' = Idle
  /\ UNCHANGED <<disk, keychain, server, generated, strays>>

\* load, when the file cannot be parsed: it is moved away for a backup, and the
\* default configuration takes its place, by this start or, should it fail to be
\* saved, by the next one.  The login is gone, too.
RestartWithoutConfig ==
  /\ store' \in Stores
  /\ mem' = [login |-> FALSE, cache |-> EmptyCache]
  /\ disk' = mem'
  /\ dirty' = FALSE
  /\ server' = {}
  /\ strays' = {}
  /\ lost' = FALSE
  /\ req' = Idle
  /\ UNCHANGED <<keychain, generated>>

Next ==
  \/ PrepareRegistration \/ SendRegistration
  \/ ServerRegisters \/ ServerRefuses
  \/ RegistrationSucceeds \/ RegistrationRefused \/ RegistrationFails
  \/ UseKey \/ RotateAged \/ Rotate \/ ChangeSettings \/ Age
  \/ SwitchAccount \/ Restart \/ RestartWithoutConfig

Spec == Init /\ [][Next]_vars

-----------------------------------------------------------------------------
(* Properties                                                              *)

Known == ({mem.cache.public} \ {None}) \cup mem.cache.old

\* Every variable has its shape.
TypeOK ==
  /\ mem \in Config /\ disk \in Config
  /\ dirty \in BOOLEAN /\ lost \in BOOLEAN
  /\ store \in Stores
  /\ keychain \in Keys \cup {None}
  /\ server \subseteq Keys /\ generated \subseteq Keys /\ strays \subseteq Keys
  /\ req \in Request

\* No key is ever used with a secret that belongs to another one, whatever the
\* keychain, the TPM and the disk hold after a restart.
SecretMatchesPublic == mem.cache.secret \in {None, mem.cache.public}

\* The server holds no key of this login that the client has forgotten: it is
\* current, or queued for removal.  Rotations during a request, failed and
\* repeated requests, failed saves and restarts do not break this.
NoKeyForgotten == ~lost => server \subseteq Known \cup strays

\* A key that is believed registered is: the client would never try again.
RegisteredAtServer ==
  ~lost /\ mem.cache.registered => mem.cache.public \in server

\* What the client believes of the server and what the server holds fit.
ServerAgrees == NoKeyForgotten /\ RegisteredAtServer

\* Without unsaved changes a restart finds the configuration as it was.
CleanMeansSaved ==
  ~dirty => disk = [mem EXCEPT !.cache = Persisted(mem.cache)]

\* A secret reaches the configuration file only if it is kept in plain text.
SecretsStayInMemory == disk.cache.type = "plaintext" \/ disk.cache.secret = None

\* A request under way names the keys of the cache it was prepared from: they
\* are still known if the login is the same, and unknown to any later login.
RequestMatchesCache ==
  req.phase # "idle" =>
    /\ req.key # None /\ req.key \notin req.old
    /\ req.foreign => req.stale
    /\ ~req.stale => req.key \in Known /\ req.old \subseteq mem.cache.old
    /\ req.stale => ({req.key} \cup req.old) \cap Known = {}
    /\ req.phase = "answered" /\ ~req.stale => req.key \in server /\ req.old \cap server = {}

\* Keys are fresh when they are generated, and no key comes back once rotated.
CacheOK(c) ==
  /\ c.secret \in {None, c.public}
  /\ c.public \notin c.old
  /\ c.old \subseteq generated
  /\ c.public \in generated \cup {None}

AllGenerated ==
  /\ CacheOK(mem.cache) /\ CacheOK(disk.cache)
  /\ keychain \in generated \cup {None}
  /\ server \subseteq generated
  /\ req.key \in generated \cup {None} /\ req.old \subseteq generated

\* The inductive invariant.
IInv ==
  /\ TypeOK
  /\ AllGenerated
  /\ CleanMeansSaved
  /\ SecretsStayInMemory
  /\ RequestMatchesCache
  /\ NoKeyForgotten
  /\ RegisteredAtServer

\* An old key leaves the list only when the server has removed it.
OldKeysAreRevoked ==
  [][~lost' /\ mem'.cache.public # None =>
       (mem.cache.old \ mem'.cache.old) \cap server' = {}]_vars
=============================================================================
