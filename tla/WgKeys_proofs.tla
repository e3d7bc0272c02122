---------------------------- MODULE WgKeys_proofs ----------------------------
(***************************************************************************)
(* Proofs about the WireGuard keys, for every set of keys: what memory,    *)
(* disk, keychain and server know of each other's keys.                    *)
(***************************************************************************)
EXTENDS WgKeys, TLAPS

-----------------------------------------------------------------------------
(* The operations on a cache                                               *)

\* What an operation that generates k makes of cache c, and one that does not.
IsRotation(c, n, k) ==
  /\ n \in KeyCache
  /\ n.public = k /\ n.secret = k /\ n.registered = FALSE
  /\ n.old = c.old \cup ({c.public} \ {None})

KeepsKeys(c, n) ==
  /\ n \in KeyCache
  /\ n.public = c.public /\ n.secret = c.secret /\ n.registered = c.registered
  /\ n.old = c.old

\* A rotation remembers the key that was current.
LEMMA RotateNowResult ==
  ASSUME NEW c \in KeyCache, NEW st, NEW sealed \in BOOLEAN, NEW k \in Keys
  PROVE  IsRotation(c, RotateNow(c, st, sealed, k), k)
<1>1. PairType(st, sealed) \in {"absent", "plaintext", "sealed", "detached"}
  BY DEF PairType
<1>2. c.old \cup ({c.public} \ {None}) \in SUBSET Keys
  BY DEF KeyCache
<1> QED
  BY <1>1, <1>2 DEF RotateNow, IsRotation, KeyCache

\* Using the pair generates one exactly if no secret is in memory.
LEMMA UseKeyPairResult ==
  ASSUME NEW c \in KeyCache, NEW st, NEW sealed \in BOOLEAN, NEW k
  PROVE  /\ (c.secret = None /\ k \in Keys) =>
              /\ IsRotation(c, EnsureKeyPair(c, st, sealed, k), k)
              /\ IsRotation(c, UseKeyPair(c, st, sealed, k), k)
         /\ c.secret # None =>
              /\ KeepsKeys(c, EnsureKeyPair(c, st, sealed, k))
              /\ KeepsKeys(c, UseKeyPair(c, st, sealed, k))
<1>1. ASSUME NEW e \in KeyCache
      PROVE  LET u == [e EXCEPT !.age = IF @ = "unused" THEN "young" ELSE @]
             IN  /\ u \in KeyCache /\ u.public = e.public /\ u.secret = e.secret
                 /\ u.registered = e.registered /\ u.old = e.old
  BY DEF KeyCache
<1>2. CASE c.secret = None /\ k \in Keys
  <2>1. EnsureKeyPair(c, st, sealed, k) = RotateNow(c, st, sealed, k)
    BY <1>2 DEF EnsureKeyPair
  <2>2. IsRotation(c, EnsureKeyPair(c, st, sealed, k), k)
    BY <1>2, <2>1, RotateNowResult
  <2>3. IsRotation(c, UseKeyPair(c, st, sealed, k), k)
    <3> DEFINE e == EnsureKeyPair(c, st, sealed, k)
    <3>1. e \in KeyCache
      BY <2>2 DEF IsRotation
    <3>2. UseKeyPair(c, st, sealed, k) = [e EXCEPT !.age = IF @ = "unused" THEN "young" ELSE @]
      BY DEF UseKeyPair
    <3> HIDE DEF e
    <3> QED
      BY <1>1, <2>2, <3>1, <3>2 DEF IsRotation, e
  <2> QED
    BY <1>2, <2>2, <2>3
<1>3. CASE c.secret # None
  <2>1. EnsureKeyPair(c, st, sealed, k) = c
    BY <1>3 DEF EnsureKeyPair
  <2> QED
    BY <1>1, <1>3, <2>1 DEF UseKeyPair, KeepsKeys
<1> QED
  BY <1>2, <1>3

\* Only an old key is rotated when its age is looked at.
LEMMA RotateIfRequiredResult ==
  ASSUME NEW c \in KeyCache, NEW st, NEW sealed \in BOOLEAN, NEW k
  PROVE  /\ (c.age = "old" /\ k \in Keys) => IsRotation(c, RotateIfRequired(c, st, sealed, k), k)
         /\ c.age # "old" => KeepsKeys(c, RotateIfRequired(c, st, sealed, k))
BY RotateNowResult DEF RotateIfRequired, KeepsKeys

\* A loaded cache has the persisted one's keys and a secret that fits.
LEMMA TrySetSecretKeyResult ==
  ASSUME NEW c \in KeyCache, NEW st, NEW kc \in Keys \cup {None}, NEW u \in BOOLEAN
  PROVE  LET n == TrySetSecretKey(c, st, kc, u)
         IN  /\ n \in KeyCache
             /\ n.public = c.public /\ n.old = c.old /\ n.registered = c.registered
             /\ n.secret \in {c.secret, c.public}
<1>1. [c EXCEPT !.secret = c.public] \in KeyCache
  BY DEF KeyCache
<1>2. kc = c.public => [c EXCEPT !.secret = kc] = [c EXCEPT !.secret = c.public]
  OBVIOUS
<1>3. TrySetSecretKey(c, st, kc, u) \in {c, [c EXCEPT !.secret = c.public]}
  BY <1>2 DEF TrySetSecretKey
<1> QED
  BY <1>1, <1>3 DEF KeyCache

\* Saving a cache can only drop the secret.
LEMMA PersistedResult ==
  ASSUME NEW c \in KeyCache
  PROVE  LET n == Persisted(c)
         IN  /\ n \in KeyCache
             /\ n.public = c.public /\ n.old = c.old /\ n.registered = c.registered
             /\ n.secret \in {c.secret, None}
BY DEF Persisted, KeyCache

\* An answer to a registration touches the mark and the old keys only.
LEMMA RegisteredResult ==
  ASSUME NEW c \in KeyCache, NEW key, NEW removed
  PROVE  LET n == Registered(c, key, removed)
         IN  /\ n \in KeyCache
             /\ n.public = c.public /\ n.secret = c.secret
             /\ n.registered = (c.registered \/ key = c.public)
             /\ n.old = c.old \ removed
BY DEF Registered, KeyCache

-----------------------------------------------------------------------------
(* The inductive invariant                                                 *)

\* A first start, with nothing saved and nothing registered.
LEMMA InitInvariant == Init => IInv
<1> SUFFICES ASSUME Init PROVE IInv
  OBVIOUS
<1>1. EmptyCache \in KeyCache
  BY DEF EmptyCache, KeyCache
<1>2. Persisted(EmptyCache) = EmptyCache
  <2>1. Persisted(EmptyCache) = [EmptyCache EXCEPT !.secret = None]
    BY DEF EmptyCache, Persisted
  <2>2. EmptyCache.secret = None
    BY DEF EmptyCache
  <2> HIDE DEF EmptyCache
  <2> QED
    BY <1>1, <2>1, <2>2 DEF KeyCache
<1>3. TypeOK
  BY <1>1 DEF Init, TypeOK, Config, Idle, Request
<1>4. CleanMeansSaved
  <2>1. mem.cache = EmptyCache /\ mem \in Config /\ disk = mem
    BY <1>1 DEF Init, Config
  <2>2. [mem EXCEPT !.cache = mem.cache] = mem
    BY <2>1 DEF Config
  <2> QED
    BY <1>2, <2>1, <2>2 DEF CleanMeansSaved
<1> QED
  BY <1>3, <1>4 DEF Init, IInv, SecretsStayInMemory, AllGenerated, CacheOK, RequestMatchesCache, NoKeyForgotten,
     RegisteredAtServer, EmptyCache, Idle

\* Replacing the configuration: the file is the old one or the new one.
LEMMA ChangeResult ==
  ASSUME IInv, NEW new \in Config, Change(new)
  PROVE  /\ mem' = new
         /\ dirty' \in BOOLEAN
         /\ disk' \in Config
         /\ disk'.cache = disk.cache \/ disk'.cache = Persisted(new.cache)
         /\ CleanMeansSaved' /\ SecretsStayInMemory'
<1>1. [new EXCEPT !.cache = Persisted(new.cache)] \in Config
  BY PersistedResult DEF Config
<1>2. CASE disk' = [new EXCEPT !.cache = Persisted(new.cache)] /\ dirty' = FALSE
  <2>1. SecretsStayInMemory'
    BY <1>2 DEF SecretsStayInMemory, Persisted, Config, KeyCache
  <2> QED
    BY <1>1, <1>2, <2>1 DEF Change, Save, CleanMeansSaved, Config
<1>3. CASE disk' = disk /\ dirty' = TRUE
  BY <1>3 DEF Change, Save, CleanMeansSaved, SecretsStayInMemory, IInv, TypeOK
<1>4. CASE UNCHANGED <<disk, dirty>> /\ ~dirty /\ new = mem
  BY <1>4 DEF Change, Save, CleanMeansSaved, SecretsStayInMemory, IInv, TypeOK
<1> QED
  BY <1>2, <1>3, <1>4 DEF Change, Save

\* The part of the invariant that a change of the cache can disturb.  A cache
\* operation either keeps the keys or makes a fresh key current.
CacheMoves(n, k) ==
  \/ k = None /\ KeepsKeys(mem.cache, n)
  \/ k \in Keys \ generated /\ IsRotation(mem.cache, n, k)

LEMMA CacheStep ==
  ASSUME IInv, NEW n, NEW k, CacheMoves(n, k), ChangeCache(n, k),
         UNCHANGED <<store, server, strays, lost>>
  PROVE  /\ mem'.cache = n /\ mem' \in Config /\ disk' \in Config
         /\ dirty' \in BOOLEAN /\ generated' \subseteq Keys /\ keychain' \in Keys \cup {None}
         /\ CacheOK(mem.cache)' /\ CacheOK(disk.cache)'
         /\ keychain' \in generated' \cup {None} /\ generated \subseteq generated'
         /\ CleanMeansSaved' /\ SecretsStayInMemory' /\ NoKeyForgotten' /\ RegisteredAtServer'
         /\ Known' = Known \cup ({k} \ {None}) /\ mem.cache.old \subseteq mem'.cache.old
<1> USE DEF IInv
<1>1. n \in KeyCache /\ mem \in Config /\ mem.cache \in KeyCache /\ k \in Keys \cup {None}
  BY DEF CacheMoves, KeepsKeys, IsRotation, TypeOK, Config
<1>2. [mem EXCEPT !.cache = n] \in Config /\ [mem EXCEPT !.cache = n].cache = n
  BY <1>1 DEF Config
<1>3. /\ mem' = [mem EXCEPT !.cache = n] /\ dirty' \in BOOLEAN /\ disk' \in Config
      /\ disk'.cache = disk.cache \/ disk'.cache = Persisted(n)
      /\ CleanMeansSaved' /\ SecretsStayInMemory'
  <2>1. Change([mem EXCEPT !.cache = n])
    BY DEF ChangeCache
  <2> QED
    BY <1>2, <2>1, ChangeResult
<1>4. generated' = generated \cup ({k} \ {None}) /\ keychain' \in {keychain, k}
  BY DEF ChangeCache
<1>5. generated' \subseteq Keys /\ keychain' \in Keys \cup {None} /\ keychain' \in generated' \cup {None}
  BY <1>1, <1>4 DEF TypeOK, AllGenerated
<1>6. /\ n.secret \in {None, n.public} /\ n.public \notin n.old
      /\ n.old \subseteq generated' /\ n.public \in generated' \cup {None}
  <2>1. CASE k = None /\ KeepsKeys(mem.cache, n)
    BY <1>4, <2>1 DEF KeepsKeys, AllGenerated, CacheOK
  <2>2. CASE k \in Keys \ generated /\ IsRotation(mem.cache, n, k)
    BY <1>4, <2>2, NoneIsNoKey DEF IsRotation, AllGenerated, CacheOK
  <2> QED
    BY <2>1, <2>2 DEF CacheMoves
<1>7. CacheOK(mem.cache)'
  BY <1>2, <1>3, <1>6 DEF CacheOK
<1>8. CacheOK(disk.cache)'
  <2>1. CASE disk'.cache = disk.cache
    BY <1>4, <2>1 DEF CacheOK, AllGenerated
  <2>2. CASE disk'.cache = Persisted(n)
    BY <1>1, <1>6, <2>2, PersistedResult DEF CacheOK
  <2> QED
    BY <1>3, <2>1, <2>2
<1>9. Known' = Known \cup ({k} \ {None}) /\ mem.cache.old \subseteq mem'.cache.old
  <2>1. CASE k = None /\ KeepsKeys(mem.cache, n)
    BY <1>2, <1>3, <2>1 DEF KeepsKeys, Known
  <2>2. CASE k \in Keys \ generated /\ IsRotation(mem.cache, n, k)
    BY <1>2, <1>3, <2>2, NoneIsNoKey DEF IsRotation, Known
  <2> QED
    BY <2>1, <2>2 DEF CacheMoves
<1>10. NoKeyForgotten'
  BY <1>9 DEF NoKeyForgotten
<1>11. RegisteredAtServer'
  BY <1>2, <1>3 DEF CacheMoves, KeepsKeys, IsRotation, RegisteredAtServer
<1> QED
  BY <1>2, <1>3, <1>4, <1>5, <1>7, <1>8, <1>9, <1>10, <1>11

\* A request under way still fits after a cache operation: what was current
\* is old now, and a fresh key is none of the request's.
LEMMA RequestUndisturbed ==
  ASSUME IInv, NEW k \in (Keys \ generated) \cup {None}, req' = req, server' = server,
         Known' = Known \cup ({k} \ {None}), mem.cache.old \subseteq mem'.cache.old
  PROVE  RequestMatchesCache'
BY DEF IInv, RequestMatchesCache, AllGenerated

\* Every operation on the cache is one of the two kinds.
LEMMA OperationsMove ==
  ASSUME IInv, NEW sealed \in BOOLEAN
  PROVE  /\ \A k \in NewKeys(mem.cache.secret = None) :
              /\ CacheMoves(EnsureKeyPair(mem.cache, store, sealed, k), k)
              /\ CacheMoves(UseKeyPair(mem.cache, store, sealed, k), k)
         /\ \A k \in NewKeys(mem.cache.age = "old") :
              CacheMoves(RotateIfRequired(mem.cache, store, sealed, k), k)
         /\ \A k \in NewKeys(TRUE) : CacheMoves(RotateNow(mem.cache, store, sealed, k), k)
<1>1. mem.cache \in KeyCache
  BY DEF IInv, TypeOK, Config
<1>2. ASSUME NEW k \in NewKeys(mem.cache.secret = None)
      PROVE  /\ CacheMoves(EnsureKeyPair(mem.cache, store, sealed, k), k)
             /\ CacheMoves(UseKeyPair(mem.cache, store, sealed, k), k)
  BY <1>1, UseKeyPairResult DEF NewKeys, CacheMoves
<1>3. ASSUME NEW k \in NewKeys(mem.cache.age = "old")
      PROVE  CacheMoves(RotateIfRequired(mem.cache, store, sealed, k), k)
  BY <1>1, RotateIfRequiredResult DEF NewKeys, CacheMoves
<1>4. ASSUME NEW k \in NewKeys(TRUE)
      PROVE  CacheMoves(RotateNow(mem.cache, store, sealed, k), k)
  BY <1>1, RotateNowResult DEF NewKeys, CacheMoves
<1> QED
  BY <1>2, <1>3, <1>4

\* Cache operations outside of a registration keep the invariant.
LEMMA CacheUsersPreserve == IInv /\ (UseKey \/ RotateAged \/ Rotate) => IInv'
<1> SUFFICES ASSUME IInv, UseKey \/ RotateAged \/ Rotate PROVE IInv'
  OBVIOUS
<1>1. UNCHANGED <<store, server, req, strays, lost>>
  BY DEF UseKey, RotateAged, Rotate
<1>2. PICK n, k : k \in (Keys \ generated) \cup {None} /\ CacheMoves(n, k) /\ ChangeCache(n, k)
  BY OperationsMove DEF UseKey, RotateAged, Rotate, NewKeys
<1>3. /\ mem' \in Config /\ disk' \in Config /\ dirty' \in BOOLEAN
      /\ generated' \subseteq Keys /\ keychain' \in Keys \cup {None}
      /\ CacheOK(mem.cache)' /\ CacheOK(disk.cache)'
      /\ keychain' \in generated' \cup {None} /\ generated \subseteq generated'
      /\ CleanMeansSaved' /\ SecretsStayInMemory' /\ NoKeyForgotten' /\ RegisteredAtServer'
      /\ Known' = Known \cup ({k} \ {None}) /\ mem.cache.old \subseteq mem'.cache.old
  BY <1>1, <1>2, CacheStep
<1>4. RequestMatchesCache'
  BY <1>1, <1>2, <1>3, RequestUndisturbed
<1>5. TypeOK' /\ AllGenerated'
  BY <1>1, <1>3 DEF IInv, TypeOK, AllGenerated
<1> QED
  BY <1>3, <1>4, <1>5 DEF IInv

\* The request that a registration prepares names the current key and all old ones.
LEMMA PreparePreserves == IInv /\ PrepareRegistration => IInv'
<1> SUFFICES ASSUME IInv, PrepareRegistration PROVE IInv'
  OBVIOUS
<1>1. UNCHANGED <<store, server, strays, lost>> /\ req.phase = "idle"
  BY DEF PrepareRegistration
<1>2. PICK sealed \in BOOLEAN, k \in NewKeys(mem.cache.secret = None) :
        ChangeCache(EnsureKeyPair(mem.cache, store, sealed, k), k)
  BY DEF PrepareRegistration
<1> DEFINE n == EnsureKeyPair(mem.cache, store, sealed, k)
<1>3. CacheMoves(n, k)
  BY OperationsMove
<1>4. /\ mem'.cache = n /\ mem' \in Config /\ disk' \in Config /\ dirty' \in BOOLEAN
      /\ generated' \subseteq Keys /\ keychain' \in Keys \cup {None}
      /\ CacheOK(mem.cache)' /\ CacheOK(disk.cache)'
      /\ keychain' \in generated' \cup {None} /\ generated \subseteq generated'
      /\ CleanMeansSaved' /\ SecretsStayInMemory' /\ NoKeyForgotten' /\ RegisteredAtServer'
  BY <1>1, <1>2, <1>3, CacheStep
<1>5. n.public # None
  BY <1>3, NoneIsNoKey DEF EnsureKeyPair, RotateNow, NewKeys, IInv, AllGenerated, CacheOK
<1> HIDE DEF n
<1>6. mem'.cache \in KeyCache
  BY <1>4 DEF Config
<1>7. req' = req \/ req' = [Idle EXCEPT !.phase = "prepared", !.key = n.public, !.old = n.old]
  BY <1>4 DEF PrepareRegistration
<1>8. CASE req' = req
  BY <1>1, <1>4, <1>8 DEF IInv, TypeOK, AllGenerated, RequestMatchesCache
<1>9. CASE req' = [Idle EXCEPT !.phase = "prepared", !.key = n.public, !.old = n.old]
  <2>1. /\ req' = [phase |-> "prepared", key |-> n.public, old |-> n.old, stale |-> FALSE, foreign |-> FALSE]
    BY <1>9 DEF Idle
  <2>2. req' \in Request
    BY <1>4, <1>6, <2>1 DEF Request, KeyCache
  <2>3. n.public \notin n.old /\ n.old \subseteq generated' /\ n.public \in generated' \cup {None}
    BY <1>4 DEF CacheOK
  <2>4. RequestMatchesCache'
    BY <1>4, <1>5, <2>1, <2>3 DEF RequestMatchesCache, Known
  <2>5. TypeOK' /\ AllGenerated'
    BY <1>1, <1>4, <2>1, <2>2, <2>3 DEF IInv, TypeOK, AllGenerated
  <2> QED
    BY <1>4, <2>4, <2>5 DEF IInv
<1> QED
  BY <1>7, <1>8, <1>9

\* The request on its way to the server and back; memory and disk stay.
LEMMA TransportPreserves ==
  IInv /\ (SendRegistration \/ ServerRegisters \/ ServerRefuses \/ RegistrationFails) => IInv'
<1> SUFFICES ASSUME IInv, SendRegistration \/ ServerRegisters \/ ServerRefuses \/ RegistrationFails
             PROVE  IInv'
  OBVIOUS
<1>1. UNCHANGED <<mem, disk, dirty, store, keychain, generated, lost>>
  BY DEF SendRegistration, ServerRegisters, ServerRefuses, RegistrationFails
<1>2. CleanMeansSaved' /\ SecretsStayInMemory' /\ Known' = Known
  BY <1>1 DEF IInv, CleanMeansSaved, SecretsStayInMemory, Known
<1>3. Idle \in Request
  BY DEF Idle, Request
<1>4. CASE server' = server /\ strays' = strays /\ req' = Idle
  BY <1>1, <1>2, <1>3, <1>4 DEF IInv, TypeOK, AllGenerated, CacheOK, RequestMatchesCache,
     NoKeyForgotten, RegisteredAtServer, Idle
<1>5. CASE /\ server' = server /\ strays' = strays
           /\ \/ req' = [req EXCEPT !.phase = "sent"]
              \/ req' = [req EXCEPT !.phase = "refused"]
           /\ req.phase # "idle"
  <2>1. /\ req' \in Request /\ req'.phase \in {"sent", "refused"}
        /\ req'.key = req.key /\ req'.old = req.old
        /\ req'.stale = req.stale /\ req'.foreign = req.foreign
    BY <1>5 DEF IInv, TypeOK, Request
  <2>2. RequestMatchesCache'
    BY <1>1, <1>2, <1>5, <2>1 DEF IInv, RequestMatchesCache
  <2> QED
    BY <1>1, <1>2, <1>5, <2>1, <2>2 DEF IInv, TypeOK, AllGenerated, CacheOK, NoKeyForgotten,
       RegisteredAtServer
<1>6. CASE ServerRegisters
  <2>1. /\ req' \in Request /\ req'.phase = "answered" /\ req.phase = "sent"
        /\ req'.key = req.key /\ req'.old = req.old
        /\ req'.stale = req.stale /\ req'.foreign = req.foreign
    BY <1>6 DEF ServerRegisters, IInv, TypeOK, Request
  <2>2. /\ server' = IF req.foreign THEN server ELSE (server \ req.old) \cup {req.key}
        /\ strays' = IF req.stale /\ ~req.foreign THEN strays \cup {req.key} ELSE strays
    BY <1>6 DEF ServerRegisters
  <2>3. req.key \in Keys /\ req.old \subseteq Keys /\ req.key \in generated /\ req.key \notin req.old
    BY <2>1 DEF IInv, TypeOK, Request, AllGenerated, RequestMatchesCache
  <2>4. server' \subseteq Keys /\ strays' \subseteq Keys /\ server' \subseteq generated
    BY <2>2, <2>3 DEF IInv, TypeOK, AllGenerated
  <2>5. RequestMatchesCache'
    BY <1>1, <1>2, <2>1, <2>2, <2>3 DEF IInv, RequestMatchesCache
  <2>6. NoKeyForgotten'
    BY <1>1, <1>2, <2>1, <2>2 DEF IInv, RequestMatchesCache, NoKeyForgotten
  <2>7. RegisteredAtServer'
    <3>1. CASE req.stale
      <4>1. mem.cache.public # None => mem.cache.public \notin req.old
        BY <2>1, <3>1 DEF IInv, RequestMatchesCache, Known
      <4> QED
        BY <1>1, <2>2, <4>1, NoneIsNoKey DEF IInv, RegisteredAtServer, TypeOK
    <3>2. CASE ~req.stale
      <4>1. req.old \subseteq mem.cache.old /\ mem.cache.public \notin mem.cache.old
        BY <2>1, <3>2 DEF IInv, RequestMatchesCache, AllGenerated, CacheOK
      <4> QED
        BY <1>1, <2>2, <3>2, <4>1 DEF IInv, RegisteredAtServer
    <3> QED
      BY <3>1, <3>2 DEF IInv, TypeOK, Request
  <2> QED
    BY <1>1, <1>2, <2>1, <2>2, <2>4, <2>5, <2>6, <2>7 DEF IInv, TypeOK, AllGenerated, CacheOK
<1> QED
  BY <1>4, <1>5, <1>6 DEF SendRegistration, ServerRefuses, RegistrationFails

\* The mark is set only for a key that is still current, and only removed keys
\* leave the list.
LEMMA SuccessPreserves == IInv /\ RegistrationSucceeds => IInv'
<1> SUFFICES ASSUME IInv, RegistrationSucceeds PROVE IInv'
  OBVIOUS
<1> DEFINE n == Registered(mem.cache, req.key, req.old)
<1>1. /\ UNCHANGED <<store, keychain, server, generated, strays, lost>>
      /\ req.phase = "answered" /\ req' = Idle
      /\ Change([mem EXCEPT !.cache = n])
  BY DEF RegistrationSucceeds
<1>2. mem \in Config /\ mem.cache \in KeyCache
  BY DEF IInv, TypeOK, Config
<1>3. /\ n \in KeyCache /\ n.public = mem.cache.public /\ n.secret = mem.cache.secret
      /\ n.registered = (mem.cache.registered \/ req.key = mem.cache.public)
      /\ n.old = mem.cache.old \ req.old
  BY <1>2, RegisteredResult
<1> HIDE DEF n
<1>4. [mem EXCEPT !.cache = n] \in Config /\ [mem EXCEPT !.cache = n].cache = n
  BY <1>2, <1>3 DEF Config
<1>5. /\ mem' = [mem EXCEPT !.cache = n] /\ dirty' \in BOOLEAN /\ disk' \in Config
      /\ disk'.cache = disk.cache \/ disk'.cache = Persisted(n)
      /\ CleanMeansSaved' /\ SecretsStayInMemory'
  BY <1>1, <1>4, ChangeResult
<1>6. CacheOK(mem.cache)'
  BY <1>1, <1>3, <1>4, <1>5 DEF IInv, AllGenerated, CacheOK
<1>7. CacheOK(disk.cache)'
  BY <1>1, <1>3, <1>4, <1>5, <1>6, PersistedResult DEF IInv, AllGenerated, CacheOK
<1>8. Idle \in Request /\ Idle.phase = "idle" /\ Idle.key = None /\ Idle.old = {}
  BY DEF Idle, Request
<1>9. TypeOK' /\ AllGenerated' /\ RequestMatchesCache'
  BY <1>1, <1>4, <1>5, <1>6, <1>7, <1>8 DEF IInv, TypeOK, AllGenerated, RequestMatchesCache
<1>10. (req.stale => req.old \cap Known = {} /\ req.key \notin Known)
       /\ (~req.stale => req.key \in server /\ req.old \cap server = {})
  BY <1>1 DEF IInv, RequestMatchesCache
<1>11. Known \ req.old \subseteq Known' /\ Known' \subseteq Known
  BY <1>3, <1>4, <1>5 DEF Known
<1>12. NoKeyForgotten'
  <2>1. CASE req.stale
    <3>1. Known' = Known
      BY <1>10, <1>11, <2>1
    <3> QED
      BY <1>1, <3>1 DEF IInv, NoKeyForgotten
  <2>2. CASE ~req.stale
    BY <1>1, <1>10, <1>11, <2>2 DEF IInv, NoKeyForgotten
  <2> QED
    BY <2>1, <2>2
<1>13. RegisteredAtServer'
  <2>1. CASE req.key # mem.cache.public
    <3>1. mem.cache.registered \in BOOLEAN
      BY <1>2 DEF KeyCache
    <3>2. mem'.cache.registered = mem.cache.registered /\ mem'.cache.public = mem.cache.public
      BY <1>3, <1>4, <1>5, <2>1, <3>1
    <3> QED
      BY <1>1, <3>2 DEF IInv, RegisteredAtServer
  <2>2. CASE req.key = mem.cache.public
    <3>1. req.key \in Known
      BY <1>1, <2>2 DEF Known, IInv, RequestMatchesCache
    <3> QED
      BY <1>1, <1>3, <1>4, <1>5, <1>10, <2>2, <3>1 DEF IInv, TypeOK, Request, RegisteredAtServer
  <2> QED
    BY <2>1, <2>2
<1> QED
  BY <1>5, <1>9, <1>12, <1>13 DEF IInv

\* A rotation that the server demands leaves no request behind.
LEMMA RefusalPreserves == IInv /\ RegistrationRefused => IInv'
<1> SUFFICES ASSUME IInv, RegistrationRefused PROVE IInv'
  OBVIOUS
<1>1. UNCHANGED <<store, server, strays, lost>> /\ req' = Idle
  BY DEF RegistrationRefused
<1>2. PICK n, k : CacheMoves(n, k) /\ ChangeCache(n, k)
  BY OperationsMove DEF RegistrationRefused
<1>3. /\ mem' \in Config /\ disk' \in Config /\ dirty' \in BOOLEAN
      /\ generated' \subseteq Keys /\ keychain' \in Keys \cup {None}
      /\ CacheOK(mem.cache)' /\ CacheOK(disk.cache)'
      /\ keychain' \in generated' \cup {None} /\ generated \subseteq generated'
      /\ CleanMeansSaved' /\ SecretsStayInMemory' /\ NoKeyForgotten' /\ RegisteredAtServer'
  BY <1>1, <1>2, CacheStep
<1>4. Idle \in Request /\ Idle.phase = "idle" /\ Idle.key = None /\ Idle.old = {}
  BY DEF Idle, Request
<1> QED
  BY <1>1, <1>3, <1>4 DEF IInv, TypeOK, AllGenerated, RequestMatchesCache

\* Saving again what is in memory.
LEMMA SettingsPreserve == IInv /\ ChangeSettings => IInv'
<1> SUFFICES ASSUME IInv, ChangeSettings PROVE IInv'
  OBVIOUS
<1>1. /\ UNCHANGED <<mem, store, keychain, server, req, generated, strays, lost>>
      /\ mem \in Config /\ mem.cache \in KeyCache /\ disk \in Config
  BY DEF ChangeSettings, IInv, TypeOK, Config
<1> DEFINE p == Persisted(mem.cache)
<1>2. /\ p \in KeyCache /\ p.public = mem.cache.public /\ p.old = mem.cache.old
      /\ p.secret \in {mem.cache.secret, None}
      /\ p.type = "plaintext" \/ p.secret = None
  <2>1. p.type = "plaintext" \/ p.secret = None
    BY <1>1 DEF Persisted, KeyCache
  <2> QED
    BY <1>1, <2>1, PersistedResult
<1> HIDE DEF p
<1>3. CASE disk' = [mem EXCEPT !.cache = p] /\ dirty' = FALSE
  <2>1. disk' \in Config /\ disk'.cache = p
    BY <1>1, <1>2, <1>3 DEF Config
  <2>2. CacheOK(disk.cache)' /\ CacheOK(mem.cache)'
    BY <1>1, <1>2, <2>1 DEF IInv, AllGenerated, CacheOK
  <2>3. CleanMeansSaved' /\ SecretsStayInMemory'
    BY <1>1, <1>2, <1>3, <2>1 DEF CleanMeansSaved, SecretsStayInMemory, p
  <2> QED
    BY <1>1, <1>3, <2>1, <2>2, <2>3 DEF IInv, TypeOK, AllGenerated, RequestMatchesCache,
       NoKeyForgotten, RegisteredAtServer, Known
<1>4. CASE disk' = disk /\ dirty' = TRUE
  BY <1>1, <1>4 DEF IInv, TypeOK, AllGenerated, CacheOK, CleanMeansSaved, SecretsStayInMemory,
     RequestMatchesCache, NoKeyForgotten, RegisteredAtServer, Known
<1> QED
  BY <1>3, <1>4 DEF ChangeSettings, Save, p

\* Time changes neither keys nor what is saved of them.
LEMMA AgePreserves == IInv /\ Age => IInv'
<1> SUFFICES ASSUME IInv, Age PROVE IInv'
  OBVIOUS
<1>1. /\ UNCHANGED <<dirty, store, keychain, server, req, generated, strays, lost>>
      /\ mem.cache.age = "young" /\ mem' = [mem EXCEPT !.cache.age = "old"]
      /\ disk' = IF disk.cache.age = "young" THEN [disk EXCEPT !.cache.age = "old"] ELSE disk
  BY DEF Age
<1>2. ASSUME NEW m \in Config
      PROVE  LET a == [m EXCEPT !.cache.age = "old"]
             IN  /\ a \in Config /\ a.login = m.login
                 /\ a.cache = [m.cache EXCEPT !.age = "old"]
                 /\ a.cache.public = m.cache.public /\ a.cache.secret = m.cache.secret
                 /\ a.cache.registered = m.cache.registered /\ a.cache.old = m.cache.old
  BY DEF Config, KeyCache
<1>3. mem \in Config /\ disk \in Config
  BY DEF IInv, TypeOK
<1>4. mem' \in Config /\ disk' \in Config
  BY <1>1, <1>2, <1>3
<1>5. /\ mem'.cache.public = mem.cache.public /\ mem'.cache.secret = mem.cache.secret
      /\ mem'.cache.registered = mem.cache.registered /\ mem'.cache.old = mem.cache.old
      /\ disk'.cache.public = disk.cache.public /\ disk'.cache.secret = disk.cache.secret
      /\ disk'.cache.old = disk.cache.old
  BY <1>1, <1>2, <1>3
<1>6. Known' = Known
  BY <1>5 DEF Known
<1>7. CleanMeansSaved'
  <2>1. SUFFICES ASSUME ~dirty PROVE disk' = [mem' EXCEPT !.cache = Persisted(mem'.cache)]
    BY <1>1 DEF CleanMeansSaved
  <2> DEFINE p == Persisted(mem.cache)
             q == Persisted(mem'.cache)
  <2>2. disk = [mem EXCEPT !.cache = p]
    BY <2>1 DEF IInv, CleanMeansSaved
  <2>3. mem.cache \in KeyCache /\ mem'.cache = [mem.cache EXCEPT !.age = "old"] /\ mem'.login = mem.login
    BY <1>1, <1>2, <1>3 DEF Config
  <2>4. p \in KeyCache /\ p.age = "young" /\ q = [p EXCEPT !.age = "old"]
    <3> DEFINE s == IF mem.cache.type = "plaintext" THEN mem.cache.secret ELSE None
    <3>1. p = [mem.cache EXCEPT !.secret = s]
      BY <2>3 DEF Persisted, KeyCache
    <3>2. mem'.cache \in KeyCache /\ mem'.cache.type = mem.cache.type /\ mem'.cache.secret = mem.cache.secret
      BY <2>3 DEF KeyCache
    <3>3. q = [mem'.cache EXCEPT !.secret = s]
      BY <3>2 DEF Persisted, KeyCache
    <3>4. s \in Keys \cup {None}
      BY <2>3 DEF KeyCache
    <3> HIDE DEF p, q, s
    <3>5. p \in KeyCache /\ p.age = "young"
      BY <1>1, <2>3, <3>1, <3>4 DEF KeyCache
    <3>6. q = [p EXCEPT !.age = "old"]
      BY <2>3, <3>1, <3>3 DEF KeyCache
    <3> QED
      BY <3>5, <3>6
  <2> HIDE DEF p, q
  <2>5. disk.cache = p /\ disk.login = mem.login
    BY <1>3, <2>2 DEF Config
  <2>6. disk'.cache = q /\ disk'.login = mem.login
    BY <1>1, <1>2, <1>3, <2>4, <2>5
  <2>7. [mem' EXCEPT !.cache = q] = [login |-> mem'.login, cache |-> q]
    BY <1>4 DEF Config
  <2>8. disk' = [login |-> disk'.login, cache |-> disk'.cache]
    BY <1>4 DEF Config
  <2> QED
    BY <2>3, <2>6, <2>7, <2>8 DEF q
<1>8. TypeOK' /\ AllGenerated'
  BY <1>1, <1>4, <1>5 DEF IInv, TypeOK, AllGenerated, CacheOK
<1>9. SecretsStayInMemory'
  <2>1. disk'.cache.type = disk.cache.type
    BY <1>1, <1>3 DEF Config, KeyCache
  <2> QED
    BY <1>5, <2>1 DEF IInv, SecretsStayInMemory
<1> QED
  BY <1>1, <1>5, <1>6, <1>7, <1>8, <1>9 DEF IInv, RequestMatchesCache, NoKeyForgotten, RegisteredAtServer

\* Another login starts with an empty cache and knows nothing of what the
\* request under way carries.
LEMMA SwitchPreserves == IInv /\ SwitchAccount => IInv'
<1> SUFFICES ASSUME IInv, SwitchAccount PROVE IInv'
  OBVIOUS
<1>1. EmptyCache \in KeyCache
  BY DEF EmptyCache, KeyCache
<1>2. PICK l \in BOOLEAN : Change([login |-> l, cache |-> EmptyCache])
  BY DEF SwitchAccount
<1> DEFINE new == [login |-> l, cache |-> EmptyCache]
<1>3. new \in Config /\ new.cache = EmptyCache
  BY <1>1 DEF Config
<1> HIDE DEF new
<1>4. /\ mem' = new /\ dirty' \in BOOLEAN /\ disk' \in Config
      /\ disk'.cache = disk.cache \/ disk'.cache = Persisted(EmptyCache)
      /\ CleanMeansSaved' /\ SecretsStayInMemory'
  BY <1>2, <1>3, ChangeResult DEF new
<1>5. CacheOK(mem.cache)' /\ CacheOK(disk.cache)' /\ mem'.cache.registered = FALSE /\ Known' = {}
  <2>1. /\ EmptyCache.public = None /\ EmptyCache.secret = None /\ EmptyCache.old = {}
        /\ EmptyCache.registered = FALSE
    BY DEF EmptyCache
  <2>2. generated' = generated
    BY DEF SwitchAccount
  <2> HIDE DEF EmptyCache
  <2> QED
    BY <1>1, <1>3, <1>4, <2>1, <2>2, PersistedResult DEF CacheOK, IInv, AllGenerated, Known
<1>6. /\ UNCHANGED <<store, keychain, generated>>
      /\ server' = {} /\ strays' = {} /\ lost' = FALSE
  BY DEF SwitchAccount
<1>7. /\ req' \in Request /\ req'.phase = req.phase /\ req'.key = req.key /\ req'.old = req.old
      /\ req.phase # "idle" => req'.stale = TRUE
      /\ req.phase # "idle" /\ req'.foreign => req'.stale
  <2>1. req \in Request /\ (req.foreign /\ req.phase # "idle" => req.stale)
    BY DEF IInv, TypeOK, RequestMatchesCache
  <2>2. CASE req.phase = "idle"
    <3>1. req' = req
      BY <2>2 DEF SwitchAccount
    <3> QED
      BY <2>1, <2>2, <3>1
  <2>3. CASE req.phase = "prepared"
    <3>1. req' = [req EXCEPT !.stale = TRUE]
      BY <2>3 DEF SwitchAccount
    <3> QED
      BY <2>1, <2>3, <3>1 DEF Request
  <2>4. CASE req.phase \notin {"idle", "prepared"}
    <3>1. req' = [req EXCEPT !.stale = TRUE, !.foreign = TRUE]
      BY <2>4 DEF SwitchAccount
    <3> QED
      BY <2>1, <2>4, <3>1 DEF Request
  <2> QED
    BY <2>2, <2>3, <2>4
<1>8. TypeOK' /\ AllGenerated'
  BY <1>3, <1>4, <1>5, <1>6, <1>7 DEF IInv, TypeOK, AllGenerated
<1>9. RequestMatchesCache'
  BY <1>5, <1>7 DEF IInv, RequestMatchesCache
<1> QED
  BY <1>4, <1>5, <1>6, <1>8, <1>9 DEF IInv, NoKeyForgotten, RegisteredAtServer

\* A restart finds the keys that were saved, and if nothing was unsaved those
\* that were known before.
LEMMA RestartPreserves == IInv /\ Restart => IInv'
<1> SUFFICES ASSUME IInv, Restart PROVE IInv'
  OBVIOUS
<1>1. /\ UNCHANGED <<disk, keychain, server, generated, strays>>
      /\ store' \in Stores /\ dirty' = FALSE /\ lost' = (lost \/ dirty) /\ req' = Idle
  BY DEF Restart
<1>2. PICK u \in BOOLEAN :
        mem' = [disk EXCEPT !.cache = TrySetSecretKey(disk.cache, store', keychain, u)]
  BY DEF Restart
<1> DEFINE n == TrySetSecretKey(disk.cache, store', keychain, u)
<1>3. disk \in Config /\ disk.cache \in KeyCache /\ keychain \in Keys \cup {None}
  BY DEF IInv, TypeOK, Config
<1>4. /\ n \in KeyCache /\ n.public = disk.cache.public /\ n.old = disk.cache.old
      /\ n.registered = disk.cache.registered /\ n.secret \in {disk.cache.secret, disk.cache.public}
  BY <1>3, TrySetSecretKeyResult
<1> HIDE DEF n
<1>5. mem' \in Config /\ mem'.cache = n /\ mem'.login = disk.login
  BY <1>2, <1>3, <1>4 DEF Config, n
<1>6. Persisted(n) = disk.cache
  <2>1. n \in {disk.cache, [disk.cache EXCEPT !.secret = disk.cache.public]}
    BY <1>3 DEF n, TrySetSecretKey
  <2>2. CASE n = disk.cache
    <3>1. [disk.cache EXCEPT !.secret = disk.cache.secret] = disk.cache
      BY <1>3 DEF KeyCache
    <3> QED
      BY <2>2, <3>1 DEF IInv, SecretsStayInMemory, Persisted
  <2>3. CASE n = [disk.cache EXCEPT !.secret = disk.cache.public] /\ n # disk.cache
    <3>1. disk.cache.type # "plaintext" /\ disk.cache.secret = None
      BY <2>3 DEF n, TrySetSecretKey, IInv, SecretsStayInMemory
    <3>2. n.type = disk.cache.type
      BY <1>3, <2>3 DEF KeyCache
    <3>3. Persisted(n) = [n EXCEPT !.secret = None]
      BY <1>4, <3>1, <3>2 DEF Persisted, KeyCache
    <3> QED
      BY <1>3, <2>3, <3>1, <3>3 DEF KeyCache
  <2> QED
    BY <2>1, <2>2, <2>3
<1>7. CleanMeansSaved'
  <2>1. [mem' EXCEPT !.cache = Persisted(n)] = [login |-> mem'.login, cache |-> disk.cache]
    BY <1>5, <1>6 DEF Config
  <2>2. disk = [login |-> disk.login, cache |-> disk.cache]
    BY <1>3 DEF Config
  <2> QED
    BY <1>1, <1>5, <2>1, <2>2 DEF CleanMeansSaved
<1>8. ~dirty => disk.cache.public = mem.cache.public /\ disk.cache.old = mem.cache.old
                /\ disk.cache.registered = mem.cache.registered
  <2>1. mem \in Config /\ mem.cache \in KeyCache
    BY DEF IInv, TypeOK, Config
  <2> DEFINE p == Persisted(mem.cache)
  <2>2. p.public = mem.cache.public /\ p.old = mem.cache.old /\ p.registered = mem.cache.registered
    BY <2>1, PersistedResult
  <2>3. ~dirty => disk = [mem EXCEPT !.cache = p]
    BY DEF IInv, CleanMeansSaved
  <2> HIDE DEF p
  <2>4. [mem EXCEPT !.cache = p].cache = p
    BY <2>1 DEF Config
  <2> QED
    BY <2>2, <2>3, <2>4
<1>9. CacheOK(mem.cache)'
  BY <1>1, <1>4, <1>5 DEF IInv, AllGenerated, CacheOK
<1>10. ~lost' => ~lost /\ ~dirty
  BY <1>1
<1>11. NoKeyForgotten' /\ RegisteredAtServer'
  <2>1. ~dirty => Known' = Known
    BY <1>4, <1>5, <1>8 DEF Known
  <2> QED
    BY <1>1, <1>4, <1>5, <1>8, <1>10, <2>1 DEF IInv, NoKeyForgotten, RegisteredAtServer
<1>12. Idle \in Request /\ Idle.phase = "idle" /\ Idle.key = None /\ Idle.old = {}
  BY DEF Idle, Request
<1>13. SecretsStayInMemory' /\ RequestMatchesCache'
  BY <1>1, <1>12 DEF IInv, SecretsStayInMemory, RequestMatchesCache
<1>14. TypeOK' /\ AllGenerated'
  BY <1>1, <1>5, <1>9, <1>12 DEF IInv, TypeOK, AllGenerated, CacheOK
<1> QED
  BY <1>7, <1>11, <1>13, <1>14 DEF IInv

\* A configuration that was reset knows nothing, and nothing is known of it.
LEMMA ResetPreserves == IInv /\ RestartWithoutConfig => IInv'
<1> SUFFICES ASSUME IInv, RestartWithoutConfig PROVE IInv'
  OBVIOUS
<1>1. /\ EmptyCache \in KeyCache /\ EmptyCache.public = None /\ EmptyCache.secret = None
      /\ EmptyCache.old = {} /\ EmptyCache.registered = FALSE
  BY DEF EmptyCache, KeyCache
<1>2. Persisted(EmptyCache) = EmptyCache
  <2>1. Persisted(EmptyCache) = [EmptyCache EXCEPT !.secret = EmptyCache.secret]
    BY <1>1 DEF Persisted
  <2> QED
    BY <1>1, <2>1 DEF KeyCache
<1> DEFINE new == [login |-> FALSE, cache |-> EmptyCache]
<1>3. new \in Config /\ new.cache = EmptyCache /\ [new EXCEPT !.cache = new.cache] = new
  BY <1>1 DEF Config
<1>4. mem' = new /\ disk' = new
  BY DEF RestartWithoutConfig
<1> HIDE DEF new
<1>5. /\ store' \in Stores /\ dirty' = FALSE /\ server' = {} /\ strays' = {}
      /\ lost' = FALSE /\ req' = Idle /\ UNCHANGED <<keychain, generated>>
  BY DEF RestartWithoutConfig
<1>6. Idle \in Request /\ Idle.phase = "idle" /\ Idle.key = None /\ Idle.old = {}
  BY DEF Idle, Request
<1>7. TypeOK' /\ AllGenerated'
  BY <1>1, <1>3, <1>4, <1>5, <1>6 DEF IInv, TypeOK, AllGenerated, CacheOK
<1>8. CleanMeansSaved' /\ SecretsStayInMemory'
  BY <1>1, <1>2, <1>3, <1>4 DEF CleanMeansSaved, SecretsStayInMemory
<1>9. RequestMatchesCache' /\ NoKeyForgotten' /\ RegisteredAtServer'
  BY <1>1, <1>3, <1>4, <1>5, <1>6 DEF RequestMatchesCache, NoKeyForgotten, RegisteredAtServer
<1> QED
  BY <1>7, <1>8, <1>9 DEF IInv

-----------------------------------------------------------------------------
(* The theorems                                                            *)

\* The inductive invariant holds in every reachable state.
THEOREM Invariance == Spec => []IInv
<1>1. IInv /\ [Next]_vars => IInv'
  <2> SUFFICES ASSUME IInv, [Next]_vars PROVE IInv'
    OBVIOUS
  <2>1. CASE UNCHANGED vars
    BY <2>1 DEF vars, IInv, TypeOK, AllGenerated, CacheOK, CleanMeansSaved, SecretsStayInMemory,
       RequestMatchesCache, NoKeyForgotten, RegisteredAtServer, Known
  <2> QED
    BY <2>1, PreparePreserves, TransportPreserves, SuccessPreserves, RefusalPreserves,
       CacheUsersPreserve, SettingsPreserve, AgePreserves, SwitchPreserves, RestartPreserves,
       ResetPreserves DEF Next
<1> QED
  BY <1>1, InitInvariant, PTL DEF Spec

\* Every variable has its shape.
THEOREM TypeCorrect == Spec => []TypeOK
<1>1. IInv => TypeOK
  BY DEF IInv
<1> QED
  BY <1>1, Invariance, PTL

\* No key is ever used with the secret of another one.
THEOREM SecretsFit == Spec => []SecretMatchesPublic
<1>1. IInv => SecretMatchesPublic
  BY DEF IInv, AllGenerated, CacheOK, SecretMatchesPublic
<1> QED
  BY <1>1, Invariance, PTL

\* The client knows every key the server holds for the login, and a key it
\* believes registered is, unless an exit has lost unsaved changes.
THEOREM ServerKeysAreKnown == Spec => []ServerAgrees
<1>1. IInv => ServerAgrees
  BY DEF IInv, ServerAgrees
<1> QED
  BY <1>1, Invariance, PTL

\* An old key leaves the list only when the server has removed it.
THEOREM OldKeysLeaveRevoked == Spec => OldKeysAreRevoked
<1> DEFINE Revoked == ~lost' /\ mem'.cache.public # None =>
                        (mem.cache.old \ mem'.cache.old) \cap server' = {}
<1>1. IInv /\ [Next]_vars => [Revoked]_vars
  <2> SUFFICES ASSUME IInv, Next PROVE Revoked
    OBVIOUS
  <2>1. CASE mem.cache.old \subseteq mem'.cache.old
    BY <2>1
  <2>2. CASE PrepareRegistration
    <3>1. PICK n, k : CacheMoves(n, k) /\ ChangeCache(n, k)
      BY <2>2, OperationsMove DEF PrepareRegistration
    <3> QED
      BY <2>1, <2>2, <3>1, CacheStep DEF PrepareRegistration
  <2>3. CASE UseKey \/ RotateAged \/ Rotate
    <3>1. PICK n, k : CacheMoves(n, k) /\ ChangeCache(n, k)
      BY <2>3, OperationsMove DEF UseKey, RotateAged, Rotate
    <3>2. UNCHANGED <<store, server, strays, lost>>
      BY <2>3 DEF UseKey, RotateAged, Rotate
    <3> QED
      BY <2>1, <3>1, <3>2, CacheStep
  <2>4. CASE RegistrationRefused
    <3>1. PICK n, k : CacheMoves(n, k) /\ ChangeCache(n, k)
      BY <2>4, OperationsMove DEF RegistrationRefused
    <3> QED
      BY <2>1, <2>4, <3>1, CacheStep DEF RegistrationRefused
  <2>5. CASE SendRegistration \/ ServerRegisters \/ ServerRefuses \/ RegistrationFails
    BY <2>1, <2>5 DEF SendRegistration, ServerRegisters, ServerRefuses, RegistrationFails
  <2>10. CASE ChangeSettings
    BY <2>1, <2>10 DEF ChangeSettings
  <2>6. CASE RegistrationSucceeds
    <3> DEFINE n == Registered(mem.cache, req.key, req.old)
    <3>1. mem \in Config /\ mem.cache \in KeyCache
      BY DEF IInv, TypeOK, Config
    <3>2. n \in KeyCache /\ n.old = mem.cache.old \ req.old
      BY <3>1, RegisteredResult
    <3> HIDE DEF n
    <3>3. mem' = [mem EXCEPT !.cache = n] /\ req.phase = "answered" /\ server' = server
      BY <2>6 DEF RegistrationSucceeds, Change, n
    <3>4. mem'.cache.old = mem.cache.old \ req.old
      BY <3>1, <3>2, <3>3 DEF Config
    <3>5. CASE req.stale
      BY <2>1, <3>3, <3>4, <3>5 DEF IInv, RequestMatchesCache, Known
    <3>6. CASE ~req.stale
      BY <3>3, <3>4, <3>6 DEF IInv, RequestMatchesCache
    <3> QED
      BY <3>5, <3>6
  <2>7. CASE Age
    <3>1. mem \in Config /\ mem' = [mem EXCEPT !.cache.age = "old"]
      BY <2>7 DEF Age, IInv, TypeOK
    <3> QED
      BY <2>1, <3>1 DEF Config, KeyCache
  <2>8. CASE SwitchAccount
    BY <2>8 DEF SwitchAccount
  <2>9. CASE Restart
    <3>1. CASE dirty
      BY <2>9, <3>1 DEF Restart
    <3>2. CASE ~dirty
      <4>1. PICK u \in BOOLEAN :
              mem' = [disk EXCEPT !.cache = TrySetSecretKey(disk.cache, store', keychain, u)]
        BY <2>9 DEF Restart
      <4> DEFINE n == TrySetSecretKey(disk.cache, store', keychain, u)
                 p == Persisted(mem.cache)
      <4>2. /\ mem \in Config /\ mem.cache \in KeyCache
            /\ disk \in Config /\ disk.cache \in KeyCache /\ keychain \in Keys \cup {None}
        BY DEF IInv, TypeOK, Config
      <4>3. n.old = disk.cache.old /\ p.old = mem.cache.old
        BY <4>2, TrySetSecretKeyResult, PersistedResult
      <4>4. disk = [mem EXCEPT !.cache = p]
        BY <3>2 DEF IInv, CleanMeansSaved
      <4> HIDE DEF n, p
      <4>5. disk.cache = p /\ mem'.cache = n
        BY <4>1, <4>2, <4>4 DEF Config, n
      <4> QED
        BY <2>1, <4>3, <4>5
    <3> QED
      BY <3>1, <3>2
  <2>11. CASE RestartWithoutConfig
    BY <2>11 DEF RestartWithoutConfig, EmptyCache
  <2> QED
    BY <2>2, <2>3, <2>4, <2>5, <2>6, <2>7, <2>8, <2>9, <2>10, <2>11 DEF Next
<1> QED
  BY <1>1, Invariance, PTL DEF Spec, OldKeysAreRevoked
=============================================================================
