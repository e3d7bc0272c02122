-------------------------- MODULE ApiClient_proofs --------------------------
(***************************************************************************)
(* Proofs about ApiClient, for any number of accounts, lists and requests. *)
(***************************************************************************)
EXTENDS ApiClient, TLAPS

\* What a request has got by the phase that it is in.
RequestShape(r) ==
  /\ r.phase = "lock" => r.kind \in Lists
  /\ r.phase \in {"lock", "account", "client", "sent"} => r.answer = None
  /\ r.phase = "client" => r.account \in Accounts
  /\ r.phase \in {"sent", "answered", "store"} => r.client \in Client
  /\ r.phase = "store" => r.answer \in Answer

Shape == \A t \in Tasks : RequestShape(task[t])

\* A request works for the account of now, or for one that was under way when
\* that account logged in.
RequestIsOwn(r) ==
  /\ r.phase = "client" => Own(r.account)
  /\ r.phase \in {"sent", "answered", "store"} =>
       /\ Own(r.client.account) /\ Own(r.client.token)
       /\ r.answer # None => Own(r.answer.about)

LoginInv == LoginIsConsistent /\ \A t \in Tasks : RequestIsOwn(task[t])

\* A cached list, or what a request remembers of it, is one of the server's.
Sound(list, k) ==
  list # None => list.version <= server[k] /\ list.etag \in {0, list.version}

\* While an update runs, its list can only be reset; what the server answered
\* is not older than the list that the update started from.
UpdateInv(t, k) ==
  task[t].kind = k /\ task[t].phase \in Updating =>
    /\ Sound(task[t].prev, k)
    /\ lists[k] # None => task[t].prev # None /\ task[t].prev.version = lists[k].version
    /\ task[t].phase \in {"answered", "store"} /\ task[t].answer # None =>
         /\ task[t].answer.version \in 1..server[k]
         /\ task[t].answer.etag \in {0, task[t].answer.version}
         /\ task[t].prev # None => task[t].answer.version >= task[t].prev.version
         /\ ~task[t].answer.body =>
              task[t].prev # None /\ task[t].prev.etag = task[t].answer.version

ListsInv == \A k \in Lists : Sound(lists[k], k) /\ \A t \in Tasks : UpdateInv(t, k)

IInv == TypeOK /\ Shape /\ UpdatesAreExclusive /\ LoginInv /\ ListsInv

USE NoneIsNothing

LEMMA Initially == Init => IInv
<1> SUFFICES ASSUME Init PROVE IInv
  OBVIOUS
<1> USE DEF Init
<1>1. Idle \in Request
  BY DEF Idle, Request, Phases
<1>2. TypeOK
  <2>1. task \in [Tasks -> Request]
    BY <1>1
  <2>2. /\ lists \in [Lists -> CachedList \cup {None}]
        /\ lock \in [Lists -> Tasks \cup {None}]
        /\ server \in [Lists -> Nat \ {0}]
    OBVIOUS
  <2>3. former \subseteq Accounts
    OBVIOUS
  <2> QED
    BY <2>1, <2>2, <2>3 DEF TypeOK
<1>3. \A t \in Tasks : task[t] = Idle
  OBVIOUS
<1> QED
  BY <1>2, <1>3 DEF IInv, Shape, RequestShape, UpdatesAreExclusive, Updating, Looked,
    LoginInv, LoginIsConsistent, Own, RequestIsOwn, ListsInv, Sound, UpdateInv, Idle

\* One request changes, the others keep their shape.
LEMMA OneChanges ==
  ASSUME Shape, task \in [Tasks -> Request], NEW t \in Tasks, NEW new, RequestShape(new),
         task' = [task EXCEPT ![t] = new]
  PROVE  Shape'
<1>1. \A u \in Tasks : task'[u] = IF u = t THEN new ELSE task[u]
  OBVIOUS
<1>2. \A u \in Tasks : RequestShape(task'[u])
  BY <1>1, Zenon DEF Shape
<1> QED
  BY <1>2 DEF Shape, RequestShape

LEMMA TakeLockStep == ASSUME IInv, NEW t \in Tasks, TakeLock(t) PROVE IInv'
<1>0. TypeOK /\ Shape /\ UpdatesAreExclusive /\ LoginInv /\ ListsInv
  BY DEF IInv
<1>1. TypeOK'
  BY <1>0 DEF TypeOK, Request, Phases, Kinds, Shape, RequestShape, TakeLock, Ends, Unlocked, Idle, Is
<1>2. Shape'
  <2> DEFINE k == task[t].kind
  <2>1. k \in Lists /\ task \in [Tasks -> Request] /\ task[t].answer = None
    BY <1>0 DEF TypeOK, Shape, RequestShape, TakeLock, Is
  <2>2. CASE Ends(t)
    <3>1. RequestShape(Idle)
      BY DEF RequestShape, Idle
    <3> QED
      BY <1>0, <2>1, <2>2, <3>1, OneChanges DEF Ends
  <2>3. CASE task' = [task EXCEPT ![t].phase = "account", ![t].prev = lists[k]]
    <3>1. /\ task'[t].phase = "account" /\ task'[t].answer = None
          /\ \A u \in Tasks \ {t} : task'[u] = task[u]
      BY <2>1, <2>3 DEF Request
    <3>2. RequestShape(task'[t])
      BY <3>1 DEF RequestShape
    <3>3. \A u \in Tasks : RequestShape(task'[u])
      BY <1>0, <3>1, <3>2, Zenon DEF Shape
    <3> QED
      BY <3>3 DEF Shape, RequestShape
  <2> QED
    BY <2>2, <2>3 DEF TakeLock
<1>3. UpdatesAreExclusive'
  BY <1>0 DEF TypeOK, Request, Shape, RequestShape, UpdatesAreExclusive, Updating,
    Looked, TakeLock, Ends, Unlocked, Idle, Is
<1>4. LoginInv'
  <2>1. /\ UNCHANGED <<account, token, status, client, former>>
        /\ \A u \in Tasks \ {t} : task'[u] = task[u]
        /\ task'[t].phase \in {"idle", "account"}
    BY <1>0 DEF TypeOK, Request, TakeLock, Ends, Idle
  <2>2. RequestIsOwn(task[t])'
    BY <2>1 DEF RequestIsOwn
  <2>3. \A u \in Tasks \ {t} : RequestIsOwn(task[u])'
    BY <1>0, <2>1 DEF LoginInv, RequestIsOwn, Own
  <2> QED
    BY <1>0, <2>1, <2>2, <2>3 DEF LoginInv, LoginIsConsistent, Own
<1>5. ListsInv'
  <2> DEFINE k == task[t].kind
  <2>1. /\ k \in Lists /\ UNCHANGED <<lists, server>>
        /\ \A u \in Tasks \ {t} : task'[u] = task[u]
        /\ \/ task'[t].phase = "idle"
           \/ /\ task'[t].phase = "account" /\ task'[t].kind = k
              /\ task'[t].prev = lists[k]
    BY <1>0 DEF TypeOK, Request, Shape, RequestShape, TakeLock, Ends, Idle, Is
  <2>2. ASSUME NEW l \in Lists PROVE Sound(lists[l], l)'
    BY <1>0, <2>1 DEF ListsInv, Sound
  <2>3. ASSUME NEW l \in Lists PROVE UpdateInv(t, l)'
    <3>1. Sound(lists[l], l)
      BY <1>0 DEF ListsInv
    <3> QED
      BY <2>1, <3>1 DEF UpdateInv, Sound, Updating, Looked
  <2>4. ASSUME NEW l \in Lists, NEW u \in Tasks \ {t} PROVE UpdateInv(u, l)'
    <3>1. UpdateInv(u, l)
      BY <1>0 DEF ListsInv
    <3> QED
      BY <2>1, <3>1 DEF UpdateInv, Sound
  <2> QED
    BY <2>2, <2>3, <2>4 DEF ListsInv
<1> QED
  BY <1>1, <1>2, <1>3, <1>4, <1>5 DEF IInv

LEMMA ReadAccountStep == ASSUME IInv, NEW t \in Tasks, ReadAccount(t) PROVE IInv'
<1>0. TypeOK /\ Shape /\ UpdatesAreExclusive /\ LoginInv /\ ListsInv
  BY DEF IInv
<1>1. TypeOK'
  BY <1>0 DEF TypeOK, Request, Phases, Kinds, Shape, RequestShape, ReadAccount, Ends, Unlocked, Idle, Is
<1>2. Shape'
  BY <1>0 DEF TypeOK, Request, Shape, RequestShape, ReadAccount, Ends, Unlocked, Idle, Is
<1>3. UpdatesAreExclusive'
  BY <1>0 DEF TypeOK, Request, Shape, RequestShape, UpdatesAreExclusive, Updating,
    Looked, ReadAccount, Ends, Unlocked, Idle, Is
<1>4. LoginInv'
  BY <1>0 DEF TypeOK, Request, Shape, RequestShape, LoginInv, LoginIsConsistent, Own, RequestIsOwn,
    Looked, ReadAccount, Ends, Unlocked, Idle, Is
<1>5. ListsInv'
  <2>1. UNCHANGED <<lists, server>>
    BY DEF ReadAccount
  <2>2. ASSUME NEW u \in Tasks, NEW k \in Lists PROVE UpdateInv(u, k)'
    <3>1. CASE account = None
      BY <1>0, <2>1, <3>1 DEF TypeOK, UpdateInv, ListsInv, Sound, Updating, Looked,
        ReadAccount, Ends, Idle
    <3>2. CASE account # None
      BY <1>0, <2>1, <3>2 DEF TypeOK, Request, UpdateInv, ListsInv, Sound, Updating, Looked,
        ReadAccount, Is
    <3> QED
      BY <3>1, <3>2
  <2> QED
    BY <1>0, <2>1, <2>2 DEF ListsInv, Sound
<1> QED
  BY <1>1, <1>2, <1>3, <1>4, <1>5 DEF IInv

LEMMA GetClientStep == ASSUME IInv, NEW t \in Tasks, GetClient(t) PROVE IInv'
<1>0. TypeOK /\ Shape /\ UpdatesAreExclusive /\ LoginInv /\ ListsInv
  BY DEF IInv
<1>a. /\ client' \in Client
      /\ client # None => client' = client
      /\ client = None => client' = [account |-> task[t].account, token |-> token]
  BY <1>0 DEF TypeOK, Shape, RequestShape, GetClient, Is, Client
<1>1. TypeOK'
  <2>1. [task[t] EXCEPT !.phase = "sent", !.client = client'] \in Request
    <3>1. task[t] \in Request
      BY <1>0 DEF TypeOK
    <3> QED
      BY <1>a, <3>1 DEF Request, Phases
  <2>2. task' \in [Tasks -> Request]
    BY <1>0, <2>1 DEF TypeOK, GetClient
  <2> QED
    BY <1>0, <1>a, <2>2 DEF TypeOK, GetClient
<1>2. Shape'
  BY <1>0 DEF TypeOK, Request, Shape, RequestShape, GetClient, Client, Is
<1>3. UpdatesAreExclusive'
  BY <1>0 DEF TypeOK, Request, Shape, RequestShape, UpdatesAreExclusive, Updating,
    Looked, GetClient, Client, Is
<1>4. LoginInv'
  <2>1. UNCHANGED <<account, token, status, former>>
    BY DEF GetClient
  <2>2. Own(client'.account) /\ Own(client'.token)
    BY <1>0, <1>a DEF LoginInv, LoginIsConsistent, RequestIsOwn, GetClient, Is
  <2>3. /\ task'[t] = [task[t] EXCEPT !.phase = "sent", !.client = client']
        /\ \A u \in Tasks \ {t} : task'[u] = task[u]
    BY <1>0 DEF TypeOK, GetClient
  <2>4. /\ task'[t].phase = "sent" /\ task'[t].client = client'
        /\ task'[t].answer = task[t].answer
    BY <1>0, <2>3 DEF TypeOK, Request
  <2>5. task[t].answer = None
    BY <1>0 DEF Shape, RequestShape, GetClient, Is
  <2>6. RequestIsOwn(task[t])'
    BY <2>1, <2>2, <2>4, <2>5 DEF RequestIsOwn, Own
  <2>7. \A u \in Tasks \ {t} : RequestIsOwn(task[u])'
    BY <1>0, <2>1, <2>3 DEF LoginInv, RequestIsOwn, Own
  <2> QED
    BY <1>0, <2>1, <2>2, <2>6, <2>7 DEF LoginInv, LoginIsConsistent, Own
<1>5. ListsInv'
  <2>1. UNCHANGED <<lists, server>>
    BY DEF GetClient
  <2>2. /\ task'[t].kind = task[t].kind /\ task'[t].prev = task[t].prev
        /\ task[t].phase = "client" /\ task'[t].phase = "sent"
        /\ \A u \in Tasks \ {t} : task'[u] = task[u]
    BY <1>0 DEF TypeOK, Request, GetClient, Is
  <2>3. ASSUME NEW k \in Lists PROVE Sound(lists[k], k)'
    BY <1>0, <2>1 DEF ListsInv, Sound
  <2>4. ASSUME NEW k \in Lists PROVE UpdateInv(t, k)'
    <3>1. UpdateInv(t, k)
      BY <1>0 DEF ListsInv
    <3> QED
      BY <2>1, <2>2, <3>1 DEF UpdateInv, Sound, Updating, Looked
  <2>5. ASSUME NEW k \in Lists, NEW u \in Tasks \ {t} PROVE UpdateInv(u, k)'
    <3>1. UpdateInv(u, k)
      BY <1>0 DEF ListsInv
    <3> QED
      BY <2>1, <2>2, <3>1 DEF UpdateInv, Sound
  <2> QED
    BY <2>3, <2>4, <2>5 DEF ListsInv
<1> QED
  BY <1>1, <1>2, <1>3, <1>4, <1>5 DEF IInv

LEMMA GetNoClientStep == ASSUME IInv, NEW t \in Tasks, GetNoClient(t) PROVE IInv'
<1>0. TypeOK /\ Shape /\ UpdatesAreExclusive /\ LoginInv /\ ListsInv
  BY DEF IInv
<1>1. TypeOK'
  BY <1>0 DEF TypeOK, Request, Phases, Kinds, Shape, RequestShape, GetNoClient, Ends, Unlocked, Idle, Is
<1>2. Shape'
  BY <1>0 DEF TypeOK, Request, Shape, RequestShape, GetNoClient, Ends, Unlocked, Idle, Is
<1>3. UpdatesAreExclusive'
  BY <1>0 DEF TypeOK, Request, Shape, RequestShape, UpdatesAreExclusive, Updating,
    Looked, GetNoClient, Ends, Unlocked, Idle, Is
<1>4. LoginInv'
  BY <1>0 DEF TypeOK, Request, Shape, RequestShape, LoginInv, LoginIsConsistent, Own, RequestIsOwn,
    Looked, GetNoClient, Ends, Unlocked, Idle, Is
<1>5. ListsInv'
  BY <1>0 DEF TypeOK, Request, CachedList, Answer, Shape, RequestShape,
    UpdatesAreExclusive, Updating, Looked, ListsInv, Sound, UpdateInv,
    GetNoClient, Ends, Unlocked, Idle, Is
<1> QED
  BY <1>1, <1>2, <1>3, <1>4, <1>5 DEF IInv

LEMMA ServerAnswersStep == ASSUME IInv, NEW t \in Tasks, ServerAnswers(t) PROVE IInv'
<1>0. TypeOK /\ Shape /\ UpdatesAreExclusive /\ LoginInv /\ ListsInv
  BY DEF IInv
<1>a. task[t].phase = "sent" /\ task[t].client \in Client /\ task[t] \in Request
  BY <1>0 DEF TypeOK, Shape, RequestShape, ServerAnswers, Is
<1>b. PICK tok \in {task[t].client.token, task[t].client.account} :
        LET c == [task[t].client EXCEPT !.token = tok] IN
        /\ \E answer \in Answers(t, c) \cup {None} :
             /\ answer # None => tok # None
             /\ task' = [u \in Tasks |->
                  IF u = t THEN [task[t] EXCEPT !.phase = "answered", !.client = c,
                                                !.answer = answer]
                  ELSE IF task[u].client = task[t].client
                  THEN [task[u] EXCEPT !.client = c] ELSE task[u]]
        /\ client' = IF client = task[t].client THEN c ELSE client
  BY DEF ServerAnswers
<1> DEFINE c == [task[t].client EXCEPT !.token = tok]
<1>c. c \in Client /\ c.account = task[t].client.account /\ c.token = tok
  BY <1>a, <1>b DEF Client
<1>d. PICK answer \in Answers(t, c) \cup {None} :
        /\ answer # None => tok # None
        /\ task' = [u \in Tasks |->
             IF u = t THEN [task[t] EXCEPT !.phase = "answered", !.client = c,
                                           !.answer = answer]
             ELSE IF task[u].client = task[t].client
             THEN [task[u] EXCEPT !.client = c] ELSE task[u]]
  BY <1>b
<1>e. client' = IF client = task[t].client THEN c ELSE client
  BY <1>b
<1> HIDE DEF c
<1>f. answer # None =>
        /\ answer \in Answer /\ answer.about = tok
        /\ task[t].kind \in Lists =>
             /\ answer.version = server[task[t].kind]
             /\ answer.etag \in {0, server[task[t].kind]}
             /\ ~answer.body =>
                  task[t].prev # None /\ task[t].prev.etag = server[task[t].kind]
  <2> SUFFICES ASSUME answer # None PROVE <1>f!2
    OBVIOUS
  <2>1. Authenticated(c) = tok /\ tok \in Accounts \cup {None}
    BY <1>a, <1>b, <1>c, <1>d DEF Authenticated, Client
  <2>2. CASE task[t].kind \notin Lists
    <3>1. answer \in [about: {Authenticated(c)}, body: {TRUE}, version: {0}, etag: {0}]
      BY <1>d, <2>2 DEF Answers
    <3>2. answer.about = tok /\ answer.body \in BOOLEAN
      BY <2>1, <3>1
    <3>3. answer \in Answer
      BY <2>1, <3>1, <3>2 DEF Answer
    <3> QED
      BY <2>2, <3>2, <3>3
  <2>3. CASE task[t].kind \in Lists
    <3> DEFINE same == IF task[t].prev = None THEN FALSE
                       ELSE task[t].prev.etag = server[task[t].kind]
    <3>1. answer \in [about: {Authenticated(c)}, body: IF same THEN BOOLEAN ELSE {TRUE},
                      version: {server[task[t].kind]}, etag: {0, server[task[t].kind]}]
      BY <1>d, <2>3 DEF Answers
    <3>2. server[task[t].kind] \in Nat
      BY <1>0, <2>3 DEF TypeOK
    <3>3. answer.body \in BOOLEAN /\ (~answer.body => same)
      BY <3>1
    <3> QED
      BY <2>1, <2>3, <3>1, <3>2, <3>3 DEF Answer
  <2> QED
    BY <2>2, <2>3
<1>g. /\ task'[t] = [task[t] EXCEPT !.phase = "answered", !.client = c, !.answer = answer]
      /\ task'[t].kind = task[t].kind /\ task'[t].phase = "answered"
      /\ task'[t].account = task[t].account /\ task'[t].client = c
      /\ task'[t].prev = task[t].prev /\ task'[t].answer = answer
      /\ task'[t] \in Request
  BY <1>a, <1>c, <1>d, <1>f DEF Request, Phases
<1>h. ASSUME NEW u \in Tasks \ {t}
      PROVE  /\ task'[u].kind = task[u].kind /\ task'[u].phase = task[u].phase
             /\ task'[u].account = task[u].account /\ task'[u].prev = task[u].prev
             /\ task'[u].answer = task[u].answer
             /\ task'[u].client = IF task[u].client = task[t].client THEN c ELSE task[u].client
             /\ task'[u] \in Request
  BY <1>0, <1>c, <1>d DEF TypeOK, Request
<1>i. UNCHANGED <<account, token, status, lists, lock, server, former>>
  BY DEF ServerAnswers
<1>1. TypeOK'
  <2>1. task' \in [Tasks -> Request]
    BY <1>d, <1>g, <1>h
  <2> QED
    BY <1>0, <1>c, <1>e, <1>i, <2>1 DEF TypeOK
<1>2. Shape'
  <2>1. RequestShape(task'[t])
    BY <1>c, <1>g DEF RequestShape
  <2>2. ASSUME NEW u \in Tasks \ {t} PROVE RequestShape(task'[u])
    <3>1. RequestShape(task[u])
      BY <1>0 DEF Shape
    <3>2. IF task[u].client = task[t].client THEN task'[u].client = c
          ELSE task'[u].client = task[u].client
      BY <1>h
    <3>3. /\ task'[u].kind = task[u].kind /\ task'[u].phase = task[u].phase
          /\ task'[u].account = task[u].account /\ task'[u].answer = task[u].answer
      BY <1>h
    <3> QED
      BY <1>c, <3>1, <3>2, <3>3 DEF RequestShape
  <2>3. \A u \in Tasks : RequestShape(task'[u])
    BY <2>1, <2>2, Zenon
  <2> QED
    BY <2>3 DEF Shape, RequestShape
<1>3. UpdatesAreExclusive'
  <2>1. \A k \in Lists : lock'[k] = t <=> task'[t].kind = k /\ task'[t].phase \in Updating
    BY <1>0, <1>a, <1>g, <1>i DEF UpdatesAreExclusive, Updating, Looked
  <2>2. \A k \in Lists, u \in Tasks \ {t} :
          lock'[k] = u <=> task'[u].kind = k /\ task'[u].phase \in Updating
    BY <1>0, <1>h, <1>i DEF UpdatesAreExclusive
  <2> QED
    BY <2>1, <2>2 DEF UpdatesAreExclusive
<1>4. LoginInv'
  <2>1. Own(c.account) /\ Own(tok)
    BY <1>0, <1>a, <1>b, <1>c DEF LoginInv, RequestIsOwn
  <2>2. client' # None => Own(client'.account) /\ Own(client'.token)
    BY <1>0, <1>c, <1>e, <2>1 DEF LoginInv, LoginIsConsistent
  <2>3. RequestIsOwn(task[t])'
    BY <1>c, <1>f, <1>g, <1>i, <2>1 DEF RequestIsOwn, Own
  <2>4. ASSUME NEW u \in Tasks \ {t} PROVE RequestIsOwn(task[u])'
    BY <1>0, <1>c, <1>h, <1>i, <2>1 DEF LoginInv, RequestIsOwn, Own
  <2> QED
    BY <1>0, <1>i, <2>2, <2>3, <2>4 DEF LoginInv, LoginIsConsistent, Own
<1>5. ListsInv'
  <2>1. ASSUME NEW k \in Lists PROVE UpdateInv(t, k)'
    <3>1. CASE task[t].kind = k
      <4>1. UpdateInv(t, k) /\ server[k] \in Nat \ {0}
        BY <1>0 DEF ListsInv, TypeOK
      <4>2. task[t].prev \in CachedList \cup {None}
        BY <1>a DEF Request
      <4> QED
        BY <1>a, <1>f, <1>g, <1>i, <3>1, <4>1, <4>2
        DEF UpdateInv, Updating, Looked, Sound, CachedList
    <3>2. CASE task[t].kind # k
      BY <1>g, <3>2 DEF UpdateInv
    <3> QED
      BY <3>1, <3>2
  <2>2. ASSUME NEW u \in Tasks \ {t}, NEW k \in Lists PROVE UpdateInv(u, k)'
    BY <1>0, <1>h, <1>i DEF ListsInv, UpdateInv, Sound
  <2> QED
    BY <1>0, <1>i, <2>1, <2>2 DEF ListsInv, Sound
<1> QED
  BY <1>1, <1>2, <1>3, <1>4, <1>5 DEF IInv

LEMMA CacheAuthTokenStep == ASSUME IInv, NEW t \in Tasks, CacheAuthToken(t) PROVE IInv'
<1>0. TypeOK /\ Shape /\ UpdatesAreExclusive /\ LoginInv /\ ListsInv
  BY DEF IInv
<1>1. TypeOK'
  <2>1. task[t].client \in Client /\ task[t] \in Request
    BY <1>0 DEF TypeOK, Shape, RequestShape, CacheAuthToken, Is
  <2>2. token' \in Accounts \cup {None}
    BY <2>1 DEF Client, CacheAuthToken
  <2>3. Idle \in Request /\ [task[t] EXCEPT !.phase = "store"] \in Request
    BY <2>1 DEF Idle, Request, Phases
  <2>4. task' \in [Tasks -> Request] /\ lock' \in [Lists -> Tasks \cup {None}]
    BY <1>0, <2>3 DEF TypeOK, CacheAuthToken, Goes, Ends, Unlocked
  <2> QED
    BY <1>0, <2>2, <2>4 DEF TypeOK, CacheAuthToken
<1>2. Shape'
  <2>1. task \in [Tasks -> Request] /\ task[t] \in Request /\ task[t].client \in Client
    BY <1>0 DEF TypeOK, Shape, RequestShape, CacheAuthToken, Is
  <2>2. CASE Ends(t)
    <3>1. RequestShape(Idle)
      BY DEF RequestShape, Idle
    <3> QED
      BY <1>0, <2>1, <2>2, <3>1, OneChanges DEF Ends
  <2>3. CASE task[t].answer # None /\ Goes(t, "store")
    <3> DEFINE new == [task[t] EXCEPT !.phase = "store"]
    <3>1. new.phase = "store" /\ new.client \in Client /\ new.answer \in Answer
      BY <2>1, <2>3 DEF Request
    <3>2. task' = [task EXCEPT ![t] = new]
      BY <2>1, <2>3 DEF Goes
    <3> HIDE DEF new
    <3>3. RequestShape(new)
      BY <3>1 DEF RequestShape
    <3> QED
      BY <1>0, <2>1, <3>2, <3>3, OneChanges
  <2> QED
    BY <2>2, <2>3 DEF CacheAuthToken
<1>3. UpdatesAreExclusive'
  BY <1>0 DEF TypeOK, Request, Shape, RequestShape, UpdatesAreExclusive, Updating,
    Looked, CacheAuthToken, Ends, Unlocked, Idle, Is, Goes
<1>4. LoginInv'
  BY <1>0 DEF TypeOK, Request, Shape, RequestShape, LoginInv, LoginIsConsistent, Own, RequestIsOwn,
    Looked, CacheAuthToken, Ends, Unlocked, Idle, Is, Goes
<1>5. ListsInv'
  <2>1. UNCHANGED <<lists, server>>
    BY DEF CacheAuthToken
  <2>2. ASSUME NEW u \in Tasks, NEW k \in Lists PROVE UpdateInv(u, k)'
    <3>1. CASE Goes(t, "store")
      BY <1>0, <2>1, <3>1 DEF TypeOK, Request, UpdateInv, ListsInv, Sound, Updating, Looked,
        CacheAuthToken, Is, Goes
    <3>2. CASE Ends(t)
      BY <1>0, <2>1, <3>2 DEF TypeOK, UpdateInv, ListsInv, Sound, Updating, Looked,
        Ends, Idle
    <3> QED
      BY <3>1, <3>2 DEF CacheAuthToken
  <2> QED
    BY <1>0, <2>1, <2>2 DEF ListsInv, Sound
<1> QED
  BY <1>1, <1>2, <1>3, <1>4, <1>5 DEF IInv

LEMMA StoreListStep == ASSUME IInv, NEW t \in Tasks, StoreList(t) PROVE IInv'
<1>0. TypeOK /\ Shape /\ UpdatesAreExclusive /\ LoginInv /\ ListsInv
  BY DEF IInv
<1>1. TypeOK'
  <2> DEFINE k == task[t].kind
             prev == task[t].prev
             answer == task[t].answer
  <2>1. k \in Lists /\ answer \in Answer /\ prev \in CachedList \cup {None}
    BY <1>0 DEF TypeOK, Request, Shape, RequestShape, StoreList, Is
  <2>2. answer.version \in Nat \ {0} /\ (~answer.body => prev # None)
    BY <1>0, <2>1 DEF TypeOK, ListsInv, UpdateInv, Updating, Looked, StoreList, Is
  <2> HIDE DEF k, prev, answer
  <2>3. UpdatedList(prev, answer) \in CachedList
    <3>1. CASE answer.body
      BY <2>1, <2>2, <3>1 DEF UpdatedList, CachedList, Answer
    <3>2. CASE ~answer.body
      BY <2>1, <2>2, <3>2 DEF UpdatedList, CachedList, Answer
    <3> QED
      BY <3>1, <3>2
  <2>4. lists' \in [Lists -> CachedList \cup {None}]
    BY <1>0, <2>1, <2>3 DEF TypeOK, StoreList, k, prev, answer
  <2>5. Idle \in Request
    BY DEF Idle, Request, Phases
  <2>6. task' \in [Tasks -> Request] /\ lock' \in [Lists -> Tasks \cup {None}]
    BY <1>0, <2>5 DEF TypeOK, StoreList, Ends, Unlocked
  <2> QED
    BY <1>0, <2>4, <2>6 DEF TypeOK, StoreList
<1>2. Shape'
  BY <1>0 DEF TypeOK, Request, Shape, RequestShape, StoreList, Ends, Unlocked, Idle, Is, UpdatedList
<1>3. UpdatesAreExclusive'
  BY <1>0 DEF TypeOK, Request, Shape, RequestShape, UpdatesAreExclusive, Updating,
    Looked, StoreList, Ends, Unlocked, Idle, Is, UpdatedList
<1>4. LoginInv'
  BY <1>0 DEF TypeOK, Request, Shape, RequestShape, LoginInv, LoginIsConsistent, Own, RequestIsOwn,
    Looked, StoreList, Ends, Unlocked, Idle, Is, UpdatedList
<1>5. ListsInv'
  <2> DEFINE k == task[t].kind
             prev == task[t].prev
             answer == task[t].answer
             new == UpdatedList(prev, answer)
  <2>1. /\ k \in Lists /\ task[t].phase = "store" /\ task[t] \in Request /\ answer \in Answer
        /\ lists' = [lists EXCEPT ![k] = new] /\ UNCHANGED server
        /\ server[k] \in Nat
        /\ task'[t].phase = "idle" /\ \A u \in Tasks \ {t} : task'[u] = task[u]
    BY <1>0 DEF TypeOK, Shape, RequestShape, StoreList, Ends, Idle, Is
  <2>2. /\ Sound(prev, k)
        /\ answer.version \in 1..server[k] /\ answer.etag \in {0, answer.version}
        /\ ~answer.body => prev # None /\ prev.etag = answer.version
    BY <1>0, <2>1 DEF ListsInv, UpdateInv, Updating, Looked, Answer
  <2>3. new.version <= server[k] /\ new.etag \in {0, new.version}
    <3> HIDE DEF k, prev, answer
    <3>1. CASE answer.body
      BY <2>1, <2>2, <3>1 DEF UpdatedList
    <3>2. CASE ~answer.body
      <4>1. prev \in CachedList /\ prev.etag = answer.version /\ prev.version \in Nat
        BY <2>1, <2>2, <3>2 DEF Request, CachedList, prev
      <4>2. prev.version <= server[k] /\ prev.etag \in {0, prev.version}
        BY <2>2, <3>2 DEF Sound
      <4>3. new.version = prev.version
            /\ new.etag = IF answer.etag = 0 THEN prev.etag ELSE answer.etag
        BY <3>2, <4>1 DEF UpdatedList, CachedList
      <4> QED
        BY <2>2, <4>1, <4>2, <4>3
    <3> QED
      BY <3>1, <3>2
  <2> HIDE DEF new
  <2>4. ASSUME NEW l \in Lists PROVE Sound(lists[l], l)'
    <3>1. Sound(lists[l], l) /\ lists' = [lists EXCEPT ![k] = new] /\ lists[l] = lists[l]
      BY <1>0, <2>1 DEF ListsInv
    <3>2. lists'[l] = IF l = k THEN new ELSE lists[l]
      BY <1>0, <2>1 DEF TypeOK
    <3> QED
      BY <2>1, <2>3, <3>1, <3>2 DEF Sound
  <2>5. ASSUME NEW l \in Lists PROVE UpdateInv(t, l)'
    BY <2>1 DEF UpdateInv, Updating, Looked
  <2>6. ASSUME NEW l \in Lists, NEW u \in Tasks \ {t} PROVE UpdateInv(u, l)'
    <3>1. UpdateInv(u, l) /\ task'[u] = task[u]
      BY <1>0, <2>1 DEF ListsInv
    <3>2. CASE l = k
      <4>1. ~(task[u].kind = k /\ task[u].phase \in Updating)
        BY <1>0, <2>1 DEF UpdatesAreExclusive, Updating, Looked
      <4> QED
        BY <3>1, <3>2, <4>1 DEF UpdateInv
    <3>3. CASE l # k
      <4>1. lists'[l] = lists[l]
        BY <1>0, <2>1, <3>3 DEF TypeOK
      <4> QED
        BY <2>1, <3>1, <4>1 DEF UpdateInv, Sound
    <3> QED
      BY <3>2, <3>3
  <2> QED
    BY <2>4, <2>5, <2>6 DEF ListsInv
<1> QED
  BY <1>1, <1>2, <1>3, <1>4, <1>5 DEF IInv

LEMMA StoreStatusStep == ASSUME IInv, NEW t \in Tasks, StoreStatus(t) PROVE IInv'
<1>0. TypeOK /\ Shape /\ UpdatesAreExclusive /\ LoginInv /\ ListsInv
  BY DEF IInv
<1>1. TypeOK'
  <2>1. status' \in Accounts \cup {None}
    BY <1>0 DEF Shape, RequestShape, Answer, StoreStatus, Is
  <2>2. Idle \in Request
    BY DEF Idle, Request, Phases
  <2>3. task' \in [Tasks -> Request] /\ lock' \in [Lists -> Tasks \cup {None}]
    BY <1>0, <2>2 DEF TypeOK, StoreStatus, Ends, Unlocked
  <2> QED
    BY <1>0, <2>1, <2>3 DEF TypeOK, StoreStatus
<1>2. Shape'
  BY <1>0 DEF TypeOK, Request, Shape, RequestShape, StoreStatus, Ends, Unlocked, Idle, Is
<1>3. UpdatesAreExclusive'
  BY <1>0 DEF TypeOK, Request, Shape, RequestShape, UpdatesAreExclusive, Updating,
    Looked, StoreStatus, Ends, Unlocked, Idle, Is
<1>4. LoginInv'
  BY <1>0 DEF TypeOK, Request, Shape, RequestShape, LoginInv, LoginIsConsistent, Own, RequestIsOwn,
    Looked, StoreStatus, Ends, Unlocked, Idle, Is
<1>5. ListsInv'
  BY <1>0 DEF TypeOK, Request, CachedList, Answer, Shape, RequestShape,
    UpdatesAreExclusive, Updating, Looked, ListsInv, Sound, UpdateInv,
    StoreStatus, Ends, Unlocked, Idle, Is
<1> QED
  BY <1>1, <1>2, <1>3, <1>4, <1>5 DEF IInv

LEMMA DropStep == ASSUME IInv, NEW t \in Tasks, Drop(t) PROVE IInv'
<1>0. TypeOK /\ Shape /\ UpdatesAreExclusive /\ LoginInv /\ ListsInv
  BY DEF IInv
<1>1. TypeOK'
  BY <1>0 DEF TypeOK, Request, Phases, Kinds, Shape, RequestShape, Drop, Ends, Unlocked, Idle, Is
<1>2. Shape'
  BY <1>0 DEF TypeOK, Request, Shape, RequestShape, Drop, Ends, Unlocked, Idle, Is
<1>3. UpdatesAreExclusive'
  BY <1>0 DEF TypeOK, Request, Shape, RequestShape, UpdatesAreExclusive, Updating,
    Looked, Drop, Ends, Unlocked, Idle, Is
<1>4. LoginInv'
  BY <1>0 DEF TypeOK, Request, Shape, RequestShape, LoginInv, LoginIsConsistent, Own, RequestIsOwn,
    Looked, Drop, Ends, Unlocked, Idle, Is
<1>5. ListsInv'
  BY <1>0 DEF TypeOK, Request, CachedList, Answer, Shape, RequestShape,
    UpdatesAreExclusive, Updating, Looked, ListsInv, Sound, UpdateInv,
    Drop, Ends, Unlocked, Idle, Is
<1> QED
  BY <1>1, <1>2, <1>3, <1>4, <1>5 DEF IInv

LEMMA CommandStep == ASSUME IInv, NEW t \in Tasks, NEW kind \in Kinds, Command(t, kind) PROVE IInv'
<1>0. TypeOK /\ Shape /\ UpdatesAreExclusive /\ LoginInv /\ ListsInv
  BY DEF IInv
<1>1. TypeOK'
  BY <1>0 DEF TypeOK, Request, Phases, Kinds, Shape, RequestShape, Command, Started, FirstPhase, Idle, Is
<1>2. Shape'
  BY <1>0 DEF TypeOK, Request, Shape, RequestShape, Command, Started, FirstPhase, Idle, Is
<1>3. UpdatesAreExclusive'
  BY <1>0 DEF TypeOK, Request, Shape, RequestShape, UpdatesAreExclusive, Updating,
    Looked, Command, Started, FirstPhase, Idle, Is
<1>4. LoginInv'
  BY <1>0 DEF TypeOK, Request, Shape, RequestShape, LoginInv, LoginIsConsistent, Own, RequestIsOwn,
    Looked, Command, Started, FirstPhase, Idle, Is
<1>5. ListsInv'
  BY <1>0 DEF TypeOK, Request, CachedList, Answer, Shape, RequestShape,
    UpdatesAreExclusive, Updating, Looked, ListsInv, Sound, UpdateInv,
    Command, Started, FirstPhase, Idle, Is
<1> QED
  BY <1>1, <1>2, <1>3, <1>4, <1>5 DEF IInv

LEMMA SetAccountIdStep == ASSUME IInv, NEW a \in Accounts \cup {None}, NEW tok \in {None, a}, SetAccountId(a, tok) PROVE IInv'
<1>0. TypeOK /\ Shape /\ UpdatesAreExclusive /\ LoginInv /\ ListsInv
  BY DEF IInv
<1>1. TypeOK'
  <2>1. account' \in Accounts \cup {None} /\ token' \in Accounts \cup {None}
    BY DEF SetAccountId
  <2>2. status' \in Accounts \cup {None} /\ lists' \in [Lists -> CachedList \cup {None}]
    BY <1>0 DEF TypeOK, SetAccountId
  <2>3. former' \subseteq Accounts
    BY <1>0 DEF TypeOK, SetAccountId, Carried
  <2> QED
    BY <1>0, <2>1, <2>2, <2>3 DEF TypeOK, SetAccountId
<1>2. Shape'
  BY <1>0 DEF TypeOK, Request, Shape, RequestShape, SetAccountId
<1>3. UpdatesAreExclusive'
  BY <1>0 DEF TypeOK, Request, Shape, RequestShape, UpdatesAreExclusive, Updating,
    Looked, SetAccountId
<1>4. LoginInv'
  <2>1. UNCHANGED task /\ account' = a /\ token' = tok /\ client' = None
    BY DEF SetAccountId
  <2>2. CASE a = account
    BY <1>0, <2>1, <2>2 DEF LoginInv, LoginIsConsistent, Own, RequestIsOwn, SetAccountId
  <2>3. CASE a # account
    <3>1. status' = None /\ former' = Carried
      BY <2>3 DEF SetAccountId
    <3>2. LoginIsConsistent'
      BY <2>1, <3>1 DEF LoginIsConsistent, Own
    <3>3. ASSUME NEW t \in Tasks PROVE RequestIsOwn(task[t])'
      <4> DEFINE r == task[t]
      <4>1. r \in Request /\ RequestShape(r) /\ task'[t] = r
        BY <1>0, <2>1 DEF TypeOK, Shape
      <4>2. ASSUME r.phase \in Looked, NEW x \in CarriedBy(r) \cap (Accounts \cup {None})
            PROVE  Own(x)'
        BY <3>1, <4>2 DEF Own, Carried
      <4>3. r.phase = "client" => r.account \in CarriedBy(r) \cap Accounts
        BY <4>1 DEF RequestShape, CarriedBy
      <4>4. r.phase \in {"sent", "answered", "store"} =>
              /\ r.client.account \in CarriedBy(r) \cap Accounts
              /\ r.client.token \in CarriedBy(r) \cap (Accounts \cup {None})
              /\ r.answer # None => r.answer.about \in CarriedBy(r) \cap (Accounts \cup {None})
        BY <4>1 DEF Request, RequestShape, CarriedBy, Client, Answer
      <4> HIDE DEF r
      <4>5. r.phase = "client" => Own(r.account)'
        BY <4>2, <4>3, <4>1 DEF Looked, r
      <4>6. r.phase \in {"sent", "answered", "store"} =>
              /\ Own(r.client.account)' /\ Own(r.client.token)'
              /\ r.answer # None => Own(r.answer.about)'
        BY <4>2, <4>4, <4>1 DEF Looked, r
      <4> QED
        BY <4>1, <4>5, <4>6 DEF RequestIsOwn, r
    <3> QED
      BY <3>2, <3>3 DEF LoginInv
  <2> QED
    BY <2>2, <2>3
<1>5. ListsInv'
  <2>1. UNCHANGED <<task, server>>
    BY DEF SetAccountId
  <2>2. \A k \in Lists : lists'[k] \in {lists[k], None}
    BY <1>0 DEF TypeOK, SetAccountId
  <2>3. ASSUME NEW k \in Lists, NEW u \in Tasks PROVE UpdateInv(u, k)'
    BY <1>0, <2>1, <2>2 DEF ListsInv, UpdateInv, Sound
  <2> QED
    BY <1>0, <2>1, <2>2, <2>3 DEF ListsInv, Sound
<1> QED
  BY <1>1, <1>2, <1>3, <1>4, <1>5 DEF IInv

LEMMA ClearClientStep == ASSUME IInv, ClearClient PROVE IInv'
<1>0. TypeOK /\ Shape /\ UpdatesAreExclusive /\ LoginInv /\ ListsInv
  BY DEF IInv
<1>1. TypeOK'
  BY <1>0 DEF TypeOK, Request, Phases, Kinds, Shape, RequestShape, ClearClient
<1>2. Shape'
  BY <1>0 DEF TypeOK, Request, Shape, RequestShape, ClearClient
<1>3. UpdatesAreExclusive'
  BY <1>0 DEF TypeOK, Request, Shape, RequestShape, UpdatesAreExclusive, Updating,
    Looked, ClearClient
<1>4. LoginInv'
  BY <1>0 DEF TypeOK, Request, Shape, RequestShape, LoginInv, LoginIsConsistent, Own, RequestIsOwn,
    Looked, ClearClient
<1>5. ListsInv'
  BY <1>0 DEF TypeOK, Request, CachedList, Answer, Shape, RequestShape,
    UpdatesAreExclusive, Updating, Looked, ListsInv, Sound, UpdateInv,
    ClearClient
<1> QED
  BY <1>1, <1>2, <1>3, <1>4, <1>5 DEF IInv

LEMMA ListAgesStep == ASSUME IInv, NEW k \in Lists, ListAges(k) PROVE IInv'
<1>0. TypeOK /\ Shape /\ UpdatesAreExclusive /\ LoginInv /\ ListsInv
  BY DEF IInv
<1>1. TypeOK'
  <2>1. [lists[k] EXCEPT !.fresh = FALSE] \in CachedList
    <3>1. lists[k] \in CachedList
      BY <1>0 DEF TypeOK, ListAges
    <3> QED
      BY <3>1 DEF CachedList
  <2> QED
    BY <1>0, <2>1 DEF TypeOK, ListAges
<1>2. Shape'
  BY <1>0 DEF TypeOK, Request, Shape, RequestShape, ListAges
<1>3. UpdatesAreExclusive'
  BY <1>0 DEF TypeOK, Request, Shape, RequestShape, UpdatesAreExclusive, Updating,
    Looked, ListAges
<1>4. LoginInv'
  BY <1>0 DEF TypeOK, Request, Shape, RequestShape, LoginInv, LoginIsConsistent, Own, RequestIsOwn,
    Looked, ListAges
<1>5. ListsInv'
  BY <1>0 DEF TypeOK, Request, CachedList, Answer, Shape, RequestShape,
    UpdatesAreExclusive, Updating, Looked, ListsInv, Sound, UpdateInv,
    ListAges
<1> QED
  BY <1>1, <1>2, <1>3, <1>4, <1>5 DEF IInv

LEMMA ServerChangesStep == ASSUME IInv, NEW k \in Lists, ServerChanges(k) PROVE IInv'
<1>0. TypeOK /\ Shape /\ UpdatesAreExclusive /\ LoginInv /\ ListsInv
  BY DEF IInv
<1>1. TypeOK'
  BY <1>0 DEF TypeOK, Request, Phases, Kinds, Shape, RequestShape, ServerChanges
<1>2. Shape'
  BY <1>0 DEF TypeOK, Request, Shape, RequestShape, ServerChanges
<1>3. UpdatesAreExclusive'
  BY <1>0 DEF TypeOK, Request, Shape, RequestShape, UpdatesAreExclusive, Updating,
    Looked, ServerChanges
<1>4. LoginInv'
  BY <1>0 DEF TypeOK, Request, Shape, RequestShape, LoginInv, LoginIsConsistent, Own, RequestIsOwn,
    Looked, ServerChanges
<1>5. ListsInv'
  BY <1>0 DEF TypeOK, Request, CachedList, Answer, Shape, RequestShape,
    UpdatesAreExclusive, Updating, Looked, ListsInv, Sound, UpdateInv,
    ServerChanges
<1> QED
  BY <1>1, <1>2, <1>3, <1>4, <1>5 DEF IInv

LEMMA Step == IInv /\ [Next]_vars => IInv'
<1> SUFFICES ASSUME IInv, [Next]_vars PROVE IInv'
  OBVIOUS
<1>1. ASSUME NEW t \in Tasks, RequestStep(t) PROVE IInv'
  BY <1>1, TakeLockStep, ReadAccountStep, GetClientStep, GetNoClientStep,
    ServerAnswersStep, CacheAuthTokenStep, StoreListStep, StoreStatusStep DEF RequestStep
<1>2. ASSUME NEW t \in Tasks, Drop(t) PROVE IInv'
  BY <1>2, DropStep
<1>3. ASSUME NEW t \in Tasks, NEW kind \in Kinds, Command(t, kind) PROVE IInv'
  BY <1>3, CommandStep
<1>4. ASSUME NEW a \in Accounts, Login(a) PROVE IInv'
  BY <1>4, SetAccountIdStep DEF Login
<1>5. CASE Logout
  BY <1>5, SetAccountIdStep DEF Logout
<1>6. CASE ClearClient
  BY <1>6, ClearClientStep
<1>7. ASSUME NEW k \in Lists, ListAges(k) \/ ServerChanges(k) PROVE IInv'
  BY <1>7, ListAgesStep, ServerChangesStep
<1>8. CASE UNCHANGED vars
  BY <1>8 DEF vars, IInv, TypeOK, Shape, RequestShape, UpdatesAreExclusive, LoginInv, LoginIsConsistent, Own,
    RequestIsOwn, ListsInv, Sound, UpdateInv
<1> QED
  BY <1>1, <1>2, <1>3, <1>4, <1>5, <1>6, <1>7, <1>8 DEF Next, Environment

LEMMA Invariance == Spec => []IInv
BY Initially, Step, PTL DEF Spec

\* Every variable keeps its shape.
THEOREM TypeCorrect == Spec => []TypeOK
<1>1. IInv => TypeOK
  BY DEF IInv
<1> QED
  BY <1>1, Invariance, PTL

\* The token, the status and the client belong to the account that is logged in
\* or to one that a request carried when it logged in (set_account_id against
\* api_client and cache_auth_token).
THEOREM LoginsStayConsistent == Spec => []LoginIsConsistent
<1>1. IInv => LoginIsConsistent
  BY DEF IInv, LoginInv
<1> QED
  BY <1>1, Invariance, PTL

\* The lock of a list is held by the one request that updates it
\* (exit_update_lock and relay_update_lock).
THEOREM UpdatesStayExclusive == Spec => []UpdatesAreExclusive
<1>1. IInv => UpdatesAreExclusive
  BY DEF IInv
<1> QED
  BY <1>1, Invariance, PTL

\* Only StoreList makes a list newer.
LEMMA NewList ==
  ASSUME IInv, NEW t \in Tasks, StoreList(t), NEW k \in Lists
  PROVE  Newer(lists'[k], lists[k])
<1>1. CASE task[t].kind # k
  BY <1>1 DEF IInv, TypeOK, CachedList, ListsInv, Sound, StoreList, Newer
<1>2. CASE task[t].kind = k
  <2> DEFINE prev == task[t].prev
             answer == task[t].answer
  <2>1. lists'[k] = UpdatedList(prev, answer)
    BY <1>2 DEF IInv, TypeOK, StoreList
  <2>2. answer \in Answer /\ prev \in CachedList \cup {None}
    BY DEF IInv, TypeOK, Request, Shape, RequestShape, StoreList, Is
  <2>3. /\ prev # None => answer.version >= prev.version /\ prev.etag \in {0, prev.version}
        /\ answer.etag \in {0, answer.version} /\ answer.version \in Nat \ {0}
        /\ ~answer.body => prev # None /\ prev.etag = answer.version
        /\ lists[k] # None => prev # None /\ prev.version = lists[k].version
    BY <1>2, <2>2 DEF IInv, TypeOK, ListsInv, UpdateInv, Sound, Updating, Looked, StoreList, Is
  <2> HIDE DEF prev, answer
  <2>4. CASE answer.body
    BY <2>1, <2>2, <2>3, <2>4 DEF UpdatedList, Newer, CachedList, Answer
  <2>5. CASE ~answer.body
    BY <2>1, <2>2, <2>3, <2>5 DEF UpdatedList, Newer, CachedList, Answer
  <2> QED
    BY <2>4, <2>5
<1> QED
  BY <1>1, <1>2

\* A cached list is never replaced by an older one, nor kept with the ETag of
\* another (maybe_update_exits, maybe_update_relays).
THEOREM ListsNeverGoBack == Spec => ListsMoveForward
<1>1. IInv /\ [Next]_vars => [\A k \in Lists : Newer(lists'[k], lists[k])]_lists
  <2> SUFFICES ASSUME IInv, [Next]_vars, lists' # lists, NEW k \in Lists
               PROVE  Newer(lists'[k], lists[k])
    OBVIOUS
  <2>1. ASSUME NEW t \in Tasks, StoreList(t) PROVE Newer(lists'[k], lists[k])
    BY <2>1, NewList
  <2>2. ASSUME NEW a \in Accounts \cup {None}, NEW tok \in {None, a}, SetAccountId(a, tok)
        PROVE  Newer(lists'[k], lists[k])
    BY <2>2 DEF SetAccountId, Newer
  <2>3. ASSUME NEW l \in Lists, ListAges(l) PROVE Newer(lists'[k], lists[k])
    <3>1. lists \in [Lists -> CachedList \cup {None}] /\ Sound(lists[k], k)
      BY DEF IInv, TypeOK, ListsInv
    <3>2. CASE k = l
      <4>1. lists[l] \in CachedList /\ lists'[l] = [lists[l] EXCEPT !.fresh = FALSE]
        BY <2>3, <3>1 DEF ListAges
      <4> QED
        BY <3>1, <3>2, <4>1 DEF CachedList, Sound, Newer
    <3>3. CASE k # l
      BY <2>3, <3>1, <3>3 DEF ListAges, CachedList, Sound, Newer
    <3> QED
      BY <3>2, <3>3
  <2> QED
    BY <2>1, <2>2, <2>3 DEF Next, RequestStep, TakeLock, ReadAccount, GetClient, GetNoClient,
      ServerAnswers, CacheAuthToken, StoreStatus, Drop, Command, Environment, Login,
      Logout, ClearClient, ServerChanges, vars
<1> QED
  BY <1>1, Invariance, PTL DEF Spec, ListsMoveForward
=============================================================================
