----------------------------- MODULE ApiClient -----------------------------
(***************************************************************************)
(* The API client, its token and the cached lists of the client state      *)
(* (rustlib/src/client_state.rs, config/cached.rs).                        *)
(*                                                                         *)
(* Every request is a task that other threads overtake between any two     *)
(* steps: the account is read, the client is fetched or made, the server   *)
(* answers, the client's token is cached, the answer is stored.  Meanwhile *)
(* the user logs in and out and changes settings.  An account stands for   *)
(* itself and for the tokens issued to it, equal clients are the same      *)
(* client, and a list is its version.                                      *)
(***************************************************************************)
EXTENDS Naturals, FiniteSets

CONSTANTS
  Accounts, None,
  Lists,       \* the cached lists: exits and relays
  Tasks,       \* the tasks that make requests
  MaxVersion   \* bound: how often the server changes each list

ASSUME VersionsAreBounded == MaxVersion \in [Lists -> Nat \ {0}]

VARIABLES
  account,    \* config.account_id
  token,      \* config.cached_auth_token: the account it was issued to
  status,     \* config.cached_account_status: the account it is about
  lists,      \* config.cached_exits and config.cached_relays
  client,     \* cached_api_client
  lock,       \* exit_update_lock and relay_update_lock: the holder
  task,       \* the requests under way
  server,     \* the versions of the lists at the server
  former      \* whose logins the requests carried that the last login overtook

vars == <<account, token, status, lists, client, lock, task, server, former>>

Client == [account: Accounts, token: Accounts \cup {None}]

\* An artificial version has no ETag.
CachedList == [version: Nat \ {0}, etag: Nat, fresh: BOOLEAN]

Answer == [about: Accounts \cup {None}, body: BOOLEAN, version: Nat, etag: Nat]

ASSUME NoneIsNothing ==
  /\ None \notin Accounts \cup Lists \cup Tasks
  /\ None \notin Client /\ None \notin CachedList /\ None \notin Answer

Kinds == Lists \cup {"status", "other"}

Idle ==
  [kind |-> None, phase |-> "idle", account |-> None, client |-> None,
   prev |-> None, answer |-> None]

Init ==
  /\ account \in Accounts
  /\ token = None
  /\ status = None
  /\ lists = [k \in Lists |-> None]
  /\ client = None
  /\ lock = [k \in Lists |-> None]
  /\ task = [t \in Tasks |-> Idle]
  /\ server = [k \in Lists |-> 1]
  /\ former = {}

Is(t, phase) == task[t].phase = phase

Goes(t, phase) == task' = [task EXCEPT ![t].phase = phase]

\* Operators whose name begins with "Bad" are faulty variants of the operator
\* that follows them; only the sensitivity checks of PROJECT.json use them.

\* The guard of a task that fails is kept.
BadUnlocked(t) == [k \in Lists |->
  IF lock[k] = t /\ ~Is(t, "answered") THEN None ELSE lock[k]]

Unlocked(t) == [k \in Lists |-> IF lock[k] = t THEN None ELSE lock[k]]

\* A task that ends drops its guard of the update lock.
Ends(t) ==
  /\ task' = [task EXCEPT ![t] = Idle]
  /\ lock' = Unlocked(t)

-----------------------------------------------------------------------------
(* A request                                                               *)

FirstPhase(kind) == IF kind \in Lists THEN "lock" ELSE "account"

Started(kind) == [Idle EXCEPT !.kind = kind, !.phase = FirstPhase(kind)]

\* The lock is not taken.
BadTakeLock(t) ==
  /\ Is(t, "lock")
  /\ task' = [task EXCEPT ![t].phase = "account", ![t].prev = lists[task[t].kind]]
  /\ UNCHANGED <<account, token, status, lists, client, lock, server, former>>

\* maybe_update_exits, maybe_update_relays: the cached list is read under the
\* lock, and returned if it is fresh enough.
TakeLock(t) ==
  LET k == task[t].kind
      fresh == IF lists[k] = None THEN FALSE ELSE lists[k].fresh
  IN  /\ Is(t, "lock")
      /\ lock[k] = None
      /\ IF fresh
         THEN Ends(t)
         ELSE /\ task' = [task EXCEPT ![t].phase = "account", ![t].prev = lists[k]]
              /\ lock' = [lock EXCEPT ![k] = t]
      /\ UNCHANGED <<account, token, status, lists, client, server, former>>

\* api_client: the account is read in a borrow of its own.
ReadAccount(t) ==
  /\ Is(t, "account")
  /\ IF account = None
     THEN Ends(t)
     ELSE /\ task' = [task EXCEPT ![t].phase = "client", ![t].account = account]
          /\ UNCHANGED lock
  /\ UNCHANGED <<account, token, status, lists, client, server, former>>

\* api_client: the cached client, or a new one with the cached token.
GetClient(t) ==
  /\ Is(t, "client")
  /\ client' = IF client # None THEN client
               ELSE [account |-> task[t].account, token |-> token]
  /\ task' = [task EXCEPT ![t].phase = "sent", ![t].client = client']
  /\ UNCHANGED <<account, token, status, lists, lock, server, former>>

\* make_api_client fails: no HTTP client can be built.
GetNoClient(t) ==
  /\ Is(t, "client")
  /\ client = None
  /\ Ends(t)
  /\ UNCHANGED <<account, token, status, lists, client, server, former>>

\* Whom the server takes a request for: a token decides, if there is one.
Authenticated(c) == IF c.token # None THEN c.token ELSE c.account

\* What the server answers to a request made with client c: the list unless the
\* ETag of the request matches, with or without an ETag of its own.
Answers(t, c) ==
  LET k == task[t].kind IN
  IF k \notin Lists
  THEN [about: {Authenticated(c)}, body: {TRUE}, version: {0}, etag: {0}]
  ELSE LET same == IF task[t].prev = None THEN FALSE
                   ELSE task[t].prev.etag = server[k]
       IN  [about: {Authenticated(c)}, body: IF same THEN BOOLEAN ELSE {TRUE},
            version: {server[k]}, etag: {0, server[k]}]

\* Client::run gets a token when it has none, or when the server refuses the
\* one it has.  Whoever else holds the same client sees the new token.
ServerAnswers(t) ==
  /\ Is(t, "sent")
  /\ \E tok \in {task[t].client.token, task[t].client.account} :
       LET c == [task[t].client EXCEPT !.token = tok] IN
       /\ \E answer \in Answers(t, c) \cup {None} :
            /\ answer # None => tok # None
            /\ task' = [u \in Tasks |->
                 IF u = t THEN [task[t] EXCEPT !.phase = "answered", !.client = c,
                                               !.answer = answer]
                 ELSE IF task[u].client = task[t].client
                 THEN [task[u] EXCEPT !.client = c] ELSE task[u]]
       /\ client' = IF client = task[t].client THEN c ELSE client
  /\ UNCHANGED <<account, token, status, lists, lock, server, former>>

\* cache_auth_token, whatever the answer.  Lists are stored in a further step;
\* so is an account's status; other answers go to the caller.
CacheAuthToken(t) ==
  /\ Is(t, "answered")
  /\ token' = task[t].client.token
  /\ IF task[t].answer # None /\ task[t].kind # "other"
     THEN Goes(t, "store") /\ UNCHANGED lock
     ELSE Ends(t)
  /\ UNCHANGED <<account, status, lists, client, server, former>>

\* ConfigCached::new and ConfigCached::revalidated.
UpdatedList(prev, answer) ==
  IF answer.body
  THEN [version |-> answer.version, etag |-> answer.etag, fresh |-> TRUE]
  ELSE [prev EXCEPT !.etag = IF answer.etag = 0 THEN @ ELSE answer.etag,
                    !.fresh = TRUE]

StoreList(t) ==
  LET k == task[t].kind IN
  /\ Is(t, "store")
  /\ k \in Lists
  /\ lists' = [lists EXCEPT ![k] = UpdatedList(task[t].prev, task[t].answer)]
  /\ Ends(t)
  /\ UNCHANGED <<account, token, status, client, server, former>>

\* Manager::get_account_info: update_account_info
StoreStatus(t) ==
  /\ Is(t, "store")
  /\ task[t].kind = "status"
  /\ status' = task[t].answer.about
  /\ Ends(t)
  /\ UNCHANGED <<account, token, lists, client, server, former>>

-----------------------------------------------------------------------------
(* What happens around requests                                            *)

\* Phases in which a task has looked at the login, and whose it then carries.
Looked == {"client", "sent", "answered", "store"}

CarriedBy(r) ==
  {r.account}
    \cup (IF r.client = None THEN {} ELSE {r.client.account, r.client.token})
    \cup (IF r.answer = None THEN {} ELSE {r.answer.about})

Carried ==
  Accounts \cap UNION {CarriedBy(task[t]) : t \in {u \in Tasks : task[u].phase \in Looked}}

\* The client of the old account stays.
BadSetAccountId(a, tok) ==
  /\ account' = a /\ token' = tok
  /\ IF a = account THEN UNCHANGED <<status, lists, former>>
     ELSE /\ status' = None /\ lists' = [k \in Lists |-> None]
          /\ former' = Carried
  /\ UNCHANGED <<client, lock, task, server>>

\* Another account starts from an empty configuration.
SetAccountId(a, tok) ==
  /\ account' = a
  /\ token' = tok
  /\ client' = None
  /\ IF a = account
     THEN UNCHANGED <<status, lists, former>>
     ELSE /\ status' = None
          /\ lists' = [k \in Lists |-> None]
          /\ former' = Carried
  /\ UNCHANGED <<lock, task, server>>

\* Manager::login, with a token if the account was validated before.
Login(a) == \E tok \in {None, a} : SetAccountId(a, tok)

Logout == SetAccountId(None, None)

\* set_api_host_alternate, set_api_url, set_network_interface
ClearClient ==
  /\ client # None
  /\ client' = None
  /\ UNCHANGED <<account, token, status, lists, lock, task, server, former>>

ListAges(k) ==
  /\ lists[k] # None
  /\ lists[k].fresh
  /\ lists' = [lists EXCEPT ![k].fresh = FALSE]
  /\ UNCHANGED <<account, token, status, client, lock, task, server, former>>

ServerChanges(k) ==
  /\ server[k] < MaxVersion[k]
  /\ server' = [server EXCEPT ![k] = @ + 1]
  /\ UNCHANGED <<account, token, status, lists, client, lock, task, former>>

\* A command of a front end: update a list, or ask for the account's status.
Command(t, kind) ==
  /\ Is(t, "idle")
  /\ task' = [task EXCEPT ![t] = Started(kind)]
  /\ UNCHANGED <<account, token, status, lists, client, lock, server, former>>

\* The caller drops its request at the only await: an attempt to connect ends
\* when the target changes.
Drop(t) ==
  /\ Is(t, "sent")
  /\ task[t].kind = "other"
  /\ Ends(t)
  /\ UNCHANGED <<account, token, status, lists, client, server, former>>

RequestStep(t) ==
  \/ TakeLock(t) \/ ReadAccount(t) \/ GetClient(t) \/ GetNoClient(t) \/ ServerAnswers(t)
  \/ CacheAuthToken(t) \/ StoreList(t) \/ StoreStatus(t)

Environment ==
  \/ \E a \in Accounts : Login(a)
  \/ Logout \/ ClearClient
  \/ \E k \in Lists : ListAges(k) \/ ServerChanges(k)

Next ==
  \/ \E t \in Tasks : RequestStep(t) \/ Drop(t) \/ \E kind \in Kinds : Command(t, kind)
  \/ Environment

Spec == Init /\ [][Next]_vars

-----------------------------------------------------------------------------
(* Properties                                                              *)

Phases == {"idle", "lock", "account", "client", "sent", "answered", "store"}

Request ==
  [kind: Kinds \cup {None}, phase: Phases, account: Accounts \cup {None},
   client: Client \cup {None}, prev: CachedList \cup {None},
   answer: Answer \cup {None}]

\* Every variable has its shape.
TypeOK ==
  /\ account \in Accounts \cup {None}
  /\ token \in Accounts \cup {None}
  /\ status \in Accounts \cup {None}
  /\ lists \in [Lists -> CachedList \cup {None}]
  /\ client \in Client \cup {None}
  /\ lock \in [Lists -> Tasks \cup {None}]
  /\ task \in [Tasks -> Request]
  /\ server \in [Lists -> Nat \ {0}]
  /\ former \subseteq Accounts

Own(a) == a \in {None, account} \cup former

\* The client that the next request uses, the token a new client gets and the
\* status that front ends see belong to the account that is logged in, or to one
\* that a request still carried when that account logged in: what a request
\* leaves behind is healed by the next login, and is never that of an account
\* that no request under way was made for.
LoginIsConsistent ==
  /\ Own(token)
  /\ Own(status)
  /\ client # None => Own(client.account) /\ Own(client.token)

\* An update keeps the lock of its list from the look at the cache to the store,
\* and nothing else does: two updates never run at once, and none waits for a
\* task that is gone.
Updating == {"account"} \cup Looked

UpdatesAreExclusive ==
  \A k \in Lists, t \in Tasks :
    lock[k] = t <=> task[t].kind = k /\ task[t].phase \in Updating

\* A cached list is never replaced by an older one, and the ETag that is sent
\* for it is that of the list itself, so that a newer list is not missed:
\* two updates at a time, or one that is overtaken, cannot mix them up.
Newer(new, old) ==
  new # None =>
    /\ new.etag \in {0, new.version}
    /\ old # None => new.version >= old.version

ListsMoveForward == [][\A k \in Lists : Newer(lists'[k], lists[k])]_lists
=============================================================================
