# Verification of the Obscura VPN client

This directory models the core of the client, `src/rustlib`, in TLA+. TLC checks
the models on small instances; TLAPS proves the theorems of the `*_proofs.tla`
modules for every value of the constants. `PROJECT.json` lists components, runs,
the source lines behind every definition, faulty variants that every checked
property rejects, theorems and hazards.

Paths below are relative to `src/rustlib/src` unless they begin with `src/`.
`linux/` at the beginning of a path stands for `bin/obscura/service/os/linux/`.

    tlc -workers 2 -config TunnelState.cfg TunnelState
    tlapm TunnelState_proofs.tla

## 1. The system

The client is a service (Linux, Windows) or a network extension (Apple, Android)
that keeps a WireGuard tunnel to an exit, carried over QUIC or TCP/TLS to a relay.
Front ends talk to it with manager commands; on Linux over a local socket.

```
 front ends --commands--> Manager --> ClientState <--config/keys--> disk, TPM, keychain
     ^      (IPC)            |            |  |  target state (watch)
     |                 status watch  API <+  v
     +-------poll------------^      TunnelState::maintain --set/unset--> RevocableOs --> Os
                             |            |  connect         (Linux: DNS, nft, tun)  |  policy (watch)
                             +---state----+      v                                     v
                                        select_relay, new_tunnel     route enforcer <-netlink-> kernel
                                                 |
                                           QuicWgConn (liveness checker, transport)
```

### Components

| Component | State | Operations | Interacts by | Hard | Correct if |
|---|---|---|---|---|---|
| Reconciliation loop, `tunnel_state.rs` | published tunnel state, target snapshot, failure of the last tunnel, exit selection | `maintain`; `set_connecting`, `set_connected`, `set_connect_error`, `set_disconnected` | reads target watch, publishes state watch, calls `Os` and `ClientState::connect` | target changes at each await; calls fail half way; tunnels die | what is published, routed and held agree; the target is reached |
| Key cache and registration, `config/persistence.rs`, `client_state.rs`, `manager.rs` | key pair, age, registration, old keys; disk; keychain; server | use, rotate, register, load, save, switch account | exclusive closures on the client state; API requests between them | rotation during a request; lost answers; failed saves; restarts | no key is orphaned at the server or used with a wrong secret |
| Linux OS configuration, `linux/mod.rs`, `netfilter.rs`, `fd_store.rs`, `tun.rs`, `dns/`, `network_manager.rs` | nft tables and the netlink sockets that own them, tun device, link DNS, reader task | `set_os_network_config`, `unset_os_network_config`, start, exit | called by the loop; sends the policy to the enforcer; systemd's fd store | each step fails alone; crash between steps; answers left unread; a lost or second stored socket | Ok means in force; the kill switch survives |
| nftables rules, `linux/netfilter.rs` | ruleset, conntrack entries and marks | `apply_ruleset`, every packet | the kernel | rule order under each combination of settings; flows older than the rules | only documented traffic passes |
| Route enforcer, `linux/routes/traffic_capture_routes.rs` | ip rules and routes in the kernel, netlink queue | check, apply, wait | policy watch, netlink reports | others change rules while it looks | asleep means routed |
| Liveness checker, `liveness.rs` | outstanding probes, slow pongs, waking | `poll`, `sent_traffic`, `process_potential_probe_response`, `wake` | driven by `QuicWgConn` | losses, sleep, late pongs | no false death; death noticed |
| Relay selection, `relay_selection.rs`, `select_relay` | handshake tasks, best candidate, deadline | race, next, abandon | JoinSet, timers, cancellation by the loop | success in the middle of an abort | the fastest is chosen in time, all others are stopped |
| Connect and exit selection, `client_state.rs`, `exit_selection.rs`, `quicwg.rs` | an attempt; exits, datacenters, cities and countries tried | `new_tunnel`, `select_next_exit`, first handshake, first pong | updates of lists in tasks of their own; the loop drops it | lists and selectors change between attempts; answers never come | exits take turns; "no exit" is true; every attempt ends |
| TCP/TLS transport, `quicwg.rs` | two queues in a watch channel, task, half-read message | send, receive, write task | watch channel, `select!` | cancelled reads, lost wake-ups, full queue | nothing lost, repeated, reordered or misread |
| Client state and API, `client_state.rs`, `config/cached.rs` | account, token, API client, cached lists with locks | `api_request`, `cached_api_request`, `maybe_update_exits/relays`, login, logout | every other part | account and settings change between any two steps of a request | one login throughout; lists only get newer |
| Manager and Linux front ends, `manager.rs`, `linux/ipc.rs`, `gui/`, `src/rustlib/src/linux/` | status with version; a connection; the state shown | propagation, `GetStatus`, poll, show | watches, two sockets, systemd over D-Bus | crashes at each step of a poll; access and versions change | what is true is shown in the end |
| Service life cycle, `bin/obscura/service/mod.rs`, `os/os_trait.rs`, `os/windows/scm.rs` | restart marker, saved target, revocable OS, a user's command | start, shutdown, crash, stop, reboot; `SetTunnelArgs` with retries | systemd or the Windows service manager | revocation times out; a start fails; a command's service dies | the target that was set last holds; the OS is reverted for good |
| TPM key, `wg_key_store/` | sealing key, sealed secret, boot state | open, check, replace, seal, unseal | called by start and key generation | Secure Boot changes; the TPM fails | what is sealed can be unsealed |
| Rest of the WireGuard session, Windows, Apple, Android, helpers, other front ends | | | | | see 5 |

## 2. The modules

| Module | Models | Composition |
|---|---|---|
| `TunnelPromise` | what the tunnel promises to its observers | abstract |
| `TunnelState` | `TunnelState::maintain` | implements `TunnelPromise` (`ImplementsPromise`) |
| `WgKeyCache` | `WireGuardKeyCache` as operators | used by `WgKeys` |
| `WgKeys` | the cache in memory, on disk, in the keychain and at the server | EXTENDS `WgKeyCache` |
| `OsCalls` | what the loop relies on when it calls the OS | abstract |
| `LinuxOs` | the two OS calls: steps, crashes, acknowledgements, sockets and the fd store | implements `OsCalls` (`ImplementsCalls`) |
| `Netfilter` | the rules that `LinuxOs.nft` stands for, on the packets of a flow | refines one value of `LinuxOs` |
| `RouteEnforcer` | the enforcement loop | receives the policies that `LinuxOs.desired` stands for |
| `LivenessChecker` | probes and timers | `Die` is one cause of `TunnelState.ConnBreaks` |
| `RelayRace` | `select_relay` and its handshakes | one step (`Race`) of `Connect` |
| `Connect` | attempts to connect and the choice of exits | its attempts are `connect` of `TunnelState` |
| `TcpTlsTransport` | one of the two transports | under the connection; its errors are `ConnBreaks` |
| `ApiClient` | requests, logins and cached lists | its updates are those that `Connect` waits for |
| `StatusWatch` | from the tunnel's phase to what a front end shows | the phases of `TunnelState` |
| `Service` | the service and a command through starts, shutdowns, crashes | calls of `TunnelState` to the OS, with `RevocableOs` between |
| `SealingKey` | the TPM key on Windows and Linux | used by `SealedService` |
| `SealedService` | start, key store and manager in order | EXTENDS `Service`, INSTANCE `SealingKey` |

`MC*.tla` give constants and symmetry to TLC. `*_proofs.tla` hold the theorems.
Operators whose name begins with `Bad` are faulty variants of the operator that
follows them. They take no part in the models; `PROJECT.json` pairs each with
the property that notices it.

### TunnelState

`pc` names the await the loop is suspended at: the debounce sleep, the two
`set_os_network_config` calls (`set_dummy`, `set_real`), `connect`, forwarding,
the unset call, and the two waits for a change. What runs between two awaits is
one action. `snap` is the local `target_state`, `target` the value of the watch
channel; `candidate` is the local `connected`. `BeginIteration` is everything
from the end of the debounce sleep to the next await: reading the target,
rotating an aged key, dropping what does not match and publishing. OS calls
succeed, or leave any mixture of old and new (`PartlyConfigured`); `LinuxOs`
shows that the Linux implementation does no more than that. A connection has
the arguments and the interface it was opened with, counts bytes and may break.
The environment changes the target in every field.

### WgKeyCache and WgKeys

A key pair is named by its public key; `secret` names the key whose secret half
is in memory. `Persisted` is what serde writes, `TrySetSecretKey` what loading
restores from TPM or keychain. Each closure on the client state is one action,
with the save that belongs to it (`Change`), which fails or not. A registration
is a chain of actions: the request is prepared, sent, processed or refused by
the server, answered, or lost at any point. `lost` and `strays` mark what no
client could repair: a process that ended with unsaved changes, and a request
of an earlier login that the server processed under the new one. A file that
cannot be parsed is replaced by the default (`RestartWithoutConfig`).

### LinuxOs and OsCalls

A configuration is one value for addresses, DNS and bypass settings. A call goes
through its steps in the order of the code (`After`); a step that fails leaves
old, new or "partial", except the nft batch, which is atomic in the kernel. The
DNS manager is looked for in each call (`ManagerChosen`); NetworkManager takes
all settings of the device in one request, which touches the addresses, resolved
takes them one by one. `NoManager` is the early return of
`choose_dns_manager(..).await?`. An explicitly configured DNS manager is one of
the cases of "auto".

The nft step is two: `SendBatch` empties the socket (`DiscardStaleReplies`) and
sends the batch, which the kernel has processed and answered when it is sent;
`CheckAcks` reads answers until one is an error or acknowledges the last number.
What it does not read, or what a crash leaves unread, waits in `replies`, also
while systemd holds the socket; the numbers of each batch start from 1, so that
an old answer could confirm a new batch. Only as many messages are modelled as
it takes for an answer in the middle.

A table lives as long as somebody holds the socket that is its `owner`: the
process (`open`) or systemd (`stored`). `AdoptTable` is `create_or_adopt`: the
passed sockets are `Received` or not, a socket is `HandedOut` if it is the only
one of its name, otherwise `CreateSocket` makes one, and `RemoveOldAndStore`
tells systemd to remove the old ones and to store the new one, messages that
each may fail. A socket that was passed but not received stays open in the
process, or is closed if it was not passed at all. The kernel refuses batches
from a socket that does not own the table. `lapse` observes that a message of
the last start failed. `Exit` is a crash, a restart or a failed start, `Stop` a
deliberate stop of the unit, which empties the store.

### RouteEnforcer

Each dump and each request to the kernel is one step. Others remove or restore
our rules and routes between any two of them. A report goes from the kernel to
the socket, from which the netlink task moves it to the queue (`Deliver`); both
are a flag, "not empty", since the code drains all messages at once. `Fails` is
any netlink error, after which a new socket is opened.

### LivenessChecker

Time is in ticks. Instead of absolute times and ids, a probe carries its age and
how many pings ago it was sent, which makes the state space finite. The fate of
a probe is chosen when it is sent: a round trip time, or loss, of which the
network may have as many in a row as are allowed. `cut` is the network's death.
`silent`, `lostInRow` and `recent` only observe.

### RelayRace

One attempt per relay and port. A task is running, ready, held, stopping, over,
left or dropped; `taken`, `bestAt` observe. A handshake that is rejected or
replaced is stopped in a spawned task, which goes on when the race is cancelled;
the stops of `RelayHandshakeRace::abandon` end with its grace period, which
leaves them after the relay was told. Dropped is what nobody stopped: only a
cancelled attempt may do that, the abort of a task that is done may not. The limits of 100 relays
and 5 ports per relay only bound the set of attempts and are left out.

### TcpTlsTransport

`queuedOks` and `queue` are the watched state, `signal` is an unseen version of
the channel. The task is `check` (the closure of `send_if_modified`), a write of
one message, or `wait`. A message is read in two parts between which the
`select!` may let go of the future (`LetGo`); the `unfold` stream keeps the
read that was begun. The history variables `received`, `confirmed`, `carried`,
`accepted` are compared with the queues.

### Netfilter

A chain is a sequence of rules, a rule a condition on a packet and a verdict
(`Rule`, `Verdict`), in the order `tables` renders them for a `TrafficPolicy`.
One flow is observed: an owner on this side, a class of addresses on the other,
a protocol. No rule relates two flows. Any packet of it is sent, received or
forwarded on any interface with any mark, also as an ICMP error; conntrack
remembers who opened it and its mark, and forgets it at any time; the ruleset
is replaced between any two packets. Routing is not modelled, so that the rules
have to hold whatever it does.

### Connect

One attempt after another; each phase is an await of `new_tunnel`. Updates of
the lists are spawned and outlive the attempt, of which only the outcome counts
here. `selected` is `ExitSelectionState`; `tries` observes which exits were
chosen since it was cleared. A selector is the set of exits that it matches. The
limits per datacenter, city and country are constants. `DropAttempt` is the loop
that drops the attempt; a new target also clears the selection.

### ApiClient

A task makes one request: it takes the lock of its list, reads the account,
gets or makes the client, is answered, caches the token, stores the answer;
each borrow of the client state is one action. Logins, logouts and changes of
the API address come between any two. An account stands for its tokens, a list
for its version, an ETag for the version it was sent with.`former`
observes whose logins the requests carried that the last login overtook. The code
does not guard against them; the property says how far their traces may go: they
are of these accounts only, and the next login removes them.

### StatusWatch

`Propagate` is the manager's task; `poller` goes through one IPC connection
(socket, header with access and version, command, answer) and one `OsStatus`
update; `Show` stands for the page and the tray, which follow the version of
`OsStatus`. systemd, package managers, the bus, group membership and login
sessions change at any time. UUIDs are reused as soon as nobody has them, which
keeps them finite and is harder on the code than the truth.

### Service, SealingKey and SealedService

`service` is the place in `service::run`. `cause` is why the next start happens,
which only Windows tells; `marker` is the file that tells a Linux service
of a restart, preserved by systemd over restarts. `call` and `lock` are a call of the tunnel loop
to `RevocableOs` and its fair lock. `command` is a user's `SetTunnelArgs` over
one connection per attempt, with the retries of StartTunnel and the timeout of
Quit and Disconnect, after which the command may still be executed (`orphan`).
`wanted` is the target that was set last; `misread` observes two starts that are
taken for the wrong kind (see 6). `SealingKey` binds a Windows key, or each sealed
object of Linux, to what PCR 7 measured at the boot; TPM requests fail at any
time. `trouble` observes such a failure, or a boot in another state, since the
secret was sealed. Saving the configuration and creating the marker are assumed
to succeed here; failing saves are in `WgKeys`.

## 3. The runs

All runs pass. Each property is paired with a faulty variant of the code that
violates it in the same instance, which shows that the instance is large enough
for the case to happen.

| Run | Asks | Bounds, and why they are enough |
|---|---|---|
| `TunnelState` | Do published state, OS and connections agree in every interleaving? Is the promise kept? Is a stable target reached, also after failures? Do dead tunnels go? | 2 exits, settings and connections: a stale value needs one other to be confused with. 1 interface that comes and goes. 1 byte: an offset is right or wrong with the first. The safety theorems hold for all values. |
| `WgKeys` | Do cache, disk, keychain and server agree? | 3 keys: one current, one being registered, one old. Symmetric. |
| `LinuxOs` | Does Ok mean in force? Does the kill switch survive crashes? Is `OsCalls` implemented? | 2 configurations: new and stale. 3 sockets: one that owns the table, one stored under its name, one new. Symmetric. `Bounded`: while the process runs, only its own socket has unread answers. The theorems hold without it. |
| `Netfilter` | Does only documented traffic pass, both ways? Are exempt flows left alone? | all interfaces, marks and settings; flows of every owner, destination and protocol that a rule names. The theorems hold for all flows. |
| `RouteEnforcer` | Is no change missed, and is the routing repaired for good? | 2 families, a resolver in one: all four dumps differ |
| `LivenessChecker` | No false death, bounded detection, correct maximum? | periods 2 and 4, loss period 2 to 3, 3 losses (1 after sleep), window 2: the order relations of the real constants |
| `RelayRace` | Fastest, in time, all others stopped? | 4 attempts on 3 relays, 2 round trip times, deadline 12, cap 10, 2 relays are enough: each way the loop can end is reached |
| `Connect` | Do exits take turns? Is "no exit" true? Does every attempt end? | 7 exits, limits 1, 2, 3: a datacenter, a city and a country each have one exit more than allowed. 2 versions of the list, 2 selectors, 2 sends of the first message |
| `TcpTlsTransport` | Nothing lost, repeated, reordered, misread or left behind? | 3 messages, 3 packets, a queue of 2: one packet finds it full |
| `ApiClient` | Does one login run through account, client, token and status? Do lists only get newer? | 3 accounts: the one logged in, one of an overtaken request, and one that must not appear. 2 requests at a time, 1 list with 2 versions: the lists share no state but the client. Symmetric. `Bounded`: lists are updated as long as only two accounts are in play. The theorems hold for all values. |
| `StatusWatch` | Does a version name one status? Is what is true shown in the end? | 2 phases of the tunnel, since statuses are only compared; 4 versions: one more than there are copies |
| `SealedService` | Does the target hold through crashes, restarts, lost answers? Is a revoked OS left alone? Do sealed keys return? Do commands end? | both platforms, 1 retry, 2 boot states. The three safety properties are proved for all values. |

The properties are:

* `TunnelState`: `ConnectedIsSound` (a published tunnel is the one that was
  opened, under the settings that are routed), `AttemptIsCaptured` (relays are
  contacted only under capture), `ImplementsPromise`, `StatsAreMonotone`,
  `Converges`, `DeadTunnelIsDropped`.
* `WgKeys`: `SecretMatchesPublic`, `ServerAgrees` (every key at the server is
  current or queued for removal, and what counts as registered is),
  `OldKeysAreRevoked`.
* `LinuxOs`: `OkMeansInForce` (no earlier failure and no stale answer stands
  behind an Ok), `KillSwitchHeld` (the rules go with a deliberate unset or stop,
  or with the exit or the start of a process next to which a message between the
  service and the fd store failed), `ImplementsCalls`.
* `Netfilter`: `EgressIsDocumented`, `IngressIsSolicited`,
  `TunnelIsNotImpersonated`, `ExemptFlowsPass`, each a section of
  `src/docs/traffic-enforcement.md` stated over packets.
* `RouteEnforcer`: `AsleepMeansRouted`, `Converges`.
* `LivenessChecker`: `NoFalseDeath`, `DeathIsNoticed`, `SlowestIsMaximum` (the
  monotone queue gives the maximum of the pongs to the last pings, of as many
  as the comment says or of one more, as the code has it; the faulty variant
  counts pongs instead of pings).
* `RelayRace`: `BestIsFastest`, `SelectionIsPrompt`, `OneIsHeld`,
  `EveryHandshakeEnds` (after a stop, also if it was completed at the abort of its
  task; without one only when the attempt is cancelled).
* `Connect`: `ExitsTakeTurns`, `NoExitIsJustified`, `EveryAttemptEnds`.
* `TcpTlsTransport`: `NothingIsMisread`, `WrittenInOrder`,
  `EverythingIsWritten`.
* `ApiClient`: `LoginIsConsistent` (client, token and status are of the account,
  or of one that a request carried when that account logged in),
  `UpdatesAreExclusive`, `ListsMoveForward`.
* `StatusWatch`: `VersionsIdentify`, `ShownInTheEnd`.
* `SealedService`: `TargetHolds`, `RevokedIsKept`, `EveryCommandEnds` of
  `Service`, and `SealedKeysReturn`.

### Fairness

* `TunnelState`: weak fairness where the executor only has to poll; strong
  fairness for `TunnelFails`, since `select!` polls its branches in random order,
  and for the OS calls and `ConnectSucceeds`, an assumption on the environment:
  what is retried for ever succeeds some time. A `connect` that is cancelled again and
  again by target changes owes nothing.
* `RouteEnforcer`: weak fairness of the two tasks. `Converges` assumes that
  disturbances end, not that they are rare.
* `RelayRace`: weak fairness of the loop, of aborts and stops (operations have a
  timeout, idle connections too), and of time.
* `Connect`: weak fairness of the attempt and of each update: requests and
  handshakes have timeouts. Which outcome they have is left open.
* `TcpTlsTransport`: weak fairness of the writing task, that is, a relay that
  keeps reading; failed writes end the task and are excused.
* `StatusWatch`: weak fairness of the poller, the propagation and the views.
  Users, systemd and the tunnel owe nothing.
* `SealedService`: weak fairness of the start (including the key store: the TPM
  answers or fails), of the shutdown, which has a timeout, and of the command's
  steps. A call of the tunnel loop to the OS may hang for ever.

`LivenessChecker` and `RelayRace` are urgent: what is due is done before time
passes. Delays of the scheduler are not modelled. Round trip times of the
liveness run do not exceed the shortest loss period; beyond it probes count as
lost by design. `LinuxOs`, `WgKeys`, `Netfilter` and `ApiClient` have safety
properties only.

## 4. Proofs

The theorems hold for every value of the constants under the named assumptions
of the modules, which TLC evaluates in the runs.

| Module | Proved | Argument |
|---|---|---|
| `TunnelState_proofs` | `TypeOK`, `ConnectedIsSound`, `AttemptIsCaptured`, `SameTunnelWhileConnected`, `ReleaseOnlyWhenDisconnected`, `StatsAreMonotone`, `ImplementsPromise`; that the loop sleeps only at its target | `IInv` adds `PhaseMatchesAwait`: which tunnel is published and which connection is held at every await. Without it a suspended loop could resume with a snapshot that does not fit what is published. The refinement is one step lemma over the actions, with the invariant on both sides. `RestsAtTarget`, the safety half of `Converges`: whatever failed before, a loop asleep with an unchanged target has reached it, or has no interface. |
| `WgKeys_proofs` | `TypeOK`, `SecretMatchesPublic`, `ServerAgrees`, `OldKeysAreRevoked` | `IInv` adds that keys are fresh when they are generated (`AllGenerated`), that the disk is the persisted memory unless dirty, and what a request under way knows (`RequestMatchesCache`). One lemma per operator of `WgKeyCache`, one per group of actions. |
| `LinuxHost_proofs` (`LinuxOs`, `StatusWatch`) | `TypeOK`, `OkMeansInForce`, `KillSwitchHeld`, `ImplementsCalls`; `VersionsIdentify` | `LinuxOs`: the invariant says, for every step of a call, which parts are in force if nothing failed so far; that an answer to the last message behind acknowledgements only means that the batch was accepted (`AnswersTell`, which needs the emptied socket); and that the table has an owner that somebody holds, the one stored socket as long as nothing lapsed (`OwnerShape`). `StatusWatch`: `KnownIsShown`: the version the poller names is that of the front end's copy, so that no version outlives its copies and a new UUID differs from all of them; a step keeps copies, adds an empty one, or adds one with a new version |
| `TrafficEnforcement_proofs` (`RouteEnforcer`, `Netfilter`) | `AsleepMeansRouted`, what an undisturbed pass leaves in place; `EgressIsDocumented`, `IngressIsSolicited`, `TunnelIsNotImpersonated`, `ExemptFlowsPass` | `RouteEnforcer`: while the queue is empty and nothing is reported, every table dumped so far matches the policy unless a difference was found. Discarding reports before reading, not after, is what makes it inductive. `UndisturbedPass`, the safety half of `Converges`: for each family, what `apply_routing` has asked for so far is in the tables and the rest is still ahead, resolver rules being flushed before they are added (`Underway`); with no request left the routing is as desired, and from then on no look finds a difference (`Settled`). `Netfilter`: the verdict of a concatenation is that of its first part with the verdict of the rest as its policy (`ChainedVerdict`); from it, once for all settings, what each chain accepts (`IngressVerdict`, `InputVerdict`, `KillSwitchVerdict`). `ExemptionIsMarked`: conntrack still has the mark of an exempt flow, except on the loopback device, whose packets the input chain does not save |
| `Connecting_proofs` (`RelayRace`, `Connect`) | `TypeOK`, `BestIsFastest`, `OneIsHeld`, `SelectionIsPrompt`; `ExitsTakeTurns`, `NoExitIsJustified` | `RelayRace`: the deadline is a function of `bestAt`; held and stopping handshakes were taken; what is dropped was dropped by a cancellation (`DroppedByCancel`). `Connect`: `SelectionIsCounted` ties the counts of `ExitSelectionState` to the exits that were tried, and an attempt that found no exit has cleared them |
| `QuicWgConn_proofs` (`TcpTlsTransport`, `LivenessChecker`) | `TypeOK`, `WrittenInOrder`, `NothingIsMisread`; `NoFalseDeath`, `DeathIsNoticed`, `SlowestIsMaximum` and the types of the checker | `TcpTlsTransport`: what the task holds at each place (`InProgress`), and lemmas on concatenation and on the filter `OpsOf` that move an element from one queue to the next. `LivenessChecker`: no more probes in a row are lost than are allowed, and of a network that works the others are answered in time (`LossesAreAllowed`); a poll comes no later than the next ping is due, and than the loss that is one too many (`PollIsDue`); how long the silence had lasted when each outstanding probe was sent (`SilenceIsShort`); every pong of the window has one in the list that is as slow and not older, and the window has one ping more than `Window` (`WindowIsCovered`) |
| `ApiClient_proofs` | `TypeOK`, `LoginIsConsistent`, `UpdatesAreExclusive`, `ListsMoveForward` | `RequestIsOwn`: at every phase a request works for the account of now or for one that was carried over the last login, since a login notes what every request carries; `UpdateInv`: while an update runs its list can only be reset, and the answer is not older than the list it started from, which is where the lock is needed |
| `SealedService_proofs` | `Spec` of `Service` from that of the composition, `TypeOK`, `TargetHolds`, `RevertIsAlone`, `RevokedIsKept`, `SealedKeysReturn` | `RestartIsTold`: what the next start will make of the saved target is the target that was set last, in every state without a process; `LockFitsShutdown` ties the lock to the phase of the shutdown; `KeyInv`: a store seals with a key of this boot state, and a secret without trouble is sealed by a key that unseals it |

Every invariant and every action property of the runs is proved. Two components
share a module where the properties of each have to be in its scope by name; no
proof about one uses the other.

The assumptions are about constants only. The periods of `LivenessChecker` are
in the order of the constants of `liveness.rs` (1 and 55 seconds for pings, 1 to
30 for losses), and the network for which no false death is promised answers
within the shortest loss period (`RoundTripsAssumption`). `VersionsAssumption`
of `StatusWatch` says that UUIDs do not run out: there is one besides any three,
which is as many as are ever in use. A policy of `RouteEnforcer` names finitely
many resolvers, of any set of them. `Flows` of `Netfilter` is any set of flows.

Where a proof needs induction over numbers (the monotone queue, the filtered
history of the transport, the smallest rule that matches, what `FlattenSeq` makes
of the requests of each family), it takes the smallest
counterexample of a set of numbers, since the induction theorems of the library
take an operator, which the provers cannot instantiate (`LeastNumber`,
`MinIsSmallest`).

Only model-checked: all liveness (`Converges` of both modules,
`DeadTunnelIsDropped`, `EveryHandshakeEnds`, `EverythingIsWritten`,
`EveryAttemptEnds`, `ShownInTheEnd`, `EveryCommandEnds`), since fairness and
ENABLED are out of the prover's reach. Of `Converges` this leaves that the tunnel loop comes to rest and that a pass of
the route enforcer ends; what has been reached by then is proved.

## 5. What is not modelled

* QUIC, TLS, boringtun, netlink, D-Bus, TPM and keychain are external: they
  answer or fail. The kernel is assumed to report every change of rules and
  routes; an overrun of the netlink buffer reaches the code as one more message.
  A netlink batch is processed and answered by the time its send returns. While
  stale replies are discarded, `recv` fails only because there are none
  (`linux/netfilter.rs:422`). A socket that cannot be created or bound fails the
  start (`Exit`).
* How the preferred interface is found, the content of addresses and DNS
  queries, wording and logging, the fields of the configuration that nothing
  else depends on.
* Fragmentation, the WireGuard timer tick, padding: data of one packet.
* When the registration task runs (`manager.rs:311`); `WgKeys` lets it run at
  any time.
* The OS calls of Windows, Android and Apple: a few calls into the platform with
  no state of their own. `OsCalls` is what the loop assumes of them.
* Menus and windows of front ends, the loop of the command line that waits for a
  target, debug bundles, the web page, mobile applications, packaging.
* Delays, backoff and clocks, except where a bound is a property
  (`LivenessChecker`, `RelayRace`).

A suspended device is the `WakeUp` of `LivenessChecker`; the wrap around of 32-bit
probe ids, which takes more than a century at the busy period, is left out.

## 6. Observations

What the models brought to light and is worth knowing, although no run fails:
where the code disagrees with a comment the models follow the code.

* `set_connect_error` is called on a connected tunnel when a settings change
  re-configures the OS and fails (`tunnel_state.rs:323`); the comment at `:134`
  calls that impossible.
* With a connected target and no preferred interface the tunnel counts as
  disconnected and traffic is not enforced (`tunnel_state.rs:365`), contrary to
  `src/docs/traffic-enforcement.md:8`.
* `set_os_network_config` returns before any step when no DNS manager is found
  (`linux/mod.rs:111`), contrary to its comment at `:93`. The manager is detected
  in each call (`:138`): an unset may reach another one than the set did.
* If the message that removes the old socket fails, or the passed sockets are
  not received, the old socket may stay open, and its table with it: the kernel
  then refuses every batch of the new socket, and every call fails, until the
  process ends or, if the store still has the old one, the service is stopped (`linux/netfilter.rs:310`,
  `linux/fd_store.rs:54`). If instead the new socket is not stored, or next to
  an old one, the kill switch goes with the next exit or start.
* The list of slow pongs keeps one ping more than the window its comment states
  (`liveness.rs:216`, `:223`). `SlowestIsMaximum` does not decide which is
  meant.
* The restart marker is created before the OS is set up: if the first start
  after a boot fails, the next one counts as a restart and resumes the tunnel;
  the recovery actions of Windows do the same. A Windows start whose reason
  cannot be queried counts as a boot (`misread` in `Service`).
* A StartTunnel that waits for its next attempt goes through although the user
  pressed Stop meanwhile. Quit and Disconnect quits although the disconnect
  failed or timed out, and the service may execute it later.
* A request that a login overtakes leaves the token, the client or the status of
  the former account behind (`client_state.rs:636`), until the next login;
  `LoginIsConsistent` bounds what is left.
* `os_trait.rs:13` says that OS calls are not concurrent; after revoking timed
  out, the service's own unset runs next to the call that hangs.
* A TPM that fails for a moment makes Windows delete and recreate its sealing
  key, so that the sealed secret is lost; Linux falls back to plain text for
  keys generated by that process.
* Leaving the group of the service does not end a connection that was accepted.
  Without systemd on the bus, an unreachable service with stale sockets is shown
  as a lack of permission to users without the group (`src/rustlib/src/linux/status_watch.rs:163`).
* `disconnect_reason` stays stored over a disconnect (`tunnel_state.rs:204`): the
  next connect publishes the failure of a tunnel of the earlier session. Every
  repair of the routes deletes the resolver rules
  before it adds them again (`traffic_capture_routes.rs:172`).

## 7. What could follow

1. When the registration task runs, with the versions of `StatusWatch`, over
   `WgKeys`: a key is registered while the device is disconnected and active.
2. How the preferred interface is found (`preferred_interface.rs`), including
   routes without a metric.
3. The resends and timers of boringtun around `QuicWgConn::receive`.
