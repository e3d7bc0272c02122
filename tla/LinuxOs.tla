------------------------------ MODULE LinuxOs ------------------------------
(***************************************************************************)
(* The Linux service's hold on the operating system                        *)
(* (rustlib/src/bin/obscura/service/os/linux: mod.rs, netfilter.rs,        *)
(* fd_store.rs, tun.rs, dns).                                              *)
(*                                                                         *)
(* A configuration stands for addresses, DNS servers, bypass settings and  *)
(* the packet sender of one set_os_network_config call.  The calls run     *)
(* step by step; every step may fail, and the process may end between any  *)
(* two of them.  The nftables tables belong to the netlink socket that     *)
(* created them: they live as long as a process or systemd's fd store      *)
(* holds that socket, and the kernel lets no other socket change them.     *)
(***************************************************************************)
EXTENDS Naturals, Sequences

CONSTANTS
  Configs, None,
  Sockets        \* bound: the netlink sockets there may be at a time

ASSUME NoneIsNothing == None \notin Configs \cup Sockets
ASSUME ConfigsAreOpaque ==
  {"off", "absent", "missing", "partial"} \cap (Configs \cup {None}) = {}

VARIABLES
  running,     \* the service process is up
  dnsManaged,  \* DnsManagerArg is not Disabled
  call,        \* the call under way, or the last one that returned
  desired,     \* the TrafficPolicy sent to the route enforcer
  nft,         \* the ruleset in the kernel
  owner,       \* the socket the tables belong to
  replies,     \* what each socket has to read, oldest first
  socket,      \* NftTable.socket
  open,        \* the netlink sockets open in the process
  stored,      \* those in systemd's fd store
  lapse,       \* at the last start a message to or from the store failed
  dns,         \* the tun device's DNS settings in each DNS manager
  tun,         \* the addresses of the tun device
  reader       \* the configuration whose tunnel reads the tun device

tables == <<nft, owner, replies>>
sockets == <<socket, open, stored, lapse>>
vars == <<running, dnsManaged, call, desired, tables, sockets, dns, tun, reader>>

Policies == Configs \cup {"off"}

Managers == {"Resolved", "NetworkManager"}

Steps == {"choose", "dns", "nft", "acks", "tun"}

Call == [op: {"none", "set", "unset"}, cfg: Configs \cup {None},
         step: Steps \cup {"idle", "returned"}, ok: BOOLEAN,
         manager: Managers \cup {"Disabled"}]

\* NLMSG_ERROR: the number of the message it answers, and whether its code is 0
Reply == [seq: Nat, ok: BOOLEAN]

Idle == [op |-> "none", cfg |-> None, step |-> "idle", ok |-> TRUE,
         manager |-> "Disabled"]

NoDns == [m \in Managers |-> None]

\* A machine on which the service has not run since it booted.
Init ==
  /\ running = FALSE
  /\ dnsManaged \in BOOLEAN
  /\ call = Idle
  /\ desired = "off"
  /\ nft = "absent" /\ owner = None
  /\ replies = [s \in Sockets |-> << >>]
  /\ socket = None /\ open = {} /\ stored = {} /\ lapse = FALSE
  /\ dns = NoDns
  /\ tun = "missing"
  /\ reader = None

-----------------------------------------------------------------------------
(* set_os_network_config and unset_os_network_config                       *)

\* Operators whose name begins with "Bad" are faulty variants of the operator
\* that follows them; only the sensitivity checks of PROJECT.json use them.

Policy(op, c) == IF op = "set" THEN c ELSE "off"

\* The rules come first when engaging ...
AfterSet(step) ==
  CASE step = "choose"          -> "dns"
    [] step = "dns"             -> "nft"
    [] step \in {"nft", "acks"} -> "tun"
    [] OTHER                    -> "returned"

\* ... and the dummy configuration of the tun device when disengaging.
AfterUnset(step) ==
  CASE step = "choose" -> "dns"
    [] step = "dns"    -> "tun"
    [] step = "tun"    -> "nft"
    [] OTHER           -> "returned"

After(op, step) == IF op = "set" THEN AfterSet(step) ELSE AfterUnset(step)

\* result = result.and(..): an error stays, the remaining steps are attempted.
Advance(ok) == call' = [call EXCEPT !.step = After(call.op, @), !.ok = @ /\ ok]

\* What a sequence of requests that sets v to new may leave.
Outcome(v, new, ok) == IF ok THEN {new} ELSE {v, new, "partial"}

\* The new policy goes to the route enforcer at once.
Begin(op, c) ==
  /\ running
  /\ call.step \in {"idle", "returned"}
  /\ call' = [Idle EXCEPT !.op = op, !.cfg = c, !.step = "choose"]
  /\ desired' = Policy(op, c)
  /\ UNCHANGED <<running, dnsManaged, tables, sockets, dns, tun, reader>>

SetOsNetworkConfig == \E c \in Configs : Begin("set", c)

UnsetOsNetworkConfig == Begin("unset", None)

\* The managers that answer, NetworkManager with a version that keeps the
\* routes, resolved in stub mode.
Detected == SUBSET Managers

\* choose_dns_manager: an explicitly configured manager is one of the cases of
\* "auto", which prefers resolved.
Choices(detected) == IF dnsManaged THEN detected ELSE {"Disabled"}

\* The managers are looked for anew in each call.
ManagerChosen ==
  /\ call.step = "choose"
  /\ \E detected \in Detected : \E m \in Choices(detected) :
       call' = [call EXCEPT !.step = "dns", !.manager = m]
  /\ UNCHANGED <<running, dnsManaged, desired, tables, sockets, dns, tun, reader>>

\* The failure is ignored by the caller's result.
BadNoManager ==
  /\ call.step = "choose"
  /\ \E detected \in Detected : Choices(detected) = {}
  /\ call' = [call EXCEPT !.step = "returned"]
  /\ UNCHANGED <<running, dnsManaged, desired, tables, sockets, dns, tun, reader>>

\* choose_dns_manager(..).await? found none: the call returns at once.
NoManager ==
  /\ call.step = "choose"
  /\ \E detected \in Detected : Choices(detected) = {}
  /\ call' = [call EXCEPT !.step = "returned", !.ok = FALSE]
  /\ UNCHANGED <<running, dnsManaged, desired, tables, sockets, dns, tun, reader>>

SetDns(m, outcomes) == \E v \in outcomes : dns' = [dns EXCEPT ![m] = v]

\* The servers, the domain, DNS over TLS and the caches, one by one
ResolvedDns(ok) ==
  /\ SetDns("Resolved", Outcome(dns["Resolved"], call.cfg, ok))
  /\ UNCHANGED tun

\* Device.Reapply replaces the settings of the device at once, but those are
\* its addresses, too.
NetworkManagerDns(ok) ==
  /\ SetDns("NetworkManager",
            IF ok THEN {call.cfg} ELSE {dns["NetworkManager"], call.cfg})
  /\ tun' \in {tun, "partial"}

ConfigureDns ==
  /\ call.step = "dns"
  /\ \/ call.manager = "Disabled" /\ Advance(TRUE) /\ UNCHANGED <<dns, tun>>
     \/ /\ call.manager = "Resolved"
        /\ \E ok \in BOOLEAN : Advance(ok) /\ ResolvedDns(ok)
     \/ /\ call.manager = "NetworkManager"
        /\ \E ok \in BOOLEAN : Advance(ok) /\ NetworkManagerDns(ok)
  /\ UNCHANGED <<running, dnsManaged, desired, tables, sockets, reader>>

\* apply_ruleset: one batch destroys the old tables and creates the new ones,
\* whose rules make it longer for a kill switch.  Its messages are numbered from
\* 1, and the last is outstanding until the kernel has acknowledged it.
LastSeq(p) == IF p = "off" THEN 1 ELSE 2

\* What the kernel answers to a batch whose messages it has all accepted, and
\* to one that fails: some of the answers are errors, but not all need be.
Answers(p, accepted) ==
  {[k \in 1..LastSeq(p) |-> [seq |-> k, ok |-> good[k]]] :
     good \in {g \in [1..LastSeq(p) -> BOOLEAN] :
                accepted = \A k \in 1..LastSeq(p) : g[k]}}

\* What was not read of earlier answers stays in the socket.
BadDiscardStaleReplies == replies[socket]

\* discard_stale_replies: the socket is read until it is empty.
DiscardStaleReplies == << >>

\* The kernel takes a batch as a whole, and only from the owner of the tables.
BatchAccepted(p) ==
  /\ owner \in {None, socket}
  /\ nft' = p /\ owner' = socket

BatchRejected == UNCHANGED <<nft, owner>>

\* The kernel has processed the batch, and answered it, when it is sent.
SendBatch(p) ==
  \E accepted \in BOOLEAN : \E r \in Answers(p, accepted) :
    /\ IF accepted THEN BatchAccepted(p) ELSE BatchRejected
    /\ replies' = [replies EXCEPT ![socket] = DiscardStaleReplies \o r]
    /\ call' = [call EXCEPT !.step = "acks"]

SendFails ==
  /\ Advance(FALSE)
  /\ replies' = [replies EXCEPT ![socket] = DiscardStaleReplies]
  /\ UNCHANGED <<nft, owner>>

ConfigureNft ==
  /\ call.step = "nft"
  /\ SendBatch(Policy(call.op, call.cfg)) \/ SendFails
  /\ UNCHANGED <<running, dnsManaged, desired, sockets, dns, tun, reader>>

\* check_acks returns at an error, whatever it answers, and at the answer to the
\* last message of the batch.
Decides(reply, last) == ~reply.ok \/ reply.seq = last

\* What follows the answer that decides stays in the socket.
ReadAck ==
  LET r == replies[socket]
      last == LastSeq(Policy(call.op, call.cfg))
  IN  \E k \in DOMAIN r :
        /\ Decides(r[k], last) /\ \A j \in 1..(k - 1) : ~Decides(r[j], last)
        /\ Advance(r[k].ok)
        /\ replies' = [replies EXCEPT ![socket] = SubSeq(r, k + 1, Len(r))]

\* Not all answers fit into the socket: recv reports it and reads none.
RecvFails == Advance(FALSE) /\ UNCHANGED replies

CheckAcks ==
  /\ call.step = "acks"
  /\ ReadAck \/ RecvFails
  /\ UNCHANGED <<running, dnsManaged, desired, nft, owner, sockets, dns, tun, reader>>

\* After set_config of a connecting call, spawn_read_task replaces the reader,
\* whatever failed before.
ConfigureTun ==
  /\ call.step = "tun"
  /\ \E ok \in BOOLEAN : Advance(ok) /\ tun' \in Outcome(tun, call.cfg, ok)
  /\ reader' = IF call.op = "set" THEN call.cfg ELSE reader
  /\ UNCHANGED <<running, dnsManaged, desired, tables, sockets, dns>>

-----------------------------------------------------------------------------
(* The life of the process                                                 *)

\* A socket that nobody holds is closed, and its tables and its replies go.
Held(holders) ==
  /\ nft' = IF owner \in holders THEN nft ELSE "absent"
  /\ owner' = IF owner \in holders THEN owner ELSE None
  /\ replies' = [s \in Sockets |-> IF s \in holders THEN replies[s] ELSE << >>]

\* FdStore::take_from_systemd: the sockets come with the process, and the store
\* keeps them, too; or receiving them fails.
Received == {stored, {}}

\* FdStore::take: a socket is handed out if it is the only one of its name.
HandedOut(received) == {s \in Sockets : received = {s}}

Adopt(s) ==
  /\ socket' = s /\ open' = {s}
  /\ lapse' = FALSE
  /\ UNCHANGED stored

\* FdStore::remove_old_and_store: two messages to systemd.  A failure of either
\* is logged.
RemoveOldAndStore(s, received) ==
  \E removed, taken \in BOOLEAN :
    /\ stored' = (IF removed THEN {} ELSE stored) \cup (IF taken THEN {s} ELSE {})
    /\ lapse' = ~(received = stored /\ removed /\ taken)

\* What systemd passed and take_from_systemd did not receive is nobody's: it
\* stays open in the process.
CreateSocket(received) ==
  \E s \in Sockets \ stored :
    /\ socket' = s
    /\ RemoveOldAndStore(s, received)
    /\ open' \in {{s}, {s} \cup (stored \ received)}

\* A socket is created although one is handed out.
BadAdoptTable ==
  /\ \E received \in Received : CreateSocket(received)
  /\ Held(open' \cup stored')

\* NftTable::create_or_adopt: a socket that is handed out keeps its tables.
AdoptTable ==
  /\ \E received \in Received :
       \/ \E s \in HandedOut(received) : Adopt(s)
       \/ HandedOut(received) = {} /\ CreateSocket(received)
  /\ Held(open' \cup stored')

\* Tun::create: a fresh device, enabled with the dummy configuration
CreateTun == tun' = None

\* LinuxOsImpl::new
Start ==
  /\ ~running
  /\ running' = TRUE
  /\ AdoptTable
  /\ dnsManaged' \in BOOLEAN
  /\ CreateTun
  /\ UNCHANGED <<call, desired, dns, reader>>

\* The tun device, link DNS and the read task end with the process.
Gone ==
  /\ running' = FALSE
  /\ call' = Idle
  /\ desired' = "off"
  /\ socket' = None /\ open' = {}
  /\ dns' = NoDns
  /\ tun' = "missing"
  /\ reader' = None

\* The process crashes, is killed for a restart, or fails to start after it
\* took the sockets.
Exit ==
  /\ running
  /\ Gone
  /\ Held(stored)
  /\ UNCHANGED <<dnsManaged, stored, lapse>>

\* The service is stopped for good; systemd closes what it stored.
Stop ==
  /\ running \/ stored # {}
  /\ Gone
  /\ stored' = {} /\ lapse' = FALSE
  /\ Held({})
  /\ UNCHANGED dnsManaged

Next ==
  \/ SetOsNetworkConfig \/ UnsetOsNetworkConfig
  \/ ManagerChosen \/ NoManager
  \/ ConfigureDns \/ ConfigureNft \/ CheckAcks \/ ConfigureTun
  \/ Start \/ Exit \/ Stop

Spec == Init /\ [][Next]_vars

-----------------------------------------------------------------------------
(* Properties                                                              *)

\* Every variable has its shape.
TypeOK ==
  /\ running \in BOOLEAN /\ dnsManaged \in BOOLEAN
  /\ call \in Call
  /\ desired \in Policies
  /\ nft \in Policies \cup {"absent"}
  /\ owner \in Sockets \cup {None} /\ socket \in Sockets \cup {None}
  /\ replies \in [Sockets -> Seq(Reply)]
  /\ open \subseteq Sockets /\ stored \subseteq Sockets
  /\ lapse \in BOOLEAN
  /\ dns \in [Managers -> Configs \cup {None, "partial"}]
  /\ tun \in Configs \cup {None, "missing", "partial"}
  /\ reader \in Configs \cup {None}

\* A call that returned Ok is in force in every part of the system, whatever
\* earlier calls that failed half way left behind: not even their answers, which
\* a socket keeps over a crash, confirm a batch that was rejected.
OkMeansInForce ==
  call.step = "returned" /\ call.ok =>
    /\ desired = Policy(call.op, call.cfg)
    /\ nft = Policy(call.op, call.cfg)
    /\ tun = call.cfg
    /\ dnsManaged => dns[call.manager] = call.cfg
    /\ call.op = "set" => reader = call.cfg

\* The kill switch, once in the kernel, is removed by a deliberate unset and by
\* stopping the service, not by failed calls, crashes and restarts; unless, at
\* this start or the last one, a message between the service and the fd store
\* failed, so that the process ends with the tables in no stored socket, or
\* starts and is handed none.
KillSwitchRemoved == nft \in Configs /\ nft' \notin Configs

Deliberate == call.op = "unset" /\ call.step = "nft"

Stopped == stored # {} /\ stored' = {} /\ ~running'

EndsUnstored == lapse /\ ~running' /\ owner \notin stored

StartsWithout == (lapse \/ lapse') /\ ~running /\ socket' \notin stored

KillSwitchHeld ==
  [][KillSwitchRemoved => Deliberate \/ Stopped \/ EndsUnstored \/ StartsWithout]_vars

\* The calls do what the tunnel relies on.
Calls == INSTANCE OsCalls
  WITH call <- [op |-> call.op, arg |-> call.cfg,
                outcome |-> CASE call.step = "idle"                  -> "idle"
                              [] call.step = "returned" /\ call.ok   -> "ok"
                              [] call.step = "returned" /\ ~call.ok  -> "failed"
                              [] OTHER                               -> "pending"],
       capture <- nft \in Configs,
       carrier <- reader

ImplementsCalls == Calls!Spec
=============================================================================
