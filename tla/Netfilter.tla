----------------------------- MODULE Netfilter -----------------------------
(***************************************************************************)
(* The nftables rules of the Linux service                                 *)
(* (rustlib/src/bin/obscura/service/os/linux/netfilter.rs), and what they  *)
(* do to the packets of one flow while the user connects, disconnects and  *)
(* changes settings.                                                       *)
(*                                                                         *)
(* A rule is a pair of a condition on the packet and a verdict; the first  *)
(* rule of a chain whose condition holds decides.  No rule looks at two    *)
(* flows, so one arbitrary flow stands for all.  The kernel's connection   *)
(* tracking is modelled as far as the rules use it.  Routing is not: a     *)
(* packet may leave on any interface and arrive on any interface.          *)
(*                                                                         *)
(* Addresses are classes.  The tunnel's address and its resolver are       *)
(* private addresses, so they lie inside the local network ranges.         *)
(***************************************************************************)
EXTENDS Naturals, Sequences, FiniteSetsExt

CONSTANT Flows

Devices == {"lo", "tun", "wan", "wg", "tailscale0", "bridge"}

Addresses ==
  {"self", "tunnel", "resolver", "lan", "linklocal", "group", "dhcp", "internet"}

Discovery ==
  {"router-solicit", "router-advert", "neighbor-solicit", "neighbor-advert",
   "redirect"}

\* local says whose flow it is: the host's, from its tunnel address or from
\* another address, or that of a device behind it (a container).
FlowType ==
  [local: {"tunnel", "host", "inside"}, remote: Addresses \ {"tunnel"},
   fam: {4, 6}, l4: {"data", "dns", "dhcp"} \cup Discovery]

ASSUME FlowsAreFlows == Flows \subseteq FlowType

VARIABLES
  ruleset, \* the table in the kernel, and the TrafficPolicy it was built from
  flow,    \* the flow that is observed
  ct,      \* its conntrack entry: which side opened it, and its mark
  exempt,  \* the packet that opened the flow carried FWMARK under enforcement
  last     \* the last packet, and what became of it

filterVars == <<ruleset, flow, ct, exempt, last>>

Rulesets ==
  [table: {"engaged"}, local_network_access: BOOLEAN, tailscale_bypass: BOOLEAN,
   wireguard_bypass: BOOLEAN, use_system_dns: BOOLEAN]

Table(state) ==
  [table |-> state, local_network_access |-> FALSE, tailscale_bypass |-> FALSE,
   wireguard_bypass |-> FALSE, use_system_dns |-> FALSE]

Sides == {"out", "in"}

Marks == {"none", "fwmark", "tailscale"}

NoEntry == [opener |-> "none", mark |-> "none"]

NoPacket ==
  [way |-> "out", iif |-> "none", oif |-> "none", mark |-> "none",
   direction |-> "none", related |-> FALSE, fam |-> 4, l4 |-> "data",
   src |-> "self", dst |-> "self"]

Nothing == [packet |-> NoPacket, verdict |-> "none"]

FilterInit ==
  /\ ruleset = Table("absent")
  /\ flow \in Flows
  /\ ct = NoEntry
  /\ exempt = FALSE
  /\ last = Nothing

-----------------------------------------------------------------------------
(* Rules                                                                   *)

\* Operators whose name begins with "Bad" are faulty variants of the operator
\* that follows them; only the sensitivity checks of PROJECT.json use them.

Rule(condition, verdict) == <<condition, verdict>>

\* The verdict of the first rule that matches, or the policy of the chain.
Verdict(rules, otherwise) ==
  LET hits == {i \in DOMAIN rules : rules[i][1]}
  IN  IF hits = {} THEN otherwise ELSE rules[Min(hits)][2]

\* Rules that are rendered only with a setting.
Rendered(setting, rules) == IF setting THEN rules ELSE <<>>

Kind(device) == IF device = "wg" THEN "wireguard" ELSE "other"

\* LAN_V4 and LAN_V6.
LanRanges == {"tunnel", "resolver", "lan", "linklocal", "group", "dhcp"}

\* Multicast and broadcast addresses are not sources.
LanSources == LanRanges \ {"group", "dhcp"}

DhcpRule(p, l4, dst4, src6, dst6) ==
  Rule(/\ p.l4 = l4
       /\ IF p.fam = 4 THEN p.dst \in dst4 ELSE p.src \in src6 /\ p.dst \in dst6,
       "accept")

NdRule(p, types, sources) ==
  Rule(p.fam = 6 /\ p.l4 \in types /\ p.src \in sources, "accept")

\* Answers are accepted wherever they arrive.
BadTunnelIngressChain(p) ==
  << Rule(p.iif = "lo", "accept"),
     Rule(p.direction = "reply", "accept"),
     Rule(p.iif = "tun", "drop"),
     Rule(p.dst = "tunnel", "drop") >>

TunnelIngressChain(p) ==
  << Rule(p.iif = "lo", "accept"),
     Rule(p.iif = "tun" /\ p.direction = "reply", "accept"),
     Rule(p.iif = "tun", "drop"),
     Rule(p.dst = "tunnel", "drop") >>

ArpInputChain(target) == << Rule(target = "tunnel", "drop") >>

InputChain(p) ==
  << Rule(p.iif = "lo", "accept"),
     Rule(p.mark = "fwmark", "accept"),
     Rule(p.direction = "reply", "accept"),
     DhcpRule(p, "dhcp-response", Addresses, {"linklocal"}, Addresses),
     NdRule(p, {"router-advert", "redirect"}, {"linklocal"}),
     NdRule(p, {"neighbor-solicit", "neighbor-advert"}, Addresses) >>
  \o Rendered(ruleset.wireguard_bypass,
       << Rule(Kind(p.iif) = "wireguard", "accept") >>)
  \o Rendered(ruleset.tailscale_bypass,
       << Rule(p.iif = "tailscale0", "accept") >>)
  \o Rendered(ruleset.local_network_access,
       << Rule(p.src \in LanSources, "accept") >>)

LanRule(p) == Rule(p.dst \in LanRanges, "accept")

LocalError(p) == p.iif = "none" /\ p.l4 = "icmp" /\ p.related

\* The resolver's own rule is missing: it lies in the local network's ranges.
BadKillSwitchChain(p) ==
  << Rule(p.oif = "lo", "accept"),
     Rule(p.mark = "fwmark", "accept"),
     Rule(p.oif = "tun", "accept"),
     Rule(p.iif = "tun" /\ p.direction = "reply", "accept"),
     Rule(LocalError(p), "accept") >>
  \o Rendered(ruleset.local_network_access, << LanRule(p) >>)

KillSwitchChain(p) ==
  << Rule(p.oif = "lo", "accept"),
     Rule(p.mark = "fwmark", "accept"),
     Rule(p.oif = "tun", "accept"),
     Rule(p.iif = "tun" /\ p.direction = "reply", "accept"),
     Rule(LocalError(p), "accept") >>
  \o Rendered(~ruleset.use_system_dns, << Rule(p.dst = "resolver", "drop") >>)
  \o Rendered(ruleset.wireguard_bypass,
       << Rule(Kind(p.oif) = "wireguard", "accept") >>)
  \o Rendered(ruleset.tailscale_bypass,
       << Rule(p.oif = "tailscale0", "accept"),
          Rule(p.mark = "tailscale", "accept") >>)
  \o << DhcpRule(p, "dhcp-request", {"dhcp"}, Addresses, {"dhcp"}),
        NdRule(p, {"router-solicit", "neighbor-solicit", "neighbor-advert"},
               Addresses) >>
  \o Rendered(~ruleset.use_system_dns, << Rule(p.l4 = "dns", "drop") >>)
  \o Rendered(ruleset.local_network_access, << LanRule(p) >>)

-----------------------------------------------------------------------------
(* Packets of the flow                                                     *)

Engaged == ruleset.table = "engaged"

Present == ruleset.table # "absent"

\* "dns" is the destination port, so answers do not have it; a DHCP client's
\* flow has requests one way and responses the other.
L4(way, error) ==
  CASE error                               -> "icmp"
    [] ~error /\ flow.l4 = "dhcp"          -> IF way = "out" THEN "dhcp-request"
                                              ELSE "dhcp-response"
    [] ~error /\ flow.l4 = "dns"           -> IF way = "out" THEN "dns" ELSE "data"
    [] ~error /\ flow.l4 \notin {"dhcp", "dns"} -> flow.l4

LocalAddress == IF flow.local = "tunnel" THEN "tunnel" ELSE "lan"

\* The kernel does not track neighbor discovery.
Tracked == flow.l4 \notin Discovery

Direction(way) ==
  IF ~Tracked THEN "none"
  ELSE IF ct.opener \in {"none", way} THEN "original" ELSE "reply"

Packet(way, error, iif, oif, mark) ==
  [way |-> way, iif |-> iif, oif |-> oif, mark |-> mark,
   direction |-> Direction(way), related |-> error, fam |-> flow.fam,
   l4 |-> L4(way, error),
   src |-> IF way = "out" THEN LocalAddress ELSE flow.remote,
   dst |-> IF way = "out" THEN flow.remote ELSE LocalAddress]

\* An ICMP error is about a flow that conntrack knows.
ErrorIsAboutFlow(error) == error => ct.opener # "none"

\* The flow's mark is not put back.
BadMarkRestored(p) == p

\* mark-restore and mark-restore-output
MarkRestored(p) ==
  IF Present /\ ct.mark = "fwmark" THEN [p EXCEPT !.mark = "fwmark"] ELSE p

\* An accepted packet creates the flow's entry; a dropped one does not.
Track(p, accepted, saved) ==
  /\ ct' = IF accepted /\ Tracked
           THEN [opener |-> IF ct.opener = "none" THEN p.way ELSE ct.opener,
                 mark   |-> IF saved /\ p.mark = "fwmark" THEN "fwmark" ELSE ct.mark]
           ELSE ct
  /\ exempt' = IF accepted /\ Tracked /\ ct.opener = "none"
               THEN Engaged /\ p.mark = "fwmark" ELSE exempt
  /\ last' = [packet |-> p, verdict |-> IF accepted THEN "accept" ELSE "drop"]
  /\ UNCHANGED <<ruleset, flow>>

\* The chain is hooked where only packets for this host pass.
BadAdmittedAtIngress(p) ==
  Engaged /\ p.oif = "host" => Verdict(TunnelIngressChain(p), "accept") = "accept"

AdmittedAtIngress(p) ==
  Engaged => Verdict(TunnelIngressChain(p), "accept") = "accept"

\* Postrouting: mark-save, then the kill switch.
Emitted(p) == Engaged => Verdict(KillSwitchChain(p), "drop") = "accept"

Admitted(p) == Engaged => Verdict(InputChain(p), "drop") = "accept"

\* Traffic to an address of the host itself uses the loopback device.
Plausible(device) == (device = "lo") = (flow.remote = "self")

\* The host sends a packet of its own flow, or an ICMP error about any flow.
Send(way, error, oif, mark) ==
  /\ error \/ (flow.local # "inside" /\ way = "out")
  /\ ErrorIsAboutFlow(error)
  /\ Plausible(oif)
  /\ LET p == MarkRestored(Packet(way, error, "none", oif, mark))
     IN  Track(p, Emitted(p), Present)

\* A packet arrives for the host.  Only the input chain saves its mark.
Receive(error, iif, mark) ==
  /\ flow.local # "inside"
  /\ ErrorIsAboutFlow(error)
  /\ Plausible(iif)
  /\ LET arrived == Packet("in", error, iif, "host", mark)
         p == MarkRestored(arrived)
     IN  Track(p, AdmittedAtIngress(arrived) /\ Admitted(p),
               Engaged /\ iif # "lo")

\* A packet of another device passes through.
Forward(way, error, iif, oif, mark) ==
  /\ flow.local = "inside"
  /\ ErrorIsAboutFlow(error)
  /\ way = "out" => iif = "bridge" /\ oif # "bridge"
  /\ way = "in" => oif = "bridge"
  /\ LET arrived == Packet(way, error, iif, oif, mark)
         p == MarkRestored(arrived)
     IN  Track(p, AdmittedAtIngress(arrived) /\ Emitted(p), Present)

\* Someone on the local network asks who has an address of this host.
ArpRequest(target) ==
  /\ last' = [packet |-> [NoPacket EXCEPT !.l4 = "arp", !.iif = "wan", !.dst = target],
              verdict |-> IF Engaged THEN Verdict(ArpInputChain(target), "accept")
                                     ELSE "accept"]
  /\ UNCHANGED <<ruleset, flow, ct, exempt>>

\* Conntrack forgets the flow.
Expire ==
  /\ ct # NoEntry
  /\ ct' = NoEntry
  /\ exempt' = FALSE
  /\ last' = Nothing
  /\ UNCHANGED <<ruleset, flow>>

\* apply_ruleset replaces all chains at once and leaves conntrack alone.
ApplyRuleset ==
  /\ ruleset' \in Rulesets \cup {Table("disengaged")}
  /\ last' = Nothing
  /\ UNCHANGED <<flow, ct, exempt>>

\* The socket that owns the table is closed.
TableDestroyed ==
  /\ Present
  /\ ruleset' = Table("absent")
  /\ last' = Nothing
  /\ UNCHANGED <<flow, ct, exempt>>

FilterNext ==
  \/ \E error \in BOOLEAN, mark \in Marks, device \in Devices :
       \/ Receive(error, device, mark)
       \/ \E way \in Sides :
            \/ Send(way, error, device, mark)
            \/ \E iif \in Devices \ {"lo"} : Forward(way, error, iif, device, mark)
  \/ \E target \in {"tunnel", "lan"} : ArpRequest(target)
  \/ Expire \/ ApplyRuleset \/ TableDestroyed

FilterSpec == FilterInit /\ [][FilterNext]_filterVars

-----------------------------------------------------------------------------
(* Properties: docs/traffic-enforcement.md                                 *)

Passed(p) == Engaged /\ last.packet = p /\ last.verdict = "accept"

\* The exceptions of the documentation's table that name a destination; none
\* covers a resolver, the tunnel's own or a local one, unless the system's DNS
\* is used.
DestinationExcepted(p) ==
  /\ p.dst = "resolver" => ruleset.use_system_dns
  /\ \/ p.oif = "wg" /\ ruleset.wireguard_bypass
     \/ p.oif = "tailscale0" /\ ruleset.tailscale_bypass
     \/ p.mark = "tailscale" /\ ruleset.tailscale_bypass
     \/ p.l4 = "dhcp-request" /\ p.dst = "dhcp"
     \/ p.l4 \in Discovery \ {"router-advert", "redirect"}
     \/ /\ p.dst \in LanRanges /\ ruleset.local_network_access
        /\ p.l4 = "dns" => ruleset.use_system_dns

\* Traffic leaves the machine only through the tunnel, whatever routes send it
\* elsewhere, except for what the documentation lists: also packets of flows
\* that began before enforcement did, or under other settings.
EgressIsDocumented ==
  \A p \in {last.packet} : Passed(p) /\ p.oif \in Devices \ {"lo", "tun"} =>
    \/ p.mark = "fwmark"
    \/ p.iif = "tun" /\ flow.local = "inside" /\ ct.opener = "out"
    \/ LocalError(p) /\ ct.opener # "none"
    \/ DestinationExcepted(p)

\* What reaches the host is an answer, exempt, link maintenance, or comes from
\* a network the settings trust now, not when the flow was opened.
HostIsSolicited(p) ==
  Passed(p) /\ p.oif = "host" /\ p.iif # "lo" =>
    \/ p.mark = "fwmark"
    \/ ct.opener = "out"
    \/ p.l4 \in {"dhcp-response"} \cup (Discovery \ {"router-solicit"})
    \/ p.iif = "wg" /\ ruleset.wireguard_bypass
    \/ p.iif = "tailscale0" /\ ruleset.tailscale_bypass
    \/ p.src \in LanSources /\ ruleset.local_network_access

\* The exit cannot initiate flows: no packet that comes out of the tunnel
\* passes unless this side opened the flow, even if the exit opened it while
\* nothing was enforced.
ExitOpensNothing(p) == Passed(p) /\ p.iif = "tun" => ct.opener = "out"

\* Nothing that was not asked for gets in, from any side.
IngressIsSolicited ==
  HostIsSolicited(last.packet) /\ ExitOpensNothing(last.packet)

\* Tunnel flows cannot be impersonated: a packet for the tunnel address that
\* arrives elsewhere is dropped although conntrack takes it for an answer, and
\* the address cannot be discovered by asking for it.
TunnelIsNotImpersonated ==
  \A p \in {last.packet} : Passed(p) /\ p.dst = "tunnel" =>
    p.l4 # "arp" /\ p.iif \in {"none", "tun", "lo"}

\* "Flows whose first packet carries our FWMARK bypass tunnel routing and
\* enforcement": no later packet of either side is dropped, marked or not,
\* through restarts and changes of settings, unless the tunnel is abused.
ExemptFlowsPass ==
  \A p \in {last.packet} : exempt /\ last.verdict = "drop" =>
    p.l4 = "arp" \/ p.iif = "tun" \/ p.dst = "tunnel"
=============================================================================
