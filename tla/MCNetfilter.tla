---------------------------- MODULE MCNetfilter ----------------------------
(***************************************************************************)
(* Flows for TLC: every kind of owner and destination, and every protocol  *)
(* that a rule names.                                                      *)
(***************************************************************************)
EXTENDS Netfilter

Flow(local, remote, fam, l4) ==
  [local |-> local, remote |-> remote, fam |-> fam, l4 |-> l4]

MCFlows ==
  {Flow(local, remote, 4, "data") :
     local \in {"tunnel", "host", "inside"}, remote \in {"lan", "internet"}}
  \cup {Flow("tunnel", remote, 6, "dns") : remote \in {"resolver", "lan"}}
  \cup {Flow("host", remote, 4, "dns") : remote \in {"resolver", "lan"}}
  \cup {Flow("host", "dhcp", 4, "dhcp"), Flow("host", "dhcp", 6, "dhcp"),
        Flow("host", "self", 4, "data"), Flow("host", "group", 6, "data")}
  \cup {Flow("host", "linklocal", 6, l4) : l4 \in Discovery}
=============================================================================
