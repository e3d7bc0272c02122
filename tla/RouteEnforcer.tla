--------------------------- MODULE RouteEnforcer ---------------------------
(***************************************************************************)
(* The task that keeps the policy routing of the Linux service in place    *)
(* (rustlib/src/bin/obscura/service/os/linux/routes/                       *)
(* traffic_capture_routes.rs).                                             *)
(*                                                                         *)
(* Every request to the kernel is a step of its own, between which other   *)
(* programs may remove or add the rules and routes, and the policy may     *)
(* change.  The kernel reports each change on the netlink socket, from     *)
(* which a task of its own moves it to the queue the enforcer reads.       *)
(***************************************************************************)
EXTENDS Naturals, FiniteSets, Sequences, SequencesExt

CONSTANTS
  Families,    \* the address families, in the order they are processed
  Resolvers,   \* addresses of DNS servers
  FamilyOf,    \* the family of each of them
  Policies     \* the traffic policies: [engaged, dns]

Off == [engaged |-> FALSE, dns |-> {}]

ASSUME FamiliesAssumption == Families \in Seq(STRING) /\ Families # << >>
ASSUME ResolversAssumption ==
  {"suppress", "capture"} \cap Resolvers = {} /\ FamilyOf \in [Resolvers -> STRING]
ASSUME PoliciesAssumption ==
  /\ Off \in Policies /\ Policies \subseteq [engaged: BOOLEAN, dns: SUBSET Resolvers]
  /\ \A p \in Policies : IsFiniteSet(p.dns)

VARIABLES
  desired,   \* the policy in the watch channel
  changed,   \* the enforcer has not seen that policy yet
  rules,     \* our rules in the kernel, by family
  routes,    \* the families with our capture route
  socket,    \* a change was reported that is not in the queue yet
  queue,     \* the queue of reported changes is not empty
  pc,        \* where the enforcer is
  policy,    \* the policy it works on
  dirty,     \* it has found a difference
  at,        \* the next dump to compare
  todo       \* the requests left to make

vars == <<desired, changed, rules, routes, socket, queue, pc, policy, dirty, at, todo>>
kernel == <<rules, routes, socket>>

-----------------------------------------------------------------------------
(* The routing                                                             *)

Ours == {"suppress", "capture"} \cup Resolvers

FamilySet == {Families[i] : i \in DOMAIN Families}

WantedResolvers(p, f) == {r \in p.dns : FamilyOf[r] = f}

RulesOf(f) == {r \in Ours : r \in Resolvers => FamilyOf[r] = f}

WantedRules(p, f) ==
  IF p.engaged THEN {"suppress", "capture"} \cup WantedResolvers(p, f) ELSE {}

\* routing_dirty lists the rules, then the routes, of each family.
Dumps == 1..(2 * Len(Families))

DumpedFamily(i) == Families[(i + 1) \div 2]

Matches(i, p) ==
  IF i % 2 = 1 THEN rules[DumpedFamily(i)] = WantedRules(p, DumpedFamily(i))
               ELSE (DumpedFamily(i) \in routes) = p.engaged

Routed(p) == \A i \in Dumps : Matches(i, p)

Request(op, f, rule) == [op |-> op, family |-> f, rule |-> rule]

\* The requests apply_routing makes for a family.
Requests(p, f) ==
  <<Request("flush", f, "resolvers")>> \o
  IF p.engaged
  THEN [i \in 1..Cardinality(WantedResolvers(p, f)) |->
          Request("add", f, SetToSeq(WantedResolvers(p, f))[i])]
       \o <<Request("add", f, "suppress"), Request("add", f, "capture"),
            Request("replace", f, "route")>>
  ELSE <<Request("del", f, "suppress"), Request("del", f, "capture"),
         Request("unroute", f, "route")>>

AllRequests(p) == FlattenSeq([i \in DOMAIN Families |-> Requests(p, Families[i])])

\* A change of the kernel's tables is reported, to everyone.
Put(newRules, newRoutes) ==
  /\ rules' = newRules
  /\ routes' = newRoutes
  /\ socket' = (socket \/ newRules # rules \/ newRoutes # routes)

Init ==
  /\ desired = Off
  /\ changed = FALSE
  /\ rules \in [FamilySet -> {{}, {"suppress", "capture"}}]
  /\ routes \in SUBSET FamilySet
  /\ socket = FALSE
  /\ queue = FALSE
  /\ pc = "connect"
  /\ policy = Off
  /\ dirty = FALSE
  /\ at = 1
  /\ todo = << >>

-----------------------------------------------------------------------------
(* The enforcer                                                            *)

\* A new socket, bound to the four groups of rule and route changes.
Connect ==
  /\ pc = "connect"
  /\ pc' = "begin"
  /\ socket' = FALSE /\ queue' = FALSE
  /\ UNCHANGED <<desired, changed, rules, routes, policy, dirty, at, todo>>

\* Reported changes are discarded before, not after, the state is read.
Begin ==
  /\ pc = "begin"
  /\ pc' = "check"
  /\ queue' = FALSE
  /\ policy' = desired /\ changed' = FALSE
  /\ dirty' = FALSE /\ at' = 1
  /\ UNCHANGED <<desired, kernel, todo>>

Check ==
  /\ pc = "check"
  /\ at \in Dumps
  /\ dirty' = (dirty \/ ~Matches(at, policy))
  /\ at' = at + 1
  /\ UNCHANGED <<desired, changed, kernel, queue, pc, policy, todo>>

\* Operators whose name begins with "Bad" are faulty variants of the operator
\* that follows them; only the sensitivity checks of PROJECT.json use them.

\* Reported changes are discarded after the state has been read.
BadChecked ==
  /\ pc = "check"
  /\ at \notin Dumps
  /\ IF dirty
     THEN pc' = "apply" /\ todo' = AllRequests(policy)
     ELSE pc' = "wait" /\ UNCHANGED todo
  /\ queue' = FALSE
  /\ UNCHANGED <<desired, changed, kernel, policy, dirty, at>>

Checked ==
  /\ pc = "check"
  /\ at \notin Dumps
  /\ IF dirty
     THEN pc' = "apply" /\ todo' = AllRequests(policy)
     ELSE pc' = "wait" /\ UNCHANGED todo
  /\ UNCHANGED <<desired, changed, kernel, queue, policy, dirty, at>>

\* A rule that is already there, or not there any more, is no error.
Perform(r) ==
  \/ r.op = "add" /\ Put([rules EXCEPT ![r.family] = @ \cup {r.rule}], routes)
  \/ r.op = "del" /\ Put([rules EXCEPT ![r.family] = @ \ {r.rule}], routes)
  \/ r.op = "replace" /\ Put(rules, routes \cup {r.family})
  \/ r.op = "unroute" /\ Put(rules, routes \ {r.family})

\* Resolver rules are deleted one by one until none is found.
Flush ==
  /\ pc = "apply"
  /\ todo # << >> /\ Head(todo).op = "flush"
  /\ LET f == Head(todo).family
     IN  IF rules[f] \cap Resolvers = {}
         THEN todo' = Tail(todo) /\ UNCHANGED kernel
         ELSE \E r \in rules[f] \cap Resolvers :
                Put([rules EXCEPT ![f] = @ \ {r}], routes) /\ UNCHANGED todo
  /\ UNCHANGED <<desired, changed, queue, pc, policy, dirty, at>>

Apply ==
  /\ pc = "apply"
  /\ todo # << >> /\ Head(todo).op # "flush"
  /\ Perform(Head(todo))
  /\ todo' = Tail(todo)
  /\ UNCHANGED <<desired, changed, queue, pc, policy, dirty, at>>

\* Applied, and the cooldown of a second is over: everything is checked again.
Cooldown ==
  /\ pc = "apply"
  /\ todo = << >>
  /\ pc' = "begin"
  /\ UNCHANGED <<desired, changed, kernel, queue, policy, dirty, at, todo>>

\* Only a new policy wakes the enforcer.
BadWake ==
  /\ pc = "wait"
  /\ changed
  /\ pc' = "begin" /\ changed' = FALSE
  /\ UNCHANGED <<desired, kernel, queue, policy, dirty, at, todo>>

\* select! takes a new policy or one message; Begin discards the others.
Wake ==
  /\ pc = "wait"
  /\ pc' = "begin"
  /\ \/ changed /\ changed' = FALSE /\ UNCHANGED queue
     \/ queue /\ queue' \in BOOLEAN /\ UNCHANGED changed
  /\ UNCHANGED <<desired, kernel, policy, dirty, at, todo>>

\* A request fails, or the stream of reports ends: after a second the enforcer
\* starts again with a new socket.
Fails ==
  /\ pc \in {"check", "apply", "wait"}
  /\ pc' = "connect"
  /\ todo' = << >>
  /\ UNCHANGED <<desired, changed, kernel, queue, policy, dirty, at>>

-----------------------------------------------------------------------------
(* Its surroundings                                                        *)

\* The netlink connection's task forwards what was reported.
Deliver ==
  /\ socket
  /\ socket' = FALSE /\ queue' = TRUE
  /\ UNCHANGED <<desired, changed, rules, routes, pc, policy, dirty, at, todo>>

\* set_os_network_config or unset_os_network_config sends a policy.
SendPolicy ==
  /\ \E p \in Policies : desired' = p
  /\ changed' = TRUE
  /\ UNCHANGED <<kernel, queue, pc, policy, dirty, at, todo>>

\* Other programs remove or restore what looks like ours.
Interfere ==
  /\ \E f \in FamilySet :
       \/ \E r \in Ours : Put([rules EXCEPT ![f] = @ \ {r}], routes)
       \/ \E r \in RulesOf(f) : Put([rules EXCEPT ![f] = @ \cup {r}], routes)
       \/ Put(rules, routes \ {f})
       \/ Put(rules, routes \cup {f})
  /\ UNCHANGED <<desired, changed, queue, pc, policy, dirty, at, todo>>

Enforcer == Connect \/ Begin \/ Check \/ Checked \/ Flush \/ Apply \/ Cooldown \/ Wake

Disturbance == SendPolicy \/ Interfere \/ Fails

Next == Enforcer \/ Deliver \/ Disturbance

Spec == Init /\ [][Next]_vars

\* Both tasks run on the service's executor.
FairSpec == Spec /\ WF_vars(Enforcer) /\ WF_vars(Deliver)

-----------------------------------------------------------------------------
(* Properties                                                              *)

\* An enforcer that sleeps with nothing to wake it up has the routing in place:
\* no change made while it was looking is missed.
AsleepMeansRouted ==
  pc = "wait" /\ ~changed /\ ~socket /\ ~queue => Routed(desired)

\* Left alone, the enforcer brings the routing to the desired policy for good.
LeftAlone == <>[][~Disturbance]_vars

Converges == LeftAlone => <>[]Routed(desired)
=============================================================================
