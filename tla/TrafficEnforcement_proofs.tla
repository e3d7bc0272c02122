--------------------- MODULE TrafficEnforcement_proofs ---------------------
(***************************************************************************)
(* Proofs about the two ways in which Linux keeps traffic in the tunnel:   *)
(* policy routing, which RouteEnforcer never leaves wrong for any number   *)
(* of families, resolvers and policies, and the nftables rules, which      *)
(* judge packets as Netfilter's properties say for every set of flows.     *)
(***************************************************************************)
EXTENDS RouteEnforcer, Netfilter, SequenceTheorems, FiniteSetTheorems,
        WellFoundedInduction, TLAPS

-----------------------------------------------------------------------------
(* RouteEnforcer: its inductive invariant                                  *)

\* A report of a change is on its way.
Reported == socket \/ queue

\* The policy worked on is the desired one, unless a newer one is waiting.
SeenIsDesired == pc \in {"check", "apply", "wait"} /\ ~changed => policy = desired

\* The dumps compared so far match, unless a difference was found or a report
\* of a later change will wake the enforcer.
ComparedMatch ==
  pc = "check" =>
    /\ at \in Nat \ {0}
    /\ dirty \/ Reported \/ \A i \in Dumps : i < at => Matches(i, policy)

AsleepMatch == pc = "wait" => Reported \/ Routed(policy)

IInv ==
  /\ dirty \in BOOLEAN /\ socket \in BOOLEAN /\ queue \in BOOLEAN
  /\ SeenIsDesired
  /\ ComparedMatch
  /\ AsleepMatch

LEMMA LenIsNat == Len(Families) \in Nat
BY FamiliesAssumption

\* A change of the tables is reported; without a change what matched matches.
LEMMA PutReports ==
  ASSUME NEW r, NEW o, Put(r, o), socket \in BOOLEAN
  PROVE  /\ socket' \in BOOLEAN
         /\ socket => socket'
         /\ socket' \/ UNCHANGED <<rules, routes>>
BY DEF Put

\* Steps that leave the enforcer where it is and only touch the tables.
LEMMA TablesStep ==
  ASSUME IInv, UNCHANGED <<desired, changed, queue, pc, policy, dirty, at>>,
         socket' \in BOOLEAN, socket => socket',
         socket' \/ UNCHANGED <<rules, routes>>
  PROVE  IInv'
<1>1. CASE socket'
  BY <1>1 DEF IInv, SeenIsDesired, ComparedMatch, AsleepMatch, Reported
<1>2. CASE ~socket' /\ UNCHANGED <<rules, routes>>
  <2>1. ~socket
    BY <1>2
  <2>2. \A i \in Dumps : Matches(i, policy)' = Matches(i, policy)
    BY <1>2 DEF Matches
  <2> QED
    BY <1>2, <2>1, <2>2
       DEF IInv, SeenIsDesired, ComparedMatch, AsleepMatch, Reported, Routed, Dumps
<1> QED
  BY <1>1, <1>2

LEMMA Step == IInv /\ [Next]_vars => IInv'
<1> SUFFICES ASSUME IInv, [Next]_vars PROVE IInv'
  OBVIOUS
<1> USE DEF IInv, SeenIsDesired, ComparedMatch, AsleepMatch, Reported
<1>1. CASE Connect \/ Cooldown \/ Wake
  BY <1>1 DEF Connect, Cooldown, Wake, kernel
<1>2. CASE Begin
  <2>1. \A i \in Dumps : ~(i < 1)
    BY LenIsNat DEF Dumps
  <2> QED
    <3>1. pc' = "check" /\ at' = 1 /\ dirty' = FALSE /\ queue' = FALSE /\ socket' = socket
      BY <1>2 DEF Begin, kernel
    <3>2. policy' = desired'
      BY <1>2 DEF Begin
    <3>3. (\A i \in Dumps : i < at => Matches(i, policy))'
      BY <3>1, <2>1 DEF Dumps
    <3>4. SeenIsDesired' /\ AsleepMatch'
      BY <3>1, <3>2
    <3>5. ComparedMatch'
      BY <3>1, <3>3
    <3>6. dirty' \in BOOLEAN /\ socket' \in BOOLEAN /\ queue' \in BOOLEAN
      BY <3>1
    <3> QED
      BY <3>4, <3>5, <3>6
<1>3. CASE Check
  <2>1. \A i \in Dumps : Matches(i, policy)' = Matches(i, policy)
    BY <1>3 DEF Check, Matches, kernel
  <2>2. at \in Nat \ {0} /\ at' = at + 1 /\ pc' = "check" /\ pc = "check"
    BY <1>3 DEF Check
  <2>4. dirty' \in BOOLEAN /\ (~dirty' => ~dirty /\ Matches(at, policy))
    BY <1>3 DEF Check
  <2>5. ASSUME ~dirty', ~Reported', NEW i \in Dumps, i < at' PROVE Matches(i, policy)'
    <3>1. ~Reported /\ (i < at => Matches(i, policy))
      BY <1>3, <2>4, <2>5, <2>2 DEF Check, kernel
    <3>2. i < at \/ i = at
      BY <2>2, <2>5, LenIsNat DEF Dumps
    <3> QED
      BY <2>1, <2>4, <2>5, <3>1, <3>2
  <2> QED
    BY <1>3, <2>2, <2>4, <2>5 DEF Check, kernel, Dumps
<1>4. CASE Checked
  <2>1. \A i \in Dumps : Matches(i, policy)' = Matches(i, policy)
    BY <1>4 DEF Checked, Matches, kernel
  <2>2. at \in Nat \ {0} /\ at \notin Dumps /\ (~dirty /\ ~Reported => \A i \in Dumps : i < at => Matches(i, policy))
    BY <1>4 DEF Checked
  <2>3. CASE dirty
    BY <1>4, <2>3 DEF Checked, kernel
  <2>4. CASE ~dirty
    <3>1. pc' = "wait" /\ Reported' = Reported
      BY <1>4, <2>4 DEF Checked, kernel
    <3>2. ASSUME ~Reported PROVE Routed(policy)'
      <4>1. \A i \in Dumps : i < at
        BY <2>2, LenIsNat DEF Dumps
      <4> QED
        BY <4>1, <2>1, <2>2, <2>4, <3>2 DEF Dumps, Routed
    <3> QED
      BY <1>4, <2>4, <3>1, <3>2 DEF Checked, kernel
  <2> QED
    BY <2>3, <2>4
<1>5. CASE Flush
  <2>1. /\ socket' \in BOOLEAN /\ (socket => socket')
        /\ socket' \/ UNCHANGED <<rules, routes>>
    BY <1>5, PutReports DEF Flush, kernel
  <2> QED
    BY <1>5, <2>1, TablesStep DEF Flush
<1>6. CASE Apply
  <2>1. /\ socket' \in BOOLEAN /\ (socket => socket')
        /\ socket' \/ UNCHANGED <<rules, routes>>
    BY <1>6, PutReports DEF Apply, Perform
  <2> QED
    BY <1>6, <2>1, TablesStep DEF Apply
<1>7. CASE Fails
  BY <1>7 DEF Fails, kernel
<1>8. CASE Deliver
  BY <1>8 DEF Deliver
<1>9. CASE SendPolicy
  <2>1. \A i \in Dumps : Matches(i, policy)' = Matches(i, policy)
    BY <1>9 DEF SendPolicy, Matches, kernel
  <2> QED
    BY <1>9, <2>1 DEF SendPolicy, kernel, Routed, Dumps
<1>10. CASE Interfere
  <2>1. /\ socket' \in BOOLEAN /\ (socket => socket')
        /\ socket' \/ UNCHANGED <<rules, routes>>
    BY <1>10, PutReports DEF Interfere
  <2> QED
    BY <1>10, <2>1, TablesStep DEF Interfere
<1>11. CASE UNCHANGED vars
  BY <1>11, TablesStep DEF vars
<1> QED
  BY <1>1, <1>2, <1>3, <1>4, <1>5, <1>6, <1>7, <1>8, <1>9, <1>10, <1>11
     DEF Next, Enforcer, Disturbance

\* The inductive invariant holds.
THEOREM Invariance == Spec => []IInv
<1>1. Init => IInv
  BY DEF Init, IInv, SeenIsDesired, ComparedMatch, AsleepMatch
<1> QED
  BY <1>1, Step, PTL DEF Spec

\* An enforcer with nothing to wake it up has the desired routing in place.
THEOREM NoMissedChange == Spec => []AsleepMeansRouted
<1>1. IInv => AsleepMeansRouted
  BY DEF IInv, SeenIsDesired, AsleepMatch, Reported, AsleepMeansRouted
<1> QED
  BY <1>1, Invariance, PTL

-----------------------------------------------------------------------------
(* RouteEnforcer: the requests of a pass                                   *)

\* A set of natural numbers that is not empty has a smallest one, which Min is.
LEMMA MinIsSmallest ==
  ASSUME NEW S \in SUBSET Nat, S # {}
  PROVE  Min(S) \in S /\ \A x \in S : Min(S) <= x
<1>1. \E m \in S : \A x \in S : ~(<<x, m>> \in OpToRel(<, Nat))
  BY NatLessThanWellFounded, WFMin
<1>2. PICK m \in S : \A x \in S : ~(<<x, m>> \in OpToRel(<, Nat))
  BY <1>1
<1>3. \A x \in S : ~(x < m)
  BY <1>2 DEF OpToRel
<1>4. \A x \in S : m <= x
  BY <1>3
<1> QED
  BY <1>4 DEF Min

\* SetToSeq lists every element of a finite set.
LEMMA SetListed ==
  ASSUME NEW S, IsFiniteSet(S)
  PROVE  /\ Cardinality(S) \in Nat
         /\ SetToSeq(S) \in [1..Cardinality(S) -> S]
         /\ \A x \in S : \E i \in 1..Cardinality(S) : SetToSeq(S)[i] = x
<1> DEFINE n == Cardinality(S)
           s == SetToSeq(S)
<1>1. n \in Nat /\ ExistsBijection(1..n, S)
  BY FS_CardinalityType
<1>2. \E f \in [1..n -> S] : IsInjective(f)
  BY <1>1 DEF ExistsBijection, Bijection, Injection
<1>3. s \in [1..n -> S] /\ IsInjective(s)
  <2> DEFINE Lists(f) == f \in [1..n -> S] /\ IsInjective(f)
  <2>1. s = CHOOSE f \in [1..n -> S] : IsInjective(f)
    BY DEF SetToSeq
  <2> HIDE DEF s
  <2> QED
    BY <1>2, <2>1
<1>4. IsFiniteSet(1..n) /\ Cardinality(1..n) = n
  <2>1. 1 \in Int /\ n \in Int /\ (1 > n => n = 0) /\ (1 <= n => n - 1 + 1 = n)
    BY <1>1
  <2> HIDE DEF n
  <2> QED
    BY <2>1, FS_Interval
<1>5. s \in Injection(1..n, S)
  BY <1>3 DEF Injection
<1>6. s \in Surjection(1..n, S)
  <2> HIDE DEF s
  <2> QED
    BY <1>4, <1>5, FS_Injection
<1> QED
  BY <1>1, <1>3, <1>6 DEF Surjection

\* s is a part of q, from position o + 1 on.
PartOf(s, q, o) == o \in Nat /\ \A j \in DOMAIN s : o + j \in DOMAIN q /\ q[o + j] = s[j]

\* q consists of the first n of some sequences, one after the other.
Chains(q, ss, n) ==
  /\ \A m \in 1..n : \E o \in Nat : PartOf(ss[m], q, o)
  /\ \A k \in DOMAIN q : \E m \in 1..n : \E o \in Nat :
       PartOf(ss[m], q, o) /\ \E j \in DOMAIN ss[m] : k = o + j

\* The recursion of FlattenSeq, up to the n-th sequence.
Flattens(g, ss, n) ==
  g = [i \in 1..n |-> IF i = 1 THEN ss[i] ELSE g[i - 1] \o ss[i]]

LEMMA PartStaysPart ==
  ASSUME NEW S, NEW s \in Seq(S), NEW q \in Seq(S), NEW r \in Seq(S), NEW o, PartOf(s, q, o)
  PROVE  PartOf(s, q \o r, o)
BY DEF PartOf

LEMMA LastIsPart ==
  ASSUME NEW S, NEW q \in Seq(S), NEW r \in Seq(S)
  PROVE  PartOf(r, q \o r, Len(q))
BY DEF PartOf

LEMMA ChainGrows ==
  ASSUME NEW S, NEW ss \in Seq(Seq(S)), NEW n \in Nat, n + 1 \in DOMAIN ss,
         NEW q \in Seq(S), Chains(q, ss, n)
  PROVE  q \o ss[n + 1] \in Seq(S) /\ Chains(q \o ss[n + 1], ss, n + 1)
<1> DEFINE r == ss[n + 1]
<1>1. r \in Seq(S) /\ q \o r \in Seq(S)
  OBVIOUS
<1>2. \A m \in 1..n : ss[m] \in Seq(S)
  OBVIOUS
<1>3. PartOf(ss[n + 1], q \o r, Len(q)) /\ Len(q) \in Nat
  BY <1>1, LastIsPart
<1>4. \A m \in 1..(n + 1) : m \in 1..n \/ m = n + 1
  OBVIOUS
<1>5. ASSUME NEW m \in 1..(n + 1) PROVE \E o \in Nat : PartOf(ss[m], q \o r, o)
  <2>1. CASE m = n + 1
    BY <2>1, <1>3
  <2>2. CASE m \in 1..n
    BY <2>2, <1>1, <1>2, PartStaysPart DEF Chains
  <2> QED
    BY <1>4, <2>1, <2>2
<1>6. ASSUME NEW k \in DOMAIN (q \o r)
      PROVE  \E m \in 1..(n + 1) : \E o \in Nat :
               PartOf(ss[m], q \o r, o) /\ \E j \in DOMAIN ss[m] : k = o + j
  <2>1. CASE k \in DOMAIN q
    <3>1. PICK m \in 1..n, o \in Nat :
            PartOf(ss[m], q, o) /\ \E j \in DOMAIN ss[m] : k = o + j
      BY <2>1 DEF Chains
    <3>2. PartOf(ss[m], q \o r, o)
      BY <1>1, <1>2, <3>1, PartStaysPart
    <3>3. m \in 1..(n + 1)
      OBVIOUS
    <3> QED
      BY <3>1, <3>2, <3>3
  <2>2. CASE k \notin DOMAIN q
    <3>1. k - Len(q) \in DOMAIN r /\ k = Len(q) + (k - Len(q))
      BY <1>1, <2>2
    <3>2. n + 1 \in 1..(n + 1)
      OBVIOUS
    <3> QED
      BY <1>3, <3>1, <3>2
  <2> QED
    BY <2>1, <2>2
<1> QED
  BY <1>1, <1>5, <1>6 DEF Chains

\* FlattenSeq follows the recursion it is defined by, if any function does.
LEMMA FlattenUnfolds ==
  ASSUME NEW ss, Len(ss) # 0, NEW g, Flattens(g, ss, Len(ss))
  PROVE  \E h : Flattens(h, ss, Len(ss)) /\ FlattenSeq(ss) = h[Len(ss)]
<1> DEFINE flatten[i \in 1..Len(ss)] ==
             IF i = 1 THEN ss[i] ELSE flatten[i - 1] \o ss[i]
           Eq(h) == h = [i \in 1..Len(ss) |-> IF i = 1 THEN ss[i] ELSE h[i - 1] \o ss[i]]
<1>1. FlattenSeq(ss) = flatten[Len(ss)]
  BY Zenon DEF FlattenSeq
<1>2. flatten = CHOOSE h : Eq(h)
  BY Zenon
<1>3. Eq(g)
  BY DEF Flattens
<1>4. \A h : Eq(h) => Flattens(h, ss, Len(ss))
  BY DEF Flattens
<1> HIDE DEF flatten, Eq
<1>5. Eq(flatten)
  BY <1>2, <1>3, Zenon
<1> QED
  BY <1>1, <1>4, <1>5, Zenon

\* Some function does.
LEMMA FlatteningExists ==
  ASSUME NEW S, NEW ss \in Seq(Seq(S))
  PROVE  \E g : Flattens(g, ss, Len(ss))
<1> DEFINE N == Len(ss)
           Without == {n \in 1..N : ~ \E g : Flattens(g, ss, n)}
<1>1. \E g : Flattens(g, ss, 0)
  <2>1. Flattens([i \in 1..0 |-> 0], ss, 0)
    BY DEF Flattens
  <2> QED
    BY <2>1
<1>2. Without = {}
  <2> SUFFICES ASSUME Without # {} PROVE FALSE
    OBVIOUS
  <2> DEFINE n == Min(Without)
  <2>1. Without \in SUBSET Nat
    OBVIOUS
  <2>2. n \in Without /\ \A k \in Without : n <= k
    BY <2>1, MinIsSmallest
  <2> HIDE DEF n
  <2>3. n \in 1..N /\ n - 1 \in 0..N /\ n - 1 \notin Without
    <3>1. n \in 1..N
      BY <2>2
    <3>2. n - 1 \in 0..N /\ ~(n <= n - 1)
      BY <3>1
    <3> HIDE DEF Without
    <3> QED
      BY <2>2, <3>1, <3>2
  <2>4. PICK g : Flattens(g, ss, n - 1)
    <3>1. n - 1 = 0 \/ n - 1 \in 1..N
      BY <2>3
    <3> QED
      BY <1>1, <2>3, <3>1
  <2> DEFINE h == [i \in 1..n |-> IF i = 1 THEN ss[i] ELSE g[i - 1] \o ss[i]]
  <2>5. \A i \in 1..(n - 1) : h[i] = g[i]
    <3>1. \A i \in 1..(n - 1) : g[i] = IF i = 1 THEN ss[i] ELSE g[i - 1] \o ss[i]
      BY <2>4, Zenon DEF Flattens
    <3>2. \A i \in 1..(n - 1) : i \in 1..n
      BY <2>3
    <3> QED
      BY <3>1, <3>2
  <2>6. \A i \in 1..n : i # 1 => i - 1 \in 1..(n - 1)
    BY <2>3
  <2>7. h = [i \in 1..n |-> IF i = 1 THEN ss[i] ELSE h[i - 1] \o ss[i]]
    <3>1. \A i \in 1..n : i # 1 => g[i - 1] = h[i - 1]
      BY <2>5, <2>6
    <3> QED
      BY <3>1
  <2>8. Flattens(h, ss, n)
    BY <2>7 DEF Flattens
  <2> QED
    BY <2>2, <2>8
<1>3. N = 0 \/ N \in 1..N
  OBVIOUS
<1> QED
  BY <1>1, <1>2, <1>3

LEMMA FlattenChains ==
  ASSUME NEW S, NEW ss \in Seq(Seq(S)), ss # << >>
  PROVE  FlattenSeq(ss) \in Seq(S) /\ Chains(FlattenSeq(ss), ss, Len(ss))
<1> DEFINE N == Len(ss)
<1>1. N \in Nat /\ N # 0 /\ N \in 1..N
  OBVIOUS
<1>2. PICK g : Flattens(g, ss, N) /\ FlattenSeq(ss) = g[N]
  BY <1>1, FlatteningExists, FlattenUnfolds
<1> DEFINE Good(n) == g[n] \in Seq(S) /\ Chains(g[n], ss, n)
           bad == {n \in 1..N : ~Good(n)}
<1>3. \A i \in 1..N : g[i] = IF i = 1 THEN ss[i] ELSE g[i - 1] \o ss[i]
  BY <1>2, Zenon DEF Flattens
<1>4. bad = {}
  <2> SUFFICES ASSUME bad # {} PROVE FALSE
    OBVIOUS
  <2> DEFINE n == Min(bad)
  <2>1. n \in bad /\ \A k \in bad : n <= k
    <3>1. bad \in SUBSET Nat
      OBVIOUS
    <3> HIDE DEF bad
    <3> QED
      BY <3>1, MinIsSmallest
  <2> HIDE DEF n
  <2>2. n \in 1..N /\ ~Good(n)
    BY <2>1
  <2>3. CASE n = 1
    <3>1. g[n] = ss[1] /\ ss[1] \in Seq(S)
      BY <1>3, <2>2, <2>3
    <3>2. PartOf(ss[1], ss[1], 0)
      BY <3>1 DEF PartOf
    <3>3. \A m \in 1..n : m = 1
      BY <2>3
    <3>4. \A k \in DOMAIN ss[1] : k = 0 + k /\ 0 \in Nat /\ 1 \in 1..n
      BY <3>1, <2>3
    <3>5. Chains(ss[1], ss, n)
      BY <3>2, <3>3, <3>4 DEF Chains
    <3> QED
      BY <2>2, <3>1, <3>5
  <2>4. CASE n # 1
    <3>1. n - 1 \in 1..N /\ ~(n <= n - 1) /\ n - 1 \in Nat /\ n - 1 + 1 = n
      BY <2>2, <2>4
    <3>2. Good(n - 1)
      BY <2>1, <3>1
    <3>3. g[n] = g[n - 1] \o ss[n]
      BY <1>3, <2>2, <2>4
    <3>4. Good(n - 1 + 1)
      <4>1. n - 1 + 1 \in DOMAIN ss
        BY <2>2, <3>1
      <4>2. g[n - 1] \o ss[n - 1 + 1] \in Seq(S) /\ Chains(g[n - 1] \o ss[n - 1 + 1], ss, n - 1 + 1)
        BY <3>1, <3>2, <4>1, ChainGrows
      <4> QED
        BY <3>1, <3>3, <4>2
    <3> QED
      BY <2>2, <3>1, <3>4
  <2> QED
    BY <2>3, <2>4
<1> QED
  BY <1>1, <1>2, <1>4

\* What a pass asks of the kernel for a family, to establish policy p.
RequestsOf(p, f) ==
  {Request("flush", f, "resolvers")} \cup
  IF p.engaged
  THEN {Request("add", f, r) : r \in WantedRules(p, f)} \cup {Request("replace", f, "route")}
  ELSE {Request("del", f, r) : r \in {"suppress", "capture"}} \cup {Request("unroute", f, "route")}

PassRequests(p) == UNION {RequestsOf(p, f) : f \in FamilySet}

\* Before a resolver rule is added, the former ones of its family are flushed,
\* never after it.
FlushComesFirst(q, p) ==
  \A i \in DOMAIN q : q[i].op = "flush" /\ p.engaged =>
    \A r \in WantedResolvers(p, q[i].family) :
      \E j \in DOMAIN q : j > i /\ q[j] = Request("add", q[i].family, r)

\* Where the elements of two sequences are once they are joined.
AreJoined(c, a, b, S) ==
  /\ c \in Seq(S) /\ Len(c) = Len(a) + Len(b)
  /\ \A i \in 1..Len(a) : c[i] = a[i]
  /\ \A i \in 1..Len(b) : c[Len(a) + i] = b[i]

LEMMA Joined ==
  ASSUME NEW S, NEW a \in Seq(S), NEW b \in Seq(S)
  PROVE  AreJoined(a \o b, a, b, S)
BY DEF AreJoined

\* The requests for one family: these, all of these, in this order.
LEMMA FamilyRequests ==
  ASSUME NEW p \in Policies, NEW f \in FamilySet
  PROVE  /\ Requests(p, f) \in Seq(PassRequests(p))
         /\ \A r \in RequestsOf(p, f) : \E i \in DOMAIN Requests(p, f) : Requests(p, f)[i] = r
         /\ \A i \in DOMAIN Requests(p, f) : Requests(p, f)[i].family = f
         /\ FlushComesFirst(Requests(p, f), p)
<1> DEFINE W == WantedResolvers(p, f)
           n == Cardinality(W)
           flush == <<Request("flush", f, "resolvers")>>
           adds == [i \in 1..n |-> Request("add", f, SetToSeq(W)[i])]
           rest == <<Request("add", f, "suppress"), Request("add", f, "capture"),
                     Request("replace", f, "route")>>
           offs == <<Request("del", f, "suppress"), Request("del", f, "capture"),
                     Request("unroute", f, "route")>>
           q == Requests(p, f)
           P == PassRequests(p)
<1>1. RequestsOf(p, f) \subseteq P
  BY DEF PassRequests
<1>2. CASE p.engaged
  <2>1. IsFiniteSet(W)
    <3>1. W \subseteq p.dns /\ IsFiniteSet(p.dns)
      BY PoliciesAssumption DEF WantedResolvers
    <3> QED
      BY <3>1, FS_Subset
  <2>2. n \in Nat /\ SetToSeq(W) \in [1..n -> W] /\ \A r \in W : \E i \in 1..n : SetToSeq(W)[i] = r
    BY <2>1, SetListed
  <2>3. q = flush \o (adds \o rest)
    BY <1>2, Zenon DEF Requests
  <2>4. WantedRules(p, f) = {"suppress", "capture"} \cup W
    BY <1>2 DEF WantedRules
  <2>5. RequestsOf(p, f) = {Request("flush", f, "resolvers")} \cup
          ({Request("add", f, r) : r \in WantedRules(p, f)} \cup {Request("replace", f, "route")})
    BY <1>2 DEF RequestsOf
  <2>6. \A r \in W : Request("add", f, r) \in P
    BY <1>1, <2>4, <2>5
  <2>7. /\ Request("flush", f, "resolvers") \in P /\ Request("replace", f, "route") \in P
        /\ Request("add", f, "suppress") \in P /\ Request("add", f, "capture") \in P
    BY <1>1, <2>4, <2>5
  <2> HIDE DEF W, n, P
  <2>8. adds \in Seq(P) /\ Len(adds) = n
    BY <2>2, <2>6
  <2>9. flush \in Seq(P) /\ rest \in Seq(P)
    BY <2>7
  <2> DEFINE tail == adds \o rest
  <2>10. Len(flush) = 1 /\ Len(rest) = 3
    OBVIOUS
  <2> HIDE DEF q, flush, adds, rest
  <2>11. /\ tail \in Seq(P) /\ Len(tail) = Len(adds) + Len(rest)
         /\ \A i \in 1..Len(adds) : tail[i] = adds[i]
         /\ \A i \in 1..Len(rest) : tail[Len(adds) + i] = rest[i]
    <3>1. adds \in Seq(P) /\ rest \in Seq(P) /\ tail = adds \o rest
      BY <2>8, <2>9
    <3>2. AreJoined(tail, adds, rest, P)
      BY <3>1, Joined
    <3> HIDE DEF tail
    <3> QED
      BY <3>2 DEF AreJoined
  <2>12. /\ q \in Seq(P) /\ Len(q) = Len(flush) + Len(tail)
         /\ \A i \in 1..Len(flush) : q[i] = flush[i]
         /\ \A i \in 1..Len(tail) : q[Len(flush) + i] = tail[i]
    <3>1. flush \in Seq(P) /\ tail \in Seq(P) /\ q = flush \o tail
      BY <2>3, <2>9, <2>11
    <3>2. AreJoined(q, flush, tail, P)
      BY <3>1, Joined
    <3> HIDE DEF tail
    <3> QED
      BY <3>2 DEF AreJoined
  <2> HIDE DEF tail
  <2>13. Len(tail) = n + 3 /\ Len(q) = n + 4
    BY <2>2, <2>8, <2>10, <2>11, <2>12
  <2>14. /\ q[1] = Request("flush", f, "resolvers")
         /\ \A i \in 1..n : i + 1 \in DOMAIN q /\ q[i + 1] = Request("add", f, SetToSeq(W)[i])
         /\ q[n + 2] = Request("add", f, "suppress") /\ q[n + 3] = Request("add", f, "capture")
         /\ q[n + 4] = Request("replace", f, "route")
    <3>1. \A i \in 1..n : adds[i] = Request("add", f, SetToSeq(W)[i])
      BY DEF adds
    <3>2. flush[1] = Request("flush", f, "resolvers")
      BY DEF flush
    <3>3. /\ rest[1] = Request("add", f, "suppress") /\ rest[2] = Request("add", f, "capture")
          /\ rest[3] = Request("replace", f, "route")
      BY DEF rest
    <3>4. q[1] = flush[1]
      BY <2>10, <2>12
    <3>5. \A i \in 1..n : i + 1 \in DOMAIN q /\ q[i + 1] = adds[i]
      <4>1. \A i \in 1..n : i + 1 \in DOMAIN q /\ i + 1 = 1 + i /\ i \in 1..(n + 3)
        BY <2>2, <2>12, <2>13
      <4>2. \A i \in 1..(n + 3) : q[1 + i] = tail[i]
        BY <2>10, <2>12, <2>13, Zenon
      <4>3. \A i \in 1..n : tail[i] = adds[i]
        BY <2>8, <2>11, Zenon
      <4> QED
        BY <4>1, <4>2, <4>3, Zenon
    <3>6. q[n + 2] = rest[1] /\ q[n + 3] = rest[2] /\ q[n + 4] = rest[3]
      <4>1. \A i \in 1..3 : n + i \in 1..(n + 3)
        BY <2>2
      <4>2. \A i \in 1..3 : q[1 + (n + i)] = rest[i]
        <5>1. \A i \in 1..3 : tail[n + i] = rest[i]
          BY <2>8, <2>10, <2>11, Zenon
        <5>2. \A i \in 1..(n + 3) : q[1 + i] = tail[i]
          BY <2>10, <2>12, <2>13, Zenon
        <5> QED
          BY <4>1, <5>1, <5>2, Zenon
      <4>3. n + 2 = 1 + (n + 1) /\ n + 3 = 1 + (n + 2) /\ n + 4 = 1 + (n + 3)
        BY <2>2
      <4> QED
        BY <4>2, <4>3
    <3> QED
      BY <3>1, <3>2, <3>3, <3>4, <3>5, <3>6
  <2>15. {1, n + 2, n + 3, n + 4} \subseteq DOMAIN q
    BY <2>2, <2>12, <2>13
  <2>16. \A r \in WantedRules(p, f) : \E i \in DOMAIN q : q[i] = Request("add", f, r)
    <3>1. \A r \in W : \E i \in DOMAIN q : q[i] = Request("add", f, r)
      BY <2>2, <2>14
    <3> QED
      BY <3>1, <2>4, <2>14, <2>15
  <2>17. \A r \in RequestsOf(p, f) : \E i \in DOMAIN q : q[i] = r
    BY <2>5, <2>14, <2>15, <2>16
  <2>18. \A i \in DOMAIN q : i = 1 \/ i \in {n + 2, n + 3, n + 4} \/ \E k \in 1..n : i = k + 1
    <3> SUFFICES ASSUME NEW i \in DOMAIN q, i # 1, i \notin {n + 2, n + 3, n + 4}
                 PROVE  i - 1 \in 1..n /\ i = (i - 1) + 1
      OBVIOUS
    <3>1. n \in Nat /\ i \in 1..(n + 4)
      BY <2>2, <2>12, <2>13
    <3> QED
      BY <3>1
  <2>19. ASSUME NEW i \in DOMAIN q
         PROVE  q[i].family = f /\ (q[i].op = "flush" => i = 1)
    <3>1. \A op, r : Request(op, f, r).family = f /\ Request(op, f, r).op = op
      BY DEF Request
    <3>2. CASE i = 1
      BY <2>14, <3>1, <3>2
    <3>3. CASE i \in {n + 2, n + 3, n + 4}
      BY <2>14, <3>1, <3>3
    <3>4. CASE \E k \in 1..n : i = k + 1
      BY <2>14, <3>1, <3>4
    <3> QED
      BY <2>18, <3>2, <3>3, <3>4
  <2>20. ASSUME NEW r \in W PROVE \E j \in DOMAIN q : j > 1 /\ q[j] = Request("add", f, r)
    <3>1. PICK i \in 1..n : SetToSeq(W)[i] = r
      BY <2>2
    <3>2. i + 1 > 1
      BY <2>2
    <3> QED
      BY <2>14, <3>1, <3>2
  <2>21. FlushComesFirst(q, p)
    BY <2>19, <2>20 DEF FlushComesFirst, W
  <2> QED
    BY <2>12, <2>17, <2>19, <2>21 DEF q, P
<1>3. CASE ~p.engaged
  <2>1. q = flush \o offs
    BY <1>3, Zenon DEF Requests
  <2>2. RequestsOf(p, f) = {Request("flush", f, "resolvers")} \cup
          ({Request("del", f, r) : r \in {"suppress", "capture"}} \cup {Request("unroute", f, "route")})
    BY <1>3 DEF RequestsOf
  <2>3. /\ Request("flush", f, "resolvers") \in P /\ Request("unroute", f, "route") \in P
        /\ Request("del", f, "suppress") \in P /\ Request("del", f, "capture") \in P
    BY <1>1, <2>2
  <2> HIDE DEF P
  <2>4. q = <<Request("flush", f, "resolvers"), Request("del", f, "suppress"),
              Request("del", f, "capture"), Request("unroute", f, "route")>>
    <3> DEFINE all == <<Request("flush", f, "resolvers"), Request("del", f, "suppress"),
                        Request("del", f, "capture"), Request("unroute", f, "route")>>
    <3>1. flush \in Seq(P) /\ offs \in Seq(P) /\ Len(flush) = 1 /\ Len(offs) = 3
      BY <2>3
    <3> HIDE DEF q
    <3>2. /\ q \in Seq(P) /\ Len(q) = Len(flush) + Len(offs)
          /\ \A i \in 1..Len(flush) : q[i] = flush[i]
          /\ \A i \in 1..Len(offs) : q[Len(flush) + i] = offs[i]
      <4> HIDE DEF flush, offs
      <4>1. AreJoined(q, flush, offs, P)
        BY <2>1, <3>1, Joined
      <4> QED
        BY <4>1 DEF AreJoined
    <3>3. DOMAIN q = 1..4 /\ q[1] = flush[1] /\ q[2] = offs[1] /\ q[3] = offs[2] /\ q[4] = offs[3]
      <4> HIDE DEF flush, offs
      <4>1. \A i \in 1..3 : q[1 + i] = offs[i]
        BY <3>1, <3>2
      <4>2. q[1] = flush[1] /\ q[1 + 1] = offs[1] /\ q[1 + 2] = offs[2] /\ q[1 + 3] = offs[3]
        BY <3>1, <3>2, <4>1
      <4> QED
        BY <3>1, <3>2, <4>2
    <3> QED
      BY <3>2, <3>3
  <2> HIDE DEF q
  <2>5. /\ q \in Seq(P) /\ DOMAIN q = 1..4
        /\ q[1] = Request("flush", f, "resolvers") /\ q[2] = Request("del", f, "suppress")
        /\ q[3] = Request("del", f, "capture") /\ q[4] = Request("unroute", f, "route")
    BY <2>3, <2>4
  <2>6. \A r \in RequestsOf(p, f) : \E i \in DOMAIN q : q[i] = r
    BY <2>2, <2>5
  <2>7. \A i \in DOMAIN q : q[i].family = f
    BY <2>5 DEF Request
  <2>8. FlushComesFirst(q, p)
    BY <1>3 DEF FlushComesFirst
  <2> QED
    BY <2>5, <2>6, <2>7, <2>8 DEF q, P
<1> QED
  BY <1>2, <1>3

\* The requests of a pass: these, all of these, in this order.
LEMMA AllRequestsAre ==
  ASSUME NEW p \in Policies
  PROVE  /\ AllRequests(p) \in Seq(PassRequests(p))
         /\ \A r \in PassRequests(p) : \E i \in DOMAIN AllRequests(p) : AllRequests(p)[i] = r
         /\ FlushComesFirst(AllRequests(p), p)
<1> DEFINE ss == [i \in DOMAIN Families |-> Requests(p, Families[i])]
           q == AllRequests(p)
           N == Len(ss)
<1>1. \A i \in DOMAIN Families : Families[i] \in FamilySet
  BY DEF FamilySet
<1>2. ss \in Seq(Seq(PassRequests(p))) /\ ss # << >> /\ DOMAIN ss = DOMAIN Families /\ N \in Nat
  <2>1. \A i \in DOMAIN Families : Requests(p, Families[i]) \in Seq(PassRequests(p))
    BY <1>1, FamilyRequests
  <2>2. DOMAIN Families = 1..Len(Families) /\ Len(Families) \in Nat /\ Len(Families) # 0
    BY FamiliesAssumption
  <2> QED
    BY <2>1, <2>2
<1>3. q \in Seq(PassRequests(p)) /\ Chains(q, ss, N)
  BY <1>2, FlattenChains DEF AllRequests
<1>4. 1..N = DOMAIN Families
  BY <1>2
<1>5. \A m \in 1..N : ss[m] = Requests(p, Families[m]) /\ Families[m] \in FamilySet
  BY <1>1, <1>4
<1> HIDE DEF q, ss, N
<1>6. ASSUME NEW r \in PassRequests(p) PROVE \E i \in DOMAIN q : q[i] = r
  <2>1. PICK m \in 1..N : r \in RequestsOf(p, Families[m])
    BY <1>4 DEF PassRequests, FamilySet
  <2>2. PICK i \in DOMAIN ss[m] : ss[m][i] = r
    BY <1>5, <2>1, FamilyRequests
  <2>3. PICK o \in Nat : PartOf(ss[m], q, o)
    BY <1>3 DEF Chains
  <2> QED
    BY <2>2, <2>3 DEF PartOf
<1>7. ASSUME NEW k \in DOMAIN q, q[k].op = "flush", p.engaged,
             NEW r \in WantedResolvers(p, q[k].family)
      PROVE  \E j \in DOMAIN q : j > k /\ q[j] = Request("add", q[k].family, r)
  <2>1. PICK m \in 1..N, o \in Nat : PartOf(ss[m], q, o) /\ \E j \in DOMAIN ss[m] : k = o + j
    BY <1>3 DEF Chains
  <2>2. PICK j \in DOMAIN ss[m] : k = o + j
    BY <2>1
  <2>3. q[k] = ss[m][j]
    BY <2>1, <2>2 DEF PartOf
  <2>4. FlushComesFirst(ss[m], p)
    BY <1>5, FamilyRequests
  <2>5. PICK l \in DOMAIN ss[m] : l > j /\ ss[m][l] = Request("add", ss[m][j].family, r)
    BY <1>7, <2>3, <2>4 DEF FlushComesFirst
  <2>6. o + l \in DOMAIN q /\ q[o + l] = ss[m][l]
    BY <2>1 DEF PartOf
  <2>7. o + l > k
    <3>1. ss[m] \in Seq(PassRequests(p))
      BY <1>5, FamilyRequests
    <3>2. j \in Nat /\ l \in Nat
      BY <3>1
    <3> QED
      BY <2>2, <2>5, <3>2
  <2> QED
    BY <2>3, <2>5, <2>6, <2>7
<1> QED
  BY <1>3, <1>6, <1>7 DEF FlushComesFirst, q

-----------------------------------------------------------------------------
(* RouteEnforcer: what a pass that nobody disturbs leaves behind           *)

\* Only our rules and the families we know appear in the tables, and the
\* requests left to make are those of a pass for the policy worked on.
WellFormed ==
  /\ rules \in [FamilySet -> SUBSET Ours] /\ routes \subseteq FamilySet
  /\ desired \in Policies /\ policy \in Policies
  /\ pc = "apply" => todo \in Seq(PassRequests(policy))

\* The request is still to be made.
Ahead(op, f, r) == \E i \in DOMAIN todo : todo[i] = Request(op, f, r)

\* What the requests already made for the family have established.
RulesDone(p, f) ==
  /\ Ahead("flush", f, "resolvers") \/ rules[f] \cap Resolvers \subseteq WantedRules(p, f)
  /\ \A r \in WantedRules(p, f) : Ahead("add", f, r) \/ r \in rules[f]
  /\ p.engaged \/ \A r \in {"suppress", "capture"} : Ahead("del", f, r) \/ r \notin rules[f]

RouteDone(p, f) ==
  IF p.engaged THEN Ahead("replace", f, "route") \/ f \in routes
               ELSE Ahead("unroute", f, "route") \/ f \notin routes

Underway ==
  /\ todo \in Seq(PassRequests(policy))
  /\ FlushComesFirst(todo, policy)
  /\ \A f \in FamilySet : RulesDone(policy, f) /\ RouteDone(policy, f)

\* Holds from the beginning of a pass on, for as long as nobody disturbs.
Calm ==
  /\ pc \in {"connect", "begin", "check", "apply", "wait"}
  /\ pc \in {"check", "apply", "wait"} => policy = desired
  /\ pc = "check" =>
       at \in Nat \ {0} /\ (dirty \/ \A i \in Dumps : i < at => Matches(i, policy))
  /\ pc = "wait" => Routed(policy)
  /\ pc = "apply" => Underway

\* A pass has looked at everything, or made all its requests.
PassCompleted == pc = "wait" \/ (pc = "apply" /\ todo = << >>)

\* The routing is as desired, and no request is under way to change it.
Settled ==
  /\ Routed(desired)
  /\ pc = "check" => ~dirty
  /\ pc = "apply" => todo = << >>

LEMMA WantedAreOurs ==
  ASSUME NEW p \in Policies, NEW f
  PROVE  WantedRules(p, f) \subseteq Ours
<1>1. p.dns \subseteq Resolvers
  BY PoliciesAssumption
<1> QED
  BY <1>1 DEF WantedRules, WantedResolvers, Ours

LEMMA RequestTyped ==
  ASSUME NEW p \in Policies, NEW r \in PassRequests(p)
  PROVE  /\ r.family \in FamilySet
         /\ r.op \in {"flush", "add", "del", "replace", "unroute"}
         /\ r.op = "flush" => r = Request("flush", r.family, "resolvers")
         /\ r.op = "add" => p.engaged /\ r.rule \in WantedRules(p, r.family)
         /\ r.op = "del" => ~p.engaged /\ r.rule \in {"suppress", "capture"}
         /\ r.op = "replace" => p.engaged
         /\ r.op = "unroute" => ~p.engaged
         /\ r.op \in {"add", "del"} => r = Request(r.op, r.family, r.rule)
         /\ r.op \in {"replace", "unroute"} => r = Request(r.op, r.family, "route")
<1>1. PICK f \in FamilySet : r \in RequestsOf(p, f)
  BY DEF PassRequests
<1>2. CASE p.engaged
  <2>1. \/ r = Request("flush", f, "resolvers") \/ r = Request("replace", f, "route")
        \/ \E w \in WantedRules(p, f) : r = Request("add", f, w)
    BY <1>1, <1>2 DEF RequestsOf
  <2> QED
    BY <1>2, <2>1 DEF Request
<1>3. CASE ~p.engaged
  <2>1. \/ r = Request("flush", f, "resolvers") \/ r = Request("unroute", f, "route")
        \/ \E w \in {"suppress", "capture"} : r = Request("del", f, w)
    BY <1>1, <1>3 DEF RequestsOf
  <2> QED
    BY <1>3, <2>1 DEF Request
<1> QED
  BY <1>2, <1>3

\* The first request, and those that are left after it.
LEMMA NextRequest ==
  ASSUME WellFormed, pc = "apply", todo # << >>
  PROVE  /\ Head(todo) \in PassRequests(policy)
         /\ Tail(todo) \in Seq(PassRequests(policy))
         /\ Head(todo) = todo[1]
         /\ \A i \in DOMAIN todo : i = 1 \/ (i - 1 \in DOMAIN Tail(todo) /\ Tail(todo)[i - 1] = todo[i])
         /\ \A i \in DOMAIN Tail(todo) : i + 1 \in DOMAIN todo /\ Tail(todo)[i] = todo[i + 1]
<1>1. todo \in Seq(PassRequests(policy))
  BY DEF WellFormed
<1> HIDE DEF WellFormed
<1> QED
  BY <1>1

LEMMA WellFormedStep == WellFormed /\ [Next]_vars => WellFormed'
<1> SUFFICES ASSUME WellFormed, [Next]_vars PROVE WellFormed'
  OBVIOUS
<1>1. CASE Connect \/ Cooldown \/ Wake \/ Check \/ Fails \/ Deliver \/ Begin
  BY <1>1 DEF Connect, Cooldown, Wake, Check, Fails, Deliver, Begin, kernel, WellFormed
<1>2. CASE Checked
  BY <1>2, AllRequestsAre DEF Checked, kernel, WellFormed
<1>3. CASE Flush
  <2>1. UNCHANGED <<desired, policy, pc>> /\ pc = "apply" /\ (todo' = todo \/ todo' = Tail(todo)) /\ todo # << >>
    BY <1>3 DEF Flush
  <2>2. todo' \in Seq(PassRequests(policy))
    BY <2>1, NextRequest DEF WellFormed
  <2>3. rules' \in [FamilySet -> SUBSET Ours] /\ routes' = routes
    BY <1>3 DEF Flush, Put, kernel, WellFormed
  <2> QED
    BY <2>1, <2>2, <2>3 DEF WellFormed
<1>4. CASE Apply
  <2> DEFINE r == Head(todo)
  <2>1. UNCHANGED <<desired, policy, pc>> /\ pc = "apply" /\ todo' = Tail(todo) /\ todo # << >> /\ Perform(r)
    BY <1>4 DEF Apply
  <2>2. todo' \in Seq(PassRequests(policy)) /\ r \in PassRequests(policy)
    BY <2>1, NextRequest
  <2> HIDE DEF r
  <2>3. r.family \in FamilySet /\ (r.op = "add" => r.rule \in Ours)
    BY <2>2, RequestTyped, WantedAreOurs DEF WellFormed
  <2>4. rules' \in [FamilySet -> SUBSET Ours] /\ routes' \subseteq FamilySet
    BY <2>1, <2>3 DEF Perform, Put, WellFormed
  <2> QED
    BY <2>1, <2>2, <2>4 DEF WellFormed
<1>5. CASE SendPolicy
  BY <1>5 DEF SendPolicy, kernel, WellFormed
<1>6. CASE Interfere
  <2>1. \A f \in FamilySet : RulesOf(f) \subseteq Ours
    BY DEF RulesOf
  <2>2. rules' \in [FamilySet -> SUBSET Ours] /\ routes' \subseteq FamilySet
    BY <1>6, <2>1 DEF Interfere, Put, WellFormed
  <2> QED
    BY <1>6, <2>2 DEF Interfere, WellFormed
<1>7. CASE UNCHANGED vars
  BY <1>7 DEF vars, WellFormed
<1> QED
  BY <1>1, <1>2, <1>3, <1>4, <1>5, <1>6, <1>7 DEF Next, Enforcer, Disturbance

\* Whatever other programs do, only our rules and families are in the tables, and
\* the requests the enforcer has left are those apply_routing makes for its policy.
THEOREM WellFormedness == Spec => []WellFormed
<1>1. Init => WellFormed
  BY PoliciesAssumption DEF Init, WellFormed, Ours
<1> QED
  BY <1>1, WellFormedStep, PTL DEF Spec

\* What is ahead after a request is made was ahead before it, and vice versa.
LEMMA AheadStep ==
  ASSUME WellFormed, pc = "apply", todo # << >>, todo' = Tail(todo), NEW op, NEW f, NEW r
  PROVE  /\ Ahead(op, f, r)' => Ahead(op, f, r)
         /\ Ahead(op, f, r) => Ahead(op, f, r)' \/ Head(todo) = Request(op, f, r)
<1>1. ASSUME Ahead(op, f, r)' PROVE Ahead(op, f, r)
  <2>1. PICK i \in DOMAIN Tail(todo) : Tail(todo)[i] = Request(op, f, r)
    BY <1>1 DEF Ahead
  <2> QED
    BY <2>1, NextRequest DEF Ahead
<1>2. ASSUME Ahead(op, f, r), Head(todo) # Request(op, f, r) PROVE Ahead(op, f, r)'
  <2>1. PICK i \in DOMAIN todo : todo[i] = Request(op, f, r)
    BY <1>2 DEF Ahead
  <2>2. i - 1 \in DOMAIN Tail(todo) /\ Tail(todo)[i - 1] = Request(op, f, r)
    BY <1>2, <2>1, NextRequest
  <2> QED
    BY <2>2 DEF Ahead
<1> QED
  BY <1>1, <1>2

LEMMA FlushStaysFirst ==
  ASSUME WellFormed, pc = "apply", todo # << >>, NEW p, FlushComesFirst(todo, p)
  PROVE  FlushComesFirst(Tail(todo), p)
<1> SUFFICES ASSUME NEW i \in DOMAIN Tail(todo), Tail(todo)[i].op = "flush", p.engaged,
                    NEW r \in WantedResolvers(p, Tail(todo)[i].family)
             PROVE  \E j \in DOMAIN Tail(todo) :
                      j > i /\ Tail(todo)[j] = Request("add", Tail(todo)[i].family, r)
  BY DEF FlushComesFirst
<1>1. i + 1 \in DOMAIN todo /\ Tail(todo)[i] = todo[i + 1]
  BY NextRequest
<1>2. PICK j \in DOMAIN todo : j > i + 1 /\ todo[j] = Request("add", Tail(todo)[i].family, r)
  BY <1>1 DEF FlushComesFirst
<1>3. i \in Nat /\ j \in Nat
  <2>1. todo \in Seq(PassRequests(policy)) /\ Tail(todo) \in Seq(PassRequests(policy))
    BY NextRequest DEF WellFormed
  <2> QED
    BY <2>1
<1>4. j # 1 /\ j - 1 > i
  <2>1. i >= 1
    BY NextRequest
  <2> QED
    BY <1>2, <1>3, <2>1
<1>5. j - 1 \in DOMAIN Tail(todo) /\ Tail(todo)[j - 1] = todo[j]
  BY <1>4, NextRequest
<1> QED
  BY <1>2, <1>4, <1>5

LEMMA FlushStep ==
  ASSUME WellFormed, pc = "apply", Underway, Flush
  PROVE  Underway'
<1> DEFINE f == Head(todo).family
<1>1. /\ todo # << >> /\ Head(todo).op = "flush" /\ UNCHANGED policy /\ UNCHANGED routes
      /\ todo \in Seq(PassRequests(policy)) /\ policy \in Policies
  BY DEF Flush, Put, kernel, Underway, WellFormed
<1>2. f \in FamilySet /\ Head(todo) = Request("flush", f, "resolvers")
  BY <1>1, NextRequest, RequestTyped
<1> HIDE DEF f
<1>3. CASE rules[f] \cap Resolvers = {}
  <2>1. todo' = Tail(todo) /\ UNCHANGED rules
    BY <1>3 DEF Flush, kernel, f
  <2>2. todo' \in Seq(PassRequests(policy')) /\ FlushComesFirst(todo', policy')
    BY <1>1, <2>1, NextRequest, FlushStaysFirst DEF Underway
  <2>3. ASSUME NEW g \in FamilySet PROVE RulesDone(policy, g)' /\ RouteDone(policy, g)'
    <3>1. RulesDone(policy, g) /\ RouteDone(policy, g)
      BY DEF Underway
    <3>2. \A op, r : Ahead(op, g, r) /\ ~(g = f /\ op = "flush") => Ahead(op, g, r)'
      <4>1. \A op, r : Request(op, g, r) = Request("flush", f, "resolvers") => g = f /\ op = "flush"
        BY DEF Request
      <4> QED
        BY <1>1, <1>2, <2>1, <4>1, AheadStep
    <3>3. WantedRules(policy, g)' = WantedRules(policy, g)
      BY <1>1
    <3>4. RouteDone(policy, g)'
      BY <1>1, <3>1, <3>2 DEF RouteDone
    <3>5. Ahead("flush", g, "resolvers")' \/ rules'[g] \cap Resolvers \subseteq WantedRules(policy, g)
      BY <1>3, <2>1, <3>1, <3>2 DEF RulesDone
    <3> QED
      BY <1>1, <2>1, <3>1, <3>2, <3>3, <3>4, <3>5 DEF RulesDone
  <2> QED
    BY <2>2, <2>3 DEF Underway
<1>4. CASE rules[f] \cap Resolvers # {}
  <2>1. PICK r \in rules[f] \cap Resolvers :
          rules' = [rules EXCEPT ![f] = @ \ {r}] /\ UNCHANGED todo
    BY <1>4 DEF Flush, Put, f
  <2>2. \A op, g, w : Ahead(op, g, w)' = Ahead(op, g, w)
    BY <2>1 DEF Ahead
  <2>3. \A g \in FamilySet : rules'[g] = IF g = f THEN rules[g] \ {r} ELSE rules[g]
    BY <1>2, <2>1 DEF WellFormed
  <2>4. todo' \in Seq(PassRequests(policy')) /\ FlushComesFirst(todo', policy')
    BY <1>1, <2>1 DEF Underway
  <2>5. r \in WantedRules(policy, f) => Ahead("add", f, r)
    <3> SUFFICES ASSUME r \in WantedRules(policy, f) PROVE Ahead("add", f, r)
      OBVIOUS
    <3>1. r \notin {"suppress", "capture"}
      BY ResolversAssumption
    <3>2. policy.engaged /\ r \in WantedResolvers(policy, f)
      BY <3>1 DEF WantedRules
    <3>3. 1 \in DOMAIN todo /\ todo[1].op = "flush" /\ todo[1].family = f
      BY <1>1, <1>2, NextRequest DEF Request
    <3> QED
      BY <3>2, <3>3 DEF Underway, FlushComesFirst, Ahead
  <2>6. Ahead("flush", f, "resolvers")
    <3>1. 1 \in DOMAIN todo /\ todo[1] = Request("flush", f, "resolvers")
      BY <1>1, <1>2, NextRequest
    <3> QED
      BY <3>1 DEF Ahead
  <2>7. ASSUME NEW g \in FamilySet PROVE RulesDone(policy, g)' /\ RouteDone(policy, g)'
    <3>1. RulesDone(policy, g) /\ RouteDone(policy, g)
      BY DEF Underway
    <3>2. WantedRules(policy, g)' = WantedRules(policy, g)
      BY <1>1
    <3>3. RouteDone(policy, g)'
      BY <1>1, <2>2, <3>1 DEF RouteDone
    <3>4. CASE g = f
      BY <1>1, <2>2, <2>3, <2>5, <2>6, <3>1, <3>2, <3>3, <3>4 DEF RulesDone
    <3>5. CASE g # f
      BY <1>1, <2>2, <2>3, <3>1, <3>2, <3>3, <3>5 DEF RulesDone
    <3> QED
      BY <3>4, <3>5
  <2> QED
    BY <2>4, <2>7 DEF Underway
<1> QED
  BY <1>3, <1>4

LEMMA ApplyStep ==
  ASSUME WellFormed, pc = "apply", Underway, Apply
  PROVE  Underway'
<1> DEFINE h == Head(todo)
           f == h.family
<1>1. /\ todo # << >> /\ h.op # "flush" /\ todo' = Tail(todo) /\ Perform(h) /\ UNCHANGED policy
      /\ todo \in Seq(PassRequests(policy)) /\ policy \in Policies
  BY DEF Apply, Underway, WellFormed
<1>2. todo' \in Seq(PassRequests(policy')) /\ FlushComesFirst(todo', policy')
  BY <1>1, NextRequest, FlushStaysFirst DEF Underway
<1>3. h \in PassRequests(policy) /\ f \in FamilySet
  BY <1>1, NextRequest, RequestTyped
<1>4. \A op, g, r : Ahead(op, g, r) => Ahead(op, g, r)' \/ h = Request(op, g, r)
  BY <1>1, AheadStep
<1>5. \A op, g, r : h = Request(op, g, r) => h.op = op /\ f = g /\ h.rule = r
  BY DEF Request
<1> HIDE DEF h, f
<1>6. \A g : WantedRules(policy, g)' = WantedRules(policy, g)
  BY <1>1
<1>7. \A g \in FamilySet : Ahead("flush", g, "resolvers") => Ahead("flush", g, "resolvers")'
  BY <1>1, <1>4, <1>5
<1>8. ASSUME NEW g \in FamilySet PROVE RulesDone(policy, g)' /\ RouteDone(policy, g)'
  <2>1. RulesDone(policy, g) /\ RouteDone(policy, g)
    BY DEF Underway
  <2>2. CASE h.op = "add"
    <3>1. policy.engaged /\ h.rule \in WantedRules(policy, f)
      BY <1>1, <1>3, <2>2, RequestTyped DEF f
    <3>2. UNCHANGED routes /\ rules' = [rules EXCEPT ![f] = @ \cup {h.rule}]
      BY <1>1, <2>2 DEF Perform, Put, f
    <3>3. rules'[g] = IF g = f THEN rules[g] \cup {h.rule} ELSE rules[g]
      BY <1>3, <3>2 DEF WellFormed
    <3>4. RouteDone(policy, g)'
      BY <1>1, <1>4, <1>5, <2>1, <2>2, <3>1, <3>2 DEF RouteDone
    <3>5. \A r \in WantedRules(policy, g) : Ahead("add", g, r)' \/ r \in rules'[g]
      BY <1>4, <1>5, <2>1, <3>3 DEF RulesDone
    <3>6. Ahead("flush", g, "resolvers")' \/ rules'[g] \cap Resolvers \subseteq WantedRules(policy, g)
      BY <1>7, <2>1, <3>1, <3>3 DEF RulesDone
    <3> QED
      BY <1>1, <1>6, <3>1, <3>4, <3>5, <3>6 DEF RulesDone
  <2>3. CASE h.op = "del"
    <3>1. ~policy.engaged
      BY <1>1, <1>3, <2>3, RequestTyped
    <3>2. UNCHANGED routes /\ rules' = [rules EXCEPT ![f] = @ \ {h.rule}]
      BY <1>1, <2>3 DEF Perform, Put, f
    <3>3. rules'[g] = IF g = f THEN rules[g] \ {h.rule} ELSE rules[g]
      BY <1>3, <3>2 DEF WellFormed
    <3>4. RouteDone(policy, g)'
      BY <1>1, <1>4, <1>5, <2>1, <2>3, <3>1, <3>2 DEF RouteDone
    <3>5. WantedRules(policy, g) = {}
      BY <3>1 DEF WantedRules
    <3>6. Ahead("flush", g, "resolvers")' \/ rules'[g] \cap Resolvers \subseteq WantedRules(policy, g)
      BY <1>7, <2>1, <3>3 DEF RulesDone
    <3>7. \A r \in {"suppress", "capture"} : Ahead("del", g, r)' \/ r \notin rules'[g]
      BY <1>4, <1>5, <2>1, <3>1, <3>3 DEF RulesDone
    <3> QED
      BY <1>1, <1>6, <3>1, <3>4, <3>5, <3>6, <3>7 DEF RulesDone
  <2>4. CASE h.op \in {"replace", "unroute"}
    <3>1. /\ h.op = "replace" => policy.engaged /\ routes' = routes \cup {f}
          /\ h.op = "unroute" => ~policy.engaged /\ routes' = routes \ {f}
      BY <1>1, <1>3, <2>4, RequestTyped DEF Perform, Put, f
    <3>2. UNCHANGED rules
      BY <1>1, <2>4 DEF Perform, Put
    <3>3. RouteDone(policy, g)'
      BY <1>1, <1>4, <1>5, <2>1, <2>4, <3>1 DEF RouteDone
    <3>4. \A r : \A op \in {"add", "del", "flush"} : Ahead(op, g, r) => Ahead(op, g, r)'
      BY <1>4, <1>5, <2>4
    <3> QED
      BY <1>1, <1>6, <2>1, <3>2, <3>3, <3>4 DEF RulesDone
  <2> QED
    BY <1>1, <1>3, <2>2, <2>3, <2>4, RequestTyped
<1> QED
  BY <1>2, <1>8 DEF Underway

\* A pass that has made all its requests has the routing in place.
LEMMA PassEstablishes ==
  ASSUME WellFormed, Underway, todo = << >>
  PROVE  Routed(policy)
<1>1. \A op, f, r : ~Ahead(op, f, r)
  BY DEF Ahead
<1>2. \A f \in FamilySet : RulesDone(policy, f) /\ RouteDone(policy, f)
  BY DEF Underway
<1>3. policy \in Policies /\ policy.engaged \in BOOLEAN
  BY PoliciesAssumption DEF WellFormed
<1>4. ASSUME NEW f \in FamilySet PROVE rules[f] = WantedRules(policy, f)
  <2>1. WantedRules(policy, f) \subseteq rules[f]
    BY <1>1, <1>2 DEF RulesDone
  <2>2. ASSUME NEW r \in rules[f] PROVE r \in WantedRules(policy, f)
    <3>1. r \in Ours
      BY DEF WellFormed
    <3>2. CASE r \in Resolvers
      BY <1>1, <1>2, <3>2 DEF RulesDone
    <3>3. CASE r \in {"suppress", "capture"}
      BY <1>1, <1>2, <3>3 DEF RulesDone, WantedRules
    <3> QED
      BY <3>1, <3>2, <3>3 DEF Ours
  <2> QED
    BY <2>1, <2>2
<1>5. ASSUME NEW f \in FamilySet PROVE (f \in routes) = policy.engaged
  BY <1>1, <1>2, <1>3 DEF RouteDone
<1>6. ASSUME NEW i \in Dumps PROVE DumpedFamily(i) \in FamilySet
  <2>1. (i + 1) \div 2 \in 1..Len(Families)
    BY LenIsNat DEF Dumps
  <2>2. DOMAIN Families = 1..Len(Families)
    BY FamiliesAssumption
  <2> QED
    BY <2>1, <2>2 DEF DumpedFamily, FamilySet
<1> QED
  BY <1>4, <1>5, <1>6 DEF Routed, Matches

LEMMA PassBegins ==
  ASSUME WellFormed, Checked, dirty
  PROVE  Underway'
<1>1. todo' = AllRequests(policy) /\ UNCHANGED <<rules, routes, policy>> /\ policy \in Policies
  BY DEF Checked, kernel, WellFormed
<1>2. todo' \in Seq(PassRequests(policy')) /\ FlushComesFirst(todo', policy')
  BY <1>1, AllRequestsAre
<1>3. \A f \in FamilySet : \A op, r : Request(op, f, r) \in RequestsOf(policy, f) => Ahead(op, f, r)'
  BY <1>1, AllRequestsAre DEF PassRequests, Ahead
<1>4. ASSUME NEW f \in FamilySet PROVE RulesDone(policy, f)' /\ RouteDone(policy, f)'
  <2>1. Ahead("flush", f, "resolvers")'
    BY <1>3 DEF RequestsOf
  <2>2. CASE policy.engaged
    <3>1. \A r \in WantedRules(policy, f) : Ahead("add", f, r)'
      BY <1>3, <2>2 DEF RequestsOf
    <3>2. Ahead("replace", f, "route")'
      BY <1>3, <2>2 DEF RequestsOf
    <3> QED
      BY <1>1, <2>1, <2>2, <3>1, <3>2 DEF RulesDone, RouteDone
  <2>3. CASE ~policy.engaged
    <3>1. \A r \in {"suppress", "capture"} : Ahead("del", f, r)'
      BY <1>3, <2>3 DEF RequestsOf
    <3>2. Ahead("unroute", f, "route")'
      BY <1>3, <2>3 DEF RequestsOf
    <3>3. WantedRules(policy, f) = {}
      BY <2>3 DEF WantedRules
    <3> QED
      BY <1>1, <2>1, <2>3, <3>1, <3>2, <3>3 DEF RulesDone, RouteDone
  <2> QED
    BY <2>2, <2>3
<1> QED
  BY <1>2, <1>4 DEF Underway

LEMMA CalmStep ==
  WellFormed /\ Calm /\ [Next]_vars /\ [~Disturbance]_vars => Calm'
<1> SUFFICES ASSUME WellFormed, Calm, [Next]_vars, [~Disturbance]_vars PROVE Calm'
  OBVIOUS
<1>1. CASE Connect \/ Cooldown \/ Wake
  BY <1>1 DEF Connect, Cooldown, Wake, Calm
<1>2. CASE Begin
  <2>1. \A i \in Dumps : ~(i < 1)
    BY LenIsNat DEF Dumps
  <2>2. pc' = "check" /\ at' = 1 /\ policy' = desired'
    BY <1>2 DEF Begin
  <2>3. (\A i \in Dumps : i < at => Matches(i, policy))'
    BY <2>1, <2>2 DEF Dumps
  <2> QED
    BY <2>2, <2>3 DEF Calm
<1>3. CASE Check
  <2>1. \A i \in Dumps : Matches(i, policy)' = Matches(i, policy)
    BY <1>3 DEF Check, Matches, kernel
  <2>2. /\ pc = "check" /\ pc' = "check" /\ at' = at + 1 /\ UNCHANGED <<desired, policy>>
        /\ at \in Nat \ {0} /\ policy = desired
    BY <1>3 DEF Check, Calm
  <2>3. ASSUME ~dirty', NEW i \in Dumps, i < at' PROVE Matches(i, policy)'
    <3>1. ~dirty /\ Matches(at, policy)
      BY <1>3, <2>3 DEF Check
    <3>2. i < at \/ i = at
      BY <2>2, <2>3, LenIsNat DEF Dumps
    <3>3. i < at => Matches(i, policy)
      BY <2>2, <3>1 DEF Calm
    <3> QED
      BY <2>1, <3>1, <3>2, <3>3
  <2>4. at' \in Nat \ {0}
    BY <2>2
  <2>5. (dirty \/ \A i \in Dumps : i < at => Matches(i, policy))'
    BY <2>3 DEF Dumps
  <2> QED
    BY <2>2, <2>4, <2>5 DEF Calm
<1>4. CASE Checked
  <2>1. /\ pc = "check" /\ at \notin Dumps /\ at \in Nat \ {0} /\ policy = desired
        /\ UNCHANGED <<desired, policy, rules, routes>>
    BY <1>4 DEF Checked, Calm, kernel
  <2>2. CASE dirty
    BY <1>4, <2>1, <2>2, PassBegins DEF Checked, Calm
  <2>3. CASE ~dirty
    <3>1. \A i \in Dumps : i < at
      BY <2>1, LenIsNat DEF Dumps
    <3>2. Routed(policy)
      BY <2>1, <2>3, <3>1 DEF Calm, Routed
    <3>3. Routed(policy)'
      BY <2>1, <3>2 DEF Routed, Matches, Dumps
    <3>4. pc' = "wait"
      BY <1>4, <2>3 DEF Checked
    <3> QED
      BY <2>1, <3>3, <3>4 DEF Calm
  <2> QED
    BY <2>2, <2>3
<1>5. CASE Flush
  BY <1>5, FlushStep DEF Flush, Calm
<1>6. CASE Apply
  BY <1>6, ApplyStep DEF Apply, Calm
<1>7. CASE Deliver \/ UNCHANGED vars
  <2>1. UNCHANGED <<desired, rules, routes, pc, policy, dirty, at, todo>>
    BY <1>7 DEF Deliver, vars
  <2>2. Underway' = Underway
    BY <2>1 DEF Underway, RulesDone, RouteDone, Ahead
  <2>3. \A i \in Dumps : Matches(i, policy)' = Matches(i, policy)
    BY <2>1 DEF Matches
  <2>4. Routed(policy)' = Routed(policy)
    BY <2>1, <2>3 DEF Routed, Dumps
  <2>5. pc' = "check" => (dirty \/ \A i \in Dumps : i < at => Matches(i, policy))'
    BY <2>1, <2>3 DEF Calm, Dumps
  <2> QED
    BY <2>1, <2>2, <2>4, <2>5 DEF Calm
<1> QED
  BY <1>1, <1>2, <1>3, <1>4, <1>5, <1>6, <1>7 DEF Next, Enforcer, vars

LEMMA CompletedIsSettled == WellFormed /\ Calm /\ PassCompleted => Settled
BY PassEstablishes DEF Calm, PassCompleted, Settled

LEMMA SettledStep ==
  WellFormed /\ Calm /\ Settled /\ [Next]_vars /\ [~Disturbance]_vars
    => Settled' /\ UNCHANGED <<rules, routes>>
<1> SUFFICES ASSUME WellFormed, Calm, Settled, [Next]_vars, [~Disturbance]_vars
             PROVE  Settled' /\ UNCHANGED <<rules, routes>>
  OBVIOUS
<1>1. UNCHANGED <<rules, routes, desired>>
  BY DEF Next, Enforcer, Connect, Begin, Check, Checked, Flush, Apply, Cooldown, Wake,
         Deliver, Settled, kernel, vars
<1>2. Routed(desired)'
  BY <1>1 DEF Settled, Routed, Matches, Dumps
<1>3. (pc = "check" => ~dirty)' /\ (pc = "apply" => todo = << >>)'
  <2>1. CASE Check
    BY <2>1 DEF Check, Settled, Routed, Calm
  <2>2. CASE ~Check
    BY <2>2 DEF Next, Enforcer, Connect, Begin, Checked, Flush, Apply, Cooldown, Wake,
           Deliver, Settled, vars
  <2> QED
    BY <2>1, <2>2
<1> QED
  BY <1>1, <1>2, <1>3 DEF Settled

\* The safety half of Converges: when nobody disturbs the enforcer from the
\* beginning of a pass on, the routing is as desired once a pass has looked at
\* everything or made all its requests, and nothing is changed any more.
THEOREM UndisturbedPass ==
  Spec => [](pc \in {"connect", "begin"} /\ [][~Disturbance]_vars =>
               [](PassCompleted => /\ []Routed(desired)
                                   /\ [][UNCHANGED <<rules, routes>>]_vars))
<1>1. WellFormed /\ pc \in {"connect", "begin"} => Calm
  BY DEF Calm
<1>2. Settled => Routed(desired)
  BY DEF Settled
<1> QED
  BY <1>1, <1>2, WellFormedness, CalmStep, CompletedIsSettled, SettledStep, PTL DEF Spec

-----------------------------------------------------------------------------
(* Netfilter: the verdict of a chain, from those of its parts              *)

RuleSet == BOOLEAN \X {"accept", "drop"}

Rules == Seq(RuleSet)

LEMMA RuleTyped ==
  ASSUME NEW c \in BOOLEAN, NEW v \in {"accept", "drop"}
  PROVE  /\ Rule(c, v) \in RuleSet
         /\ Rule(c, v)[1] = c /\ Rule(c, v)[2] = v
BY DEF Rule, RuleSet

LEMMA NoRuleHits ==
  ASSUME NEW chain, NEW o, \A i \in DOMAIN chain : ~chain[i][1]
  PROVE  Verdict(chain, o) = o
BY DEF Verdict

LEMMA FirstHit ==
  ASSUME NEW chain \in Rules, NEW o, NEW i \in DOMAIN chain, chain[i][1],
         \A j \in DOMAIN chain : j < i => ~chain[j][1]
  PROVE  Verdict(chain, o) = chain[i][2]
<1> DEFINE hits == {k \in DOMAIN chain : chain[k][1]}
<1>1. hits \in SUBSET Nat /\ i \in hits
  BY DEF Rules
<1>2. Min(hits) \in hits /\ Min(hits) <= i
  BY <1>1, MinIsSmallest
<1>3. ~(Min(hits) < i)
  BY <1>2
<1>4. Min(hits) = i
  BY <1>1, <1>2, <1>3
<1> QED
  BY <1>1, <1>4 DEF Verdict

\* A chain is judged part by part.
LEMMA ChainedVerdict ==
  ASSUME NEW a \in Rules, NEW b \in Rules, NEW o
  PROVE  /\ a \o b \in Rules
         /\ Verdict(a \o b, o) = Verdict(a, Verdict(b, o))
<1> DEFINE c == a \o b
<1>1. /\ c \in Rules
      /\ Len(a) \in Nat /\ Len(b) \in Nat /\ Len(c) = Len(a) + Len(b)
      /\ DOMAIN a = 1..Len(a) /\ DOMAIN b = 1..Len(b) /\ DOMAIN c = 1..Len(c)
      /\ \A i \in DOMAIN a : i \in DOMAIN c /\ c[i] = a[i]
      /\ \A i \in DOMAIN b : Len(a) + i \in DOMAIN c /\ c[Len(a) + i] = b[i]
      /\ \A i \in DOMAIN c :
           i \in DOMAIN a \/ (i - Len(a) \in DOMAIN b /\ c[i] = b[i - Len(a)])
  <2>1. /\ c \in Rules
        /\ Len(a) \in Nat /\ Len(b) \in Nat /\ Len(c) = Len(a) + Len(b)
        /\ DOMAIN a = 1..Len(a) /\ DOMAIN b = 1..Len(b) /\ DOMAIN c = 1..Len(c)
    BY ConcatProperties, LenProperties DEF Rules
  <2>2. \A i \in 1..Len(a) + Len(b) :
          c[i] = IF i <= Len(a) THEN a[i] ELSE b[i - Len(a)]
    BY ConcatProperties DEF Rules
  <2> HIDE DEF c
  <2>3. ASSUME NEW i \in DOMAIN a PROVE i \in DOMAIN c /\ c[i] = a[i]
    BY <2>1, <2>2
  <2>4. ASSUME NEW i \in DOMAIN b PROVE Len(a) + i \in DOMAIN c /\ c[Len(a) + i] = b[i]
    <3>1. Len(a) + i \in 1..Len(a) + Len(b) /\ ~(Len(a) + i <= Len(a))
      BY <2>1
    <3>2. (Len(a) + i) - Len(a) = i
      BY <2>1
    <3> QED
      BY <2>1, <2>2, <3>1, <3>2
  <2>5. ASSUME NEW i \in DOMAIN c
        PROVE  i \in DOMAIN a \/ (i - Len(a) \in DOMAIN b /\ c[i] = b[i - Len(a)])
    BY <2>1, <2>2
  <2> QED
    BY <2>1, <2>3, <2>4, <2>5
<1> HIDE DEF c
<1> DEFINE InA == \E i \in DOMAIN a : a[i][1]
           InB == \E i \in DOMAIN b : b[i][1]
<1>2. CASE InA
  <2> DEFINE hits == {i \in DOMAIN a : a[i][1]}
  <2>1. hits \in SUBSET Nat /\ hits # {}
    BY <1>1, <1>2
  <2>2. PICK i \in hits : \A j \in hits : i <= j
    BY <2>1, MinIsSmallest
  <2>3. i \in DOMAIN a /\ a[i][1] /\ \A j \in DOMAIN a : j < i => ~a[j][1]
    BY <1>1, <2>2
  <2>4. Verdict(a, Verdict(b, o)) = a[i][2]
    BY <2>3, FirstHit
  <2>5. i \in DOMAIN c /\ c[i] = a[i]
    BY <1>1, <2>3
  <2>6. \A j \in DOMAIN c : j < i => ~c[j][1]
    <3> SUFFICES ASSUME NEW j \in DOMAIN c, j < i PROVE ~c[j][1]
      OBVIOUS
    <3>1. j \in DOMAIN a
      BY <1>1, <2>3
    <3> QED
      BY <1>1, <2>3, <3>1
  <2>7. Verdict(c, o) = c[i][2]
    <3>1. c \in Rules /\ i \in DOMAIN c /\ c[i][1]
      BY <1>1, <2>3, <2>5
    <3> HIDE DEF InA, InB, hits
    <3> QED
      BY <2>6, <3>1, FirstHit
  <2> QED
    BY <1>1, <2>4, <2>5, <2>7 DEF c
<1>3. CASE ~InA /\ InB
  <2> DEFINE hits == {i \in DOMAIN b : b[i][1]}
  <2>1. hits \in SUBSET Nat /\ hits # {}
    BY <1>1, <1>3
  <2>2. PICK i \in hits : \A j \in hits : i <= j
    BY <2>1, MinIsSmallest
  <2>3. i \in DOMAIN b /\ b[i][1] /\ \A j \in DOMAIN b : j < i => ~b[j][1]
    BY <1>1, <2>2
  <2>4. Verdict(a, Verdict(b, o)) = b[i][2]
    BY <1>3, <2>3, FirstHit, NoRuleHits
  <2>5. Len(a) + i \in DOMAIN c /\ c[Len(a) + i] = b[i]
    BY <1>1, <2>3
  <2>6. \A j \in DOMAIN c : j < Len(a) + i => ~c[j][1]
    <3> SUFFICES ASSUME NEW j \in DOMAIN c, j < Len(a) + i PROVE ~c[j][1]
      OBVIOUS
    <3>1. CASE j \in DOMAIN a
      BY <1>1, <1>3, <3>1
    <3>2. CASE j - Len(a) \in DOMAIN b /\ c[j] = b[j - Len(a)]
      <4>1. j - Len(a) < i
        BY <1>1, <2>3
      <4> QED
        BY <2>3, <3>2, <4>1
    <3> QED
      BY <1>1, <3>1, <3>2
  <2>7. Verdict(c, o) = c[Len(a) + i][2]
    <3> DEFINE k == Len(a) + i
    <3>1. c \in Rules /\ k \in DOMAIN c /\ c[k][1]
      BY <1>1, <2>3, <2>5
    <3>2. \A j \in DOMAIN c : j < k => ~c[j][1]
      BY <2>6
    <3> HIDE DEF k, InA, InB, hits
    <3>3. Verdict(c, o) = c[k][2]
      BY <3>1, <3>2, FirstHit
    <3> QED
      BY <3>3 DEF k
  <2> QED
    BY <1>1, <2>4, <2>5, <2>7 DEF c
<1>4. CASE ~InA /\ ~InB
  <2>1. \A j \in DOMAIN c : ~c[j][1]
    BY <1>1, <1>4
  <2>2. Verdict(c, o) = o /\ Verdict(b, o) = o /\ Verdict(a, o) = o
    BY <1>4, <2>1, NoRuleHits
  <2> QED
    BY <1>1, <2>2 DEF c
<1>5. a \o b \in Rules
  BY <1>1 DEF c
<1> HIDE DEF InA, InB
<1> QED
  BY <1>2, <1>3, <1>4, <1>5

\* The rules of a chain one by one.
LEMMA OneRule ==
  ASSUME NEW c \in BOOLEAN, NEW v \in {"accept", "drop"}, NEW o
  PROVE  /\ << Rule(c, v) >> \in Rules
         /\ Verdict(<< Rule(c, v) >>, o) = IF c THEN v ELSE o
<1> DEFINE r == << Rule(c, v) >>
<1>1. r \in Rules /\ DOMAIN r = {1} /\ r[1][1] = c /\ r[1][2] = v
  BY DEF Rule, Rules, RuleSet
<1> HIDE DEF r
<1>2. CASE c
  <2>1. \A j \in DOMAIN r : j < 1 => ~r[j][1]
    BY <1>1
  <2>2. Verdict(r, o) = v
    BY <1>1, <1>2, <2>1, FirstHit
  <2> QED
    BY <1>1, <1>2, <2>2 DEF r
<1>3. CASE ~c
  <2>1. Verdict(r, o) = o
    BY <1>1, <1>3, NoRuleHits
  <2> QED
    BY <1>1, <1>3, <2>1 DEF r
<1> QED
  BY <1>2, <1>3

LEMMA FirstRule ==
  ASSUME NEW r \in RuleSet, NEW rest \in Rules, NEW o
  PROVE  /\ << r >> \o rest \in Rules
         /\ Verdict(<< r >> \o rest, o) = IF r[1] THEN r[2] ELSE Verdict(rest, o)
<1>1. PICK c \in BOOLEAN, v \in {"accept", "drop"} : r = Rule(c, v)
  BY DEF RuleSet, Rule
<1>2. << r >> \in Rules /\ \A x : Verdict(<< r >>, x) = IF c THEN v ELSE x
  BY <1>1, OneRule
<1>3. r[1] = c /\ r[2] = v
  BY <1>1 DEF Rule
<1> QED
  BY <1>2, <1>3, ChainedVerdict

LEMMA TwoRules ==
  ASSUME NEW r1 \in RuleSet, NEW r2 \in RuleSet, NEW o
  PROVE  /\ << r1, r2 >> \in Rules
         /\ Verdict(<< r1, r2 >>, o) =
              IF r1[1] THEN r1[2] ELSE IF r2[1] THEN r2[2] ELSE o
<1> DEFINE s == << r1 >> \o << r2 >>
<1>1. s \in Seq(RuleSet) /\ Len(s) = 2 /\ s[1] = r1 /\ s[2] = r2
  <2> HIDE DEF RuleSet
  <2>1. /\ << r1 >> \in Seq(RuleSet) /\ Len(<< r1 >>) = 1
        /\ << r2 >> \in Seq(RuleSet) /\ Len(<< r2 >>) = 1
    OBVIOUS
  <2> QED
    BY <2>1, ConcatProperties
<1> HIDE DEF s
<1>2. << r1, r2 >> = s
  BY <1>1
<1> USE DEF s
<1>3. PICK c \in BOOLEAN, v \in {"accept", "drop"} : r2 = Rule(c, v)
  BY DEF RuleSet, Rule
<1>4. << r2 >> \in Rules /\ Verdict(<< r2 >>, o) = IF r2[1] THEN r2[2] ELSE o
  BY <1>3, OneRule DEF Rule
<1>5. /\ s \in Rules
      /\ Verdict(s, o) = IF r1[1] THEN r1[2] ELSE Verdict(<< r2 >>, o)
  BY <1>4, FirstRule, Zenon
<1> HIDE DEF s
<1> QED
  BY <1>2, <1>4, <1>5, Zenon

LEMMA ThreeRules ==
  ASSUME NEW r1 \in RuleSet, NEW r2 \in RuleSet, NEW r3 \in RuleSet, NEW o
  PROVE  /\ << r1, r2, r3 >> \in Rules
         /\ Verdict(<< r1, r2, r3 >>, o) =
              IF r1[1] THEN r1[2] ELSE Verdict(<< r2, r3 >>, o)
<1> DEFINE rest == << r2, r3 >>
<1>1. << r1, r2, r3 >> = << r1 >> \o rest
  OBVIOUS
<1>2. rest \in Rules
  BY TwoRules, Zenon
<1> HIDE DEF rest
<1>3. /\ << r1 >> \o rest \in Rules
      /\ Verdict(<< r1 >> \o rest, o) = IF r1[1] THEN r1[2] ELSE Verdict(rest, o)
  BY <1>2, FirstRule
<1> QED
  BY <1>1, <1>3, Zenon DEF rest

LEMMA FourRules ==
  ASSUME NEW r1 \in RuleSet, NEW r2 \in RuleSet, NEW r3 \in RuleSet, NEW r4 \in RuleSet,
         NEW o
  PROVE  /\ << r1, r2, r3, r4 >> \in Rules
         /\ Verdict(<< r1, r2, r3, r4 >>, o) =
              IF r1[1] THEN r1[2] ELSE Verdict(<< r2, r3, r4 >>, o)
<1> DEFINE rest == << r2, r3, r4 >>
<1>1. << r1, r2, r3, r4 >> = << r1 >> \o rest
  OBVIOUS
<1>2. rest \in Rules
  BY ThreeRules, Zenon
<1> HIDE DEF rest
<1>3. /\ << r1 >> \o rest \in Rules
      /\ Verdict(<< r1 >> \o rest, o) = IF r1[1] THEN r1[2] ELSE Verdict(rest, o)
  BY <1>2, FirstRule
<1> QED
  BY <1>1, <1>3, Zenon DEF rest

LEMMA FiveRules ==
  ASSUME NEW r1 \in RuleSet, NEW r2 \in RuleSet, NEW r3 \in RuleSet, NEW r4 \in RuleSet,
         NEW r5 \in RuleSet, NEW o
  PROVE  /\ << r1, r2, r3, r4, r5 >> \in Rules
         /\ Verdict(<< r1, r2, r3, r4, r5 >>, o) =
              IF r1[1] THEN r1[2] ELSE Verdict(<< r2, r3, r4, r5 >>, o)
<1> DEFINE rest == << r2, r3, r4, r5 >>
<1>1. << r1, r2, r3, r4, r5 >> = << r1 >> \o rest
  OBVIOUS
<1>2. rest \in Rules
  BY FourRules, Zenon
<1> HIDE DEF rest
<1>3. /\ << r1 >> \o rest \in Rules
      /\ Verdict(<< r1 >> \o rest, o) = IF r1[1] THEN r1[2] ELSE Verdict(rest, o)
  BY <1>2, FirstRule
<1> QED
  BY <1>1, <1>3, Zenon DEF rest

LEMMA SixRules ==
  ASSUME NEW r1 \in RuleSet, NEW r2 \in RuleSet, NEW r3 \in RuleSet, NEW r4 \in RuleSet,
         NEW r5 \in RuleSet, NEW r6 \in RuleSet, NEW o
  PROVE  /\ << r1, r2, r3, r4, r5, r6 >> \in Rules
         /\ Verdict(<< r1, r2, r3, r4, r5, r6 >>, o) =
              IF r1[1] THEN r1[2] ELSE Verdict(<< r2, r3, r4, r5, r6 >>, o)
<1> DEFINE rest == << r2, r3, r4, r5, r6 >>
<1>1. << r1, r2, r3, r4, r5, r6 >> = << r1 >> \o rest
  OBVIOUS
<1>2. rest \in Rules
  BY FiveRules, Zenon
<1> HIDE DEF rest
<1>3. /\ << r1 >> \o rest \in Rules
      /\ Verdict(<< r1 >> \o rest, o) = IF r1[1] THEN r1[2] ELSE Verdict(rest, o)
  BY <1>2, FirstRule
<1> QED
  BY <1>1, <1>3, Zenon DEF rest

\* tunnel_ingress
LEMMA IngressVerdict ==
  ASSUME NEW p
  PROVE  Verdict(TunnelIngressChain(p), "accept") =
           IF p.iif = "lo" THEN "accept"
           ELSE IF p.iif = "tun" THEN (IF p.direction = "reply" THEN "accept" ELSE "drop")
           ELSE IF p.dst = "tunnel" THEN "drop" ELSE "accept"
<1> DEFINE r1 == Rule(p.iif = "lo", "accept")
           r2 == Rule(p.iif = "tun" /\ p.direction = "reply", "accept")
           r3 == Rule(p.iif = "tun", "drop")
           r4 == Rule(p.dst = "tunnel", "drop")
<1>1. r1 \in RuleSet /\ r2 \in RuleSet /\ r3 \in RuleSet /\ r4 \in RuleSet
  BY RuleTyped DEF RuleSet
<1>2. /\ r1[1] = (p.iif = "lo") /\ r1[2] = "accept"
      /\ r2[1] = (p.iif = "tun" /\ p.direction = "reply") /\ r2[2] = "accept"
      /\ r3[1] = (p.iif = "tun") /\ r3[2] = "drop"
      /\ r4[1] = (p.dst = "tunnel") /\ r4[2] = "drop"
  BY RuleTyped
<1>3. TunnelIngressChain(p) = << r1, r2, r3, r4 >>
  BY DEF TunnelIngressChain
<1> HIDE DEF r1, r2, r3, r4
<1>4. Verdict(<< r3, r4 >>, "accept") =
        IF r3[1] THEN "drop" ELSE IF r4[1] THEN "drop" ELSE "accept"
  BY <1>1, <1>2, TwoRules
<1>5. Verdict(<< r2, r3, r4 >>, "accept") =
        IF r2[1] THEN "accept" ELSE Verdict(<< r3, r4 >>, "accept")
  BY <1>1, <1>2, ThreeRules
<1>6. Verdict(<< r1, r2, r3, r4 >>, "accept") =
        IF r1[1] THEN "accept" ELSE Verdict(<< r2, r3, r4 >>, "accept")
  BY <1>1, <1>2, FourRules
<1> DEFINE v3 == Verdict(<< r3, r4 >>, "accept")
           v2 == Verdict(<< r2, r3, r4 >>, "accept")
           v1 == Verdict(TunnelIngressChain(p), "accept")
<1>7. v1 = IF r1[1] THEN "accept" ELSE v2
  BY <1>3, <1>6, Zenon
<1>8. v2 = IF r2[1] THEN "accept" ELSE v3
  BY <1>5, Zenon
<1>9. v3 = IF r3[1] THEN "drop" ELSE IF r4[1] THEN "drop" ELSE "accept"
  BY <1>4, Zenon
<1>10. /\ r1[1] <=> p.iif = "lo"
       /\ r2[1] <=> p.iif = "tun" /\ p.direction = "reply"
       /\ r3[1] <=> p.iif = "tun"
       /\ r4[1] <=> p.dst = "tunnel"
  BY <1>2
<1> HIDE DEF v1, v2, v3
<1>11. v1 = IF p.iif = "lo" THEN "accept"
            ELSE IF p.iif = "tun" THEN (IF p.direction = "reply" THEN "accept" ELSE "drop")
            ELSE IF p.dst = "tunnel" THEN "drop" ELSE "accept"
  BY <1>7, <1>8, <1>9, <1>10
<1> QED
  BY <1>11 DEF v1

LEMMA RenderedVerdict ==
  ASSUME NEW setting \in BOOLEAN, NEW chain \in Rules
  PROVE  /\ Rendered(setting, chain) \in Rules
         /\ \A o : Verdict(Rendered(setting, chain), o) =
                     IF setting THEN Verdict(chain, o) ELSE o
<1>1. << >> \in Rules
  BY EmptySeq DEF Rules
<1>2. \A o : Verdict(<< >>, o) = o
  BY NoRuleHits
<1> QED
  BY <1>1, <1>2 DEF Rendered

LEMMA OneRendered ==
  ASSUME NEW setting \in BOOLEAN, NEW r \in RuleSet
  PROVE  /\ Rendered(setting, << r >>) \in Rules
         /\ \A o : Verdict(Rendered(setting, << r >>), o) =
                     IF setting /\ r[1] THEN r[2] ELSE o
<1>1. PICK c \in BOOLEAN, v \in {"accept", "drop"} : r = Rule(c, v)
  BY DEF RuleSet, Rule
<1>2. << r >> \in Rules /\ \A o : Verdict(<< r >>, o) = IF r[1] THEN r[2] ELSE o
  BY <1>1, OneRule DEF Rule
<1> QED
  BY <1>2, RenderedVerdict

LEMMA TwoRendered ==
  ASSUME NEW setting \in BOOLEAN, NEW r1 \in RuleSet, NEW r2 \in RuleSet
  PROVE  /\ Rendered(setting, << r1, r2 >>) \in Rules
         /\ \A o : Verdict(Rendered(setting, << r1, r2 >>), o) =
                     IF setting /\ r1[1] THEN r1[2]
                     ELSE IF setting /\ r2[1] THEN r2[2] ELSE o
<1> DEFINE both == << r1, r2 >>
<1>1. /\ both \in Rules
      /\ \A o : Verdict(both, o) = IF r1[1] THEN r1[2] ELSE IF r2[1] THEN r2[2] ELSE o
  BY TwoRules, Zenon
<1> HIDE DEF both
<1>2. /\ Rendered(setting, both) \in Rules
      /\ \A o : Verdict(Rendered(setting, both), o) =
                  IF setting THEN Verdict(both, o) ELSE o
  BY <1>1, RenderedVerdict
<1>3. \A o : Verdict(Rendered(setting, both), o) =
               IF setting /\ r1[1] THEN r1[2]
               ELSE IF setting /\ r2[1] THEN r2[2] ELSE o
  BY <1>1, <1>2
<1> QED
  BY <1>2, <1>3, Zenon DEF both

RulesetTypes == ruleset \in Rulesets \cup {Table("absent"), Table("disengaged")}

LEMMA SettingsAreSet ==
  ASSUME RulesetTypes
  PROVE  /\ ruleset.local_network_access \in BOOLEAN
         /\ ruleset.tailscale_bypass \in BOOLEAN
         /\ ruleset.wireguard_bypass \in BOOLEAN
         /\ ruleset.use_system_dns \in BOOLEAN
<1>1. CASE ruleset \in Rulesets
  BY <1>1 DEF Rulesets
<1>2. ASSUME NEW state, ruleset = Table(state)
      PROVE  /\ ruleset.local_network_access = FALSE
             /\ ruleset.tailscale_bypass = FALSE
             /\ ruleset.wireguard_bypass = FALSE
             /\ ruleset.use_system_dns = FALSE
  BY <1>2 DEF Table
<1> QED
  BY <1>1, <1>2 DEF RulesetTypes

\* The parts of a chain.
LEMMA FourParts ==
  ASSUME NEW a \in Rules, NEW b \in Rules, NEW c \in Rules, NEW d \in Rules, NEW o
  PROVE  /\ ((a \o b) \o c) \o d \in Rules
         /\ Verdict(((a \o b) \o c) \o d, o) =
              Verdict(a, Verdict(b, Verdict(c, Verdict(d, o))))
<1>1. a \o b \in Rules
  BY ChainedVerdict
<1>2. \A x : Verdict(a \o b, x) = Verdict(a, Verdict(b, x))
  BY ChainedVerdict
<1> DEFINE ab == a \o b
<1> HIDE DEF ab
<1>3. ab \in Rules
  BY <1>1 DEF ab
<1>4. ab \o c \in Rules
  BY <1>3, ChainedVerdict
<1>5. \A x : Verdict(ab \o c, x) = Verdict(ab, Verdict(c, x))
  BY <1>3, ChainedVerdict
<1> DEFINE abc == ab \o c
<1> HIDE DEF abc
<1>6. abc \in Rules
  BY <1>4 DEF abc
<1>7. abc \o d \in Rules
  BY <1>6, ChainedVerdict
<1>8. Verdict(abc \o d, o) = Verdict(abc, Verdict(d, o))
  BY <1>6, ChainedVerdict
<1>9. \A x : Verdict(abc, x) = Verdict(a, Verdict(b, Verdict(c, x)))
  BY <1>2, <1>5 DEF ab, abc
<1> QED
  BY <1>7, <1>8, <1>9 DEF ab, abc

\* What the input chain accepts.
LEMMA InputVerdict ==
  ASSUME RulesetTypes, NEW p
  PROVE  /\ p.iif = "lo" \/ p.mark = "fwmark" => Verdict(InputChain(p), "drop") = "accept"
         /\ Verdict(InputChain(p), "drop") = "accept" =>
              \/ p.iif = "lo" \/ p.mark = "fwmark" \/ p.direction = "reply"
              \/ p.l4 \in {"dhcp-response", "router-advert", "redirect",
                           "neighbor-solicit", "neighbor-advert"}
              \/ p.iif = "wg" /\ ruleset.wireguard_bypass
              \/ p.iif = "tailscale0" /\ ruleset.tailscale_bypass
              \/ p.src \in LanSources /\ ruleset.local_network_access
<1> DEFINE r1 == Rule(p.iif = "lo", "accept")
           r2 == Rule(p.mark = "fwmark", "accept")
           r3 == Rule(p.direction = "reply", "accept")
           r4 == DhcpRule(p, "dhcp-response", Addresses, {"linklocal"}, Addresses)
           r5 == NdRule(p, {"router-advert", "redirect"}, {"linklocal"})
           r6 == NdRule(p, {"neighbor-solicit", "neighbor-advert"}, Addresses)
           r7 == Rule(Kind(p.iif) = "wireguard", "accept")
           r8 == Rule(p.iif = "tailscale0", "accept")
           r9 == Rule(p.src \in LanSources, "accept")
           always == << r1, r2, r3, r4, r5, r6 >>
           wireguard == Rendered(ruleset.wireguard_bypass, << r7 >>)
           tailscale == Rendered(ruleset.tailscale_bypass, << r8 >>)
           lan == Rendered(ruleset.local_network_access, << r9 >>)
<1>1. InputChain(p) = ((always \o wireguard) \o tailscale) \o lan
  BY DEF InputChain
<1>2. /\ r1 \in RuleSet /\ r1[2] = "accept" /\ (r1[1] <=> p.iif = "lo")
      /\ r2 \in RuleSet /\ r2[2] = "accept" /\ (r2[1] <=> p.mark = "fwmark")
      /\ r3 \in RuleSet /\ r3[2] = "accept" /\ (r3[1] <=> p.direction = "reply")
      /\ r7 \in RuleSet /\ r7[2] = "accept" /\ (r7[1] <=> Kind(p.iif) = "wireguard")
      /\ r8 \in RuleSet /\ r8[2] = "accept" /\ (r8[1] <=> p.iif = "tailscale0")
      /\ r9 \in RuleSet /\ r9[2] = "accept" /\ (r9[1] <=> p.src \in LanSources)
  <2>1. r1 \in RuleSet /\ r1[2] = "accept" /\ (r1[1] <=> p.iif = "lo")
    BY RuleTyped
  <2>2. r2 \in RuleSet /\ r2[2] = "accept" /\ (r2[1] <=> p.mark = "fwmark")
    BY RuleTyped
  <2>3. r3 \in RuleSet /\ r3[2] = "accept" /\ (r3[1] <=> p.direction = "reply")
    BY RuleTyped
  <2>4. r7 \in RuleSet /\ r7[2] = "accept" /\ (r7[1] <=> Kind(p.iif) = "wireguard")
    BY RuleTyped
  <2>5. r8 \in RuleSet /\ r8[2] = "accept" /\ (r8[1] <=> p.iif = "tailscale0")
    BY RuleTyped
  <2>6. r9 \in RuleSet /\ r9[2] = "accept" /\ (r9[1] <=> p.src \in LanSources)
    <3> DEFINE c == p.src \in LanSources
    <3>1. c \in BOOLEAN
      OBVIOUS
    <3> HIDE DEF c
    <3>2. Rule(c, "accept") \in RuleSet /\ Rule(c, "accept")[1] = c
          /\ Rule(c, "accept")[2] = "accept"
      BY <3>1, RuleTyped
    <3> QED
      BY <3>2 DEF c
  <2> QED
    BY <2>1, <2>2, <2>3, <2>4, <2>5, <2>6
<1>3. /\ r4 \in RuleSet /\ r4[2] = "accept" /\ (r4[1] => p.l4 = "dhcp-response")
      /\ r5 \in RuleSet /\ r5[2] = "accept" /\ (r5[1] => p.l4 \in {"router-advert", "redirect"})
      /\ r6 \in RuleSet /\ r6[2] = "accept"
      /\ r6[1] => p.l4 \in {"neighbor-solicit", "neighbor-advert"}
  BY DEF Rule, RuleSet, DhcpRule, NdRule
<1>4. Kind(p.iif) = "wireguard" => p.iif = "wg"
  BY DEF Kind
<1> HIDE DEF r1, r2, r3, r4, r5, r6, r7, r8, r9
<1>5. /\ always \in Rules
      /\ \A o : Verdict(always, o) =
           IF r1[1] \/ r2[1] \/ r3[1] \/ r4[1] \/ r5[1] \/ r6[1] THEN "accept" ELSE o
  <2>0. /\ r1 \in RuleSet /\ r2 \in RuleSet /\ r3 \in RuleSet
        /\ r4 \in RuleSet /\ r5 \in RuleSet /\ r6 \in RuleSet
    BY <1>2, <1>3
  <2>1. always \in Rules
    BY <2>0, SixRules, Zenon
  <2>2. ASSUME NEW o
        PROVE Verdict(always, o) =
           IF r1[1] \/ r2[1] \/ r3[1] \/ r4[1] \/ r5[1] \/ r6[1] THEN "accept" ELSE o
    <3>1. Verdict(always, o) = IF r1[1] THEN r1[2] ELSE Verdict(<< r2, r3, r4, r5, r6 >>, o)
      <4>1. Verdict(<< r1, r2, r3, r4, r5, r6 >>, o) =
              IF r1[1] THEN r1[2] ELSE Verdict(<< r2, r3, r4, r5, r6 >>, o)
        BY <2>0, SixRules, SMTT(20)
      <4> QED
        BY <4>1, Zenon
    <3>2. Verdict(<< r2, r3, r4, r5, r6 >>, o) =
            IF r2[1] THEN r2[2] ELSE Verdict(<< r3, r4, r5, r6 >>, o)
      BY <2>0, FiveRules
    <3>3. Verdict(<< r3, r4, r5, r6 >>, o) =
            IF r3[1] THEN r3[2] ELSE Verdict(<< r4, r5, r6 >>, o)
      BY <1>2, <1>3, FourRules
    <3>4. Verdict(<< r4, r5, r6 >>, o) = IF r4[1] THEN r4[2] ELSE Verdict(<< r5, r6 >>, o)
      BY <1>2, <1>3, ThreeRules
    <3>5. Verdict(<< r5, r6 >>, o) = IF r5[1] THEN r5[2] ELSE IF r6[1] THEN r6[2] ELSE o
      BY <1>2, <1>3, TwoRules
    <3> HIDE DEF always
    <3> QED
      BY <1>2, <1>3, <3>1, <3>2, <3>3, <3>4, <3>5
  <2> QED
    BY <2>1, <2>2, Zenon
<1>6. /\ wireguard \in Rules
      /\ \A o : Verdict(wireguard, o) =
           IF ruleset.wireguard_bypass /\ r7[1] THEN r7[2] ELSE o
  BY <1>2, SettingsAreSet, OneRendered, Zenon
<1>7. /\ tailscale \in Rules
      /\ \A o : Verdict(tailscale, o) =
           IF ruleset.tailscale_bypass /\ r8[1] THEN r8[2] ELSE o
  BY <1>2, SettingsAreSet, OneRendered, Zenon
<1>8. /\ lan \in Rules
      /\ \A o : Verdict(lan, o) =
           IF ruleset.local_network_access /\ r9[1] THEN r9[2] ELSE o
  BY <1>2, SettingsAreSet, OneRendered, Zenon
<1> HIDE DEF always, wireguard, tailscale, lan
<1>9. Verdict(InputChain(p), "drop") =
        Verdict(always, Verdict(wireguard, Verdict(tailscale, Verdict(lan, "drop"))))
  BY <1>1, <1>5, <1>6, <1>7, <1>8, FourParts
<1> DEFINE accepted ==
      \/ r1[1] \/ r2[1] \/ r3[1] \/ r4[1] \/ r5[1] \/ r6[1]
      \/ ruleset.wireguard_bypass /\ r7[1]
      \/ ruleset.tailscale_bypass /\ r8[1]
      \/ ruleset.local_network_access /\ r9[1]
<1>10. Verdict(InputChain(p), "drop") = IF accepted THEN "accept" ELSE "drop"
  BY <1>2, <1>5, <1>6, <1>7, <1>8, <1>9
<1>11. Verdict(InputChain(p), "drop") = "accept" <=> accepted
  <2> HIDE DEF accepted
  <2> QED
    BY <1>10
<1> QED
  BY <1>2, <1>3, <1>4, <1>11

\* What the kill switch lets out: what no exception of the documentation names
\* stays in, in every combination of the settings.
LEMMA KillSwitchVerdict ==
  ASSUME RulesetTypes, NEW p
  PROVE  /\ p.oif = "lo" \/ p.mark = "fwmark" => Verdict(KillSwitchChain(p), "drop") = "accept"
         /\ Verdict(KillSwitchChain(p), "drop") = "accept" =>
              \/ p.oif = "lo" \/ p.mark = "fwmark" \/ p.oif = "tun"
              \/ p.iif = "tun" /\ p.direction = "reply"
              \/ LocalError(p)
              \/ DestinationExcepted(p)
<1> DEFINE r1 == Rule(p.oif = "lo", "accept")
           r2 == Rule(p.mark = "fwmark", "accept")
           r3 == Rule(p.oif = "tun", "accept")
           r4 == Rule(p.iif = "tun" /\ p.direction = "reply", "accept")
           r5 == Rule(LocalError(p), "accept")
           r6 == Rule(p.dst = "resolver", "drop")
           r7 == Rule(Kind(p.oif) = "wireguard", "accept")
           r8 == Rule(p.oif = "tailscale0", "accept")
           r9 == Rule(p.mark = "tailscale", "accept")
           r12 == Rule(p.l4 = "dns", "drop")
           r13 == LanRule(p)
           r10 == DhcpRule(p, "dhcp-request", {"dhcp"}, Addresses, {"dhcp"})
           r11 == NdRule(p, {"router-solicit", "neighbor-solicit", "neighbor-advert"}, Addresses)
           always == << r1, r2, r3, r4, r5 >>
           resolver == Rendered(~ruleset.use_system_dns, << r6 >>)
           wireguard == Rendered(ruleset.wireguard_bypass, << r7 >>)
           tailscale == Rendered(ruleset.tailscale_bypass, << r8, r9 >>)
           link == << r10, r11 >>
           dns == Rendered(~ruleset.use_system_dns, << r12 >>)
           lan == Rendered(ruleset.local_network_access, << r13 >>)
<1>1. KillSwitchChain(p) =
        (((((always \o resolver) \o wireguard) \o tailscale) \o link) \o dns) \o lan
  BY DEF KillSwitchChain
<1>2. /\ r1 \in RuleSet /\ r1[2] = "accept" /\ (r1[1] <=> p.oif = "lo")
      /\ r2 \in RuleSet /\ r2[2] = "accept" /\ (r2[1] <=> p.mark = "fwmark")
      /\ r3 \in RuleSet /\ r3[2] = "accept" /\ (r3[1] <=> p.oif = "tun")
      /\ r4 \in RuleSet /\ r4[2] = "accept" /\ (r4[1] <=> p.iif = "tun" /\ p.direction = "reply")
      /\ r5 \in RuleSet /\ r5[2] = "accept" /\ (r5[1] <=> LocalError(p))
      /\ r6 \in RuleSet /\ r6[2] = "drop" /\ (r6[1] <=> p.dst = "resolver")
      /\ r7 \in RuleSet /\ r7[2] = "accept" /\ (r7[1] <=> Kind(p.oif) = "wireguard")
      /\ r8 \in RuleSet /\ r8[2] = "accept" /\ (r8[1] <=> p.oif = "tailscale0")
      /\ r9 \in RuleSet /\ r9[2] = "accept" /\ (r9[1] <=> p.mark = "tailscale")
      /\ r12 \in RuleSet /\ r12[2] = "drop" /\ (r12[1] <=> p.l4 = "dns")
      /\ r13 \in RuleSet /\ r13[2] = "accept" /\ (r13[1] <=> p.dst \in LanRanges)
  <2>1. r1 \in RuleSet /\ r1[2] = "accept" /\ (r1[1] <=> p.oif = "lo")
    BY RuleTyped
  <2>2. r2 \in RuleSet /\ r2[2] = "accept" /\ (r2[1] <=> p.mark = "fwmark")
    BY RuleTyped
  <2>3. r3 \in RuleSet /\ r3[2] = "accept" /\ (r3[1] <=> p.oif = "tun")
    BY RuleTyped
  <2>4. r4 \in RuleSet /\ r4[2] = "accept" /\ (r4[1] <=> p.iif = "tun" /\ p.direction = "reply")
    BY RuleTyped
  <2>5. r5 \in RuleSet /\ r5[2] = "accept" /\ (r5[1] <=> LocalError(p))
    <3> DEFINE c == LocalError(p)
    <3>1. c \in BOOLEAN
      BY DEF LocalError
    <3> HIDE DEF c
    <3>2. Rule(c, "accept") \in RuleSet /\ Rule(c, "accept")[1] = c
          /\ Rule(c, "accept")[2] = "accept"
      BY <3>1, RuleTyped
    <3> QED
      BY <3>2 DEF c
  <2>6. r6 \in RuleSet /\ r6[2] = "drop" /\ (r6[1] <=> p.dst = "resolver")
    BY RuleTyped
  <2>7. r7 \in RuleSet /\ r7[2] = "accept" /\ (r7[1] <=> Kind(p.oif) = "wireguard")
    BY RuleTyped
  <2>8. r8 \in RuleSet /\ r8[2] = "accept" /\ (r8[1] <=> p.oif = "tailscale0")
    BY RuleTyped
  <2>9. r9 \in RuleSet /\ r9[2] = "accept" /\ (r9[1] <=> p.mark = "tailscale")
    BY RuleTyped
  <2>10. r12 \in RuleSet /\ r12[2] = "drop" /\ (r12[1] <=> p.l4 = "dns")
    BY RuleTyped
  <2>11. r13 \in RuleSet /\ r13[2] = "accept" /\ (r13[1] <=> p.dst \in LanRanges)
    <3> DEFINE c == p.dst \in LanRanges
    <3>1. c \in BOOLEAN
      BY DEF LocalError
    <3> HIDE DEF c
    <3>2. Rule(c, "accept") \in RuleSet /\ Rule(c, "accept")[1] = c
          /\ Rule(c, "accept")[2] = "accept"
      BY <3>1, RuleTyped
    <3> QED
      BY <3>2 DEF c, LanRule
  <2> QED
    BY <2>1, <2>2, <2>3, <2>4, <2>5, <2>6, <2>7, <2>8, <2>9, <2>10, <2>11
<1>3. /\ r10 \in RuleSet /\ r10[2] = "accept"
      /\ r10[1] => p.l4 = "dhcp-request" /\ p.dst = "dhcp"
      /\ r11 \in RuleSet /\ r11[2] = "accept"
      /\ r11[1] => p.l4 \in {"router-solicit", "neighbor-solicit", "neighbor-advert"}
  BY DEF Rule, RuleSet, DhcpRule, NdRule
<1>4. Kind(p.oif) = "wireguard" => p.oif = "wg"
  BY DEF Kind
<1> HIDE DEF r1, r2, r3, r4, r5, r6, r7, r8, r9, r10, r11, r12, r13
<1>5. /\ always \in Rules
      /\ \A o : Verdict(always, o) =
           IF r1[1] \/ r2[1] \/ r3[1] \/ r4[1] \/ r5[1] THEN "accept" ELSE o
  <2>0. /\ r1 \in RuleSet /\ r2 \in RuleSet /\ r3 \in RuleSet
        /\ r4 \in RuleSet /\ r5 \in RuleSet
    BY <1>2
  <2>1. always \in Rules
    BY <2>0, FiveRules, Zenon
  <2>2. ASSUME NEW o
        PROVE Verdict(always, o) =
           IF r1[1] \/ r2[1] \/ r3[1] \/ r4[1] \/ r5[1] THEN "accept" ELSE o
    <3>1. Verdict(<< r1, r2, r3, r4, r5 >>, o) =
            IF r1[1] THEN r1[2] ELSE Verdict(<< r2, r3, r4, r5 >>, o)
      BY <2>0, FiveRules
    <3>2. Verdict(<< r2, r3, r4, r5 >>, o) =
            IF r2[1] THEN r2[2] ELSE Verdict(<< r3, r4, r5 >>, o)
      BY <2>0, FourRules
    <3>3. Verdict(<< r3, r4, r5 >>, o) = IF r3[1] THEN r3[2] ELSE Verdict(<< r4, r5 >>, o)
      BY <2>0, ThreeRules
    <3>4. Verdict(<< r4, r5 >>, o) = IF r4[1] THEN r4[2] ELSE IF r5[1] THEN r5[2] ELSE o
      BY <2>0, TwoRules
    <3>5. Verdict(always, o) = Verdict(<< r1, r2, r3, r4, r5 >>, o)
      BY Zenon
    <3> HIDE DEF always
    <3> QED
      BY <1>2, <3>1, <3>2, <3>3, <3>4, <3>5
  <2> QED
    BY <2>1, <2>2, Zenon
<1>6. /\ resolver \in Rules
      /\ \A o : Verdict(resolver, o) =
           IF ~ruleset.use_system_dns /\ r6[1] THEN r6[2] ELSE o
  <2> DEFINE set == ~ruleset.use_system_dns
  <2>1. set \in BOOLEAN /\ r6 \in RuleSet
    BY <1>2
  <2> HIDE DEF set
  <2>2. /\ Rendered(set, << r6 >>) \in Rules
        /\ \A o : Verdict(Rendered(set, << r6 >>), o) = IF set /\ r6[1] THEN r6[2] ELSE o
    BY <2>1, OneRendered
  <2> QED
    BY <2>2, Zenon DEF set
<1>7. /\ wireguard \in Rules
      /\ \A o : Verdict(wireguard, o) =
           IF ruleset.wireguard_bypass /\ r7[1] THEN r7[2] ELSE o
  BY <1>2, SettingsAreSet, OneRendered, Zenon
<1>8. /\ dns \in Rules
      /\ \A o : Verdict(dns, o) =
           IF ~ruleset.use_system_dns /\ r12[1] THEN r12[2] ELSE o
  <2> DEFINE set == ~ruleset.use_system_dns
  <2>1. set \in BOOLEAN /\ r12 \in RuleSet
    BY <1>2
  <2> HIDE DEF set
  <2>2. /\ Rendered(set, << r12 >>) \in Rules
        /\ \A o : Verdict(Rendered(set, << r12 >>), o) = IF set /\ r12[1] THEN r12[2] ELSE o
    BY <2>1, OneRendered
  <2> QED
    BY <2>2, Zenon DEF set
<1>9. /\ lan \in Rules
      /\ \A o : Verdict(lan, o) =
           IF ruleset.local_network_access /\ r13[1] THEN r13[2] ELSE o
  BY <1>2, SettingsAreSet, OneRendered, Zenon
<1>10. /\ tailscale \in Rules
       /\ \A o : Verdict(tailscale, o) =
            IF ruleset.tailscale_bypass /\ r8[1] THEN r8[2]
            ELSE IF ruleset.tailscale_bypass /\ r9[1] THEN r9[2] ELSE o
  <2>1. r8 \in RuleSet /\ r9 \in RuleSet /\ ruleset.tailscale_bypass \in BOOLEAN
    BY <1>2, SettingsAreSet
  <2> QED
    BY <2>1, TwoRendered, Zenon
<1>11. /\ link \in Rules
       /\ \A o : Verdict(link, o) =
            IF r10[1] THEN r10[2] ELSE IF r11[1] THEN r11[2] ELSE o
  BY <1>3, TwoRules, Zenon
<1> HIDE DEF always, resolver, wireguard, tailscale, link, dns, lan
<1>12. Verdict(KillSwitchChain(p), "drop") =
         Verdict(always, Verdict(resolver, Verdict(wireguard, Verdict(tailscale,
           Verdict(link, Verdict(dns, Verdict(lan, "drop")))))))
  <2>1. /\ always \in Rules /\ resolver \in Rules /\ wireguard \in Rules
        /\ tailscale \in Rules /\ link \in Rules /\ dns \in Rules /\ lan \in Rules
    BY <1>5, <1>6, <1>7, <1>8, <1>9, <1>10, <1>11
  <2> DEFINE half == ((always \o resolver) \o wireguard) \o tailscale
  <2>2. half \in Rules
    BY <2>1, FourParts
  <2>3. \A o : Verdict(half, o) =
                 Verdict(always, Verdict(resolver, Verdict(wireguard, Verdict(tailscale, o))))
    BY <2>1, FourParts
  <2>4. KillSwitchChain(p) = ((half \o link) \o dns) \o lan
    BY <1>1, Zenon
  <2> HIDE DEF half
  <2>5. Verdict(((half \o link) \o dns) \o lan, "drop") =
          Verdict(half, Verdict(link, Verdict(dns, Verdict(lan, "drop"))))
    BY <2>1, <2>2, FourParts
  <2> QED
    BY <2>3, <2>4, <2>5, Zenon
<1> DEFINE last3 == Verdict(link, Verdict(dns, Verdict(lan, "drop")))
           let3 == r10[1] \/ r11[1] \/ (~(~ruleset.use_system_dns /\ r12[1])
                                        /\ ruleset.local_network_access /\ r13[1])
           let5 == \/ ruleset.wireguard_bypass /\ r7[1]
                   \/ ruleset.tailscale_bypass /\ (r8[1] \/ r9[1])
                   \/ let3
           let7 == \/ r1[1] \/ r2[1] \/ r3[1] \/ r4[1] \/ r5[1]
                   \/ ~(~ruleset.use_system_dns /\ r6[1]) /\ let5
<1>13. last3 = IF let3 THEN "accept" ELSE "drop"
  BY <1>2, <1>3, <1>8, <1>9, <1>11
<1> HIDE DEF last3, let3
<1>14. Verdict(wireguard, Verdict(tailscale, last3)) = IF let5 THEN "accept" ELSE "drop"
  BY <1>2, <1>7, <1>10, <1>13
<1> HIDE DEF let5
<1>15. Verdict(always, Verdict(resolver, Verdict(wireguard, Verdict(tailscale, last3)))) =
         IF let7 THEN "accept" ELSE "drop"
  BY <1>2, <1>5, <1>6, <1>14
<1>16. Verdict(KillSwitchChain(p), "drop") = "accept" <=> let7
  <2> HIDE DEF let7
  <2> QED
    BY <1>12, <1>15 DEF last3
<1>17. CASE let7
  BY <1>2, <1>3, <1>4, <1>16, <1>17 DEF let3, let5, DestinationExcepted, Discovery
<1>18. CASE ~let7
  BY <1>2, <1>16, <1>18
<1> QED
  BY <1>17, <1>18

-----------------------------------------------------------------------------
(* Netfilter: its inductive invariant                                      *)

FilterTypes ==
  /\ RulesetTypes
  /\ flow \in FlowType
  /\ ct \in [opener : Sides \cup {"none"}, mark : {"none", "fwmark"}]
  /\ exempt \in BOOLEAN

OnLoopback == flow.remote = "self" /\ flow.local # "inside"

\* Conntrack remembers the exemption of a flow, except on the loopback device,
\* where no rule needs it.
ExemptionIsMarked == exempt => ct.mark = "fwmark" \/ OnLoopback

FilterInv ==
  /\ FilterTypes /\ ExemptionIsMarked
  /\ EgressIsDocumented /\ IngressIsSolicited
  /\ TunnelIsNotImpersonated /\ ExemptFlowsPass

\* What the rules see of a packet.
LEMMA PacketSeen ==
  ASSUME FilterTypes, NEW way \in Sides, NEW error \in BOOLEAN, NEW iif, NEW oif, NEW mark,
         NEW p, p = Packet(way, error, iif, oif, mark), NEW q, q = MarkRestored(p)
  PROVE  /\ p.iif = iif /\ p.dst = q.dst /\ p.direction = Direction(way)
         /\ q.way = way /\ q.iif = iif /\ q.oif = oif /\ q.related = error
         /\ q.direction = Direction(way)
         /\ Present /\ ct.mark = "fwmark" => q.mark = "fwmark"
         /\ q.l4 # "arp"
         /\ q.dst = "tunnel" => way = "in"
<1>1. /\ p.way = way /\ p.iif = iif /\ p.oif = oif /\ p.related = error
      /\ p.direction = Direction(way) /\ p.l4 = L4(way, error)
      /\ p.dst = IF way = "out" THEN flow.remote ELSE LocalAddress
  BY DEF Packet
<1>2. q = p \/ q = [p EXCEPT !.mark = "fwmark"]
  BY DEF MarkRestored
<1>3. /\ q.way = p.way /\ q.iif = p.iif /\ q.oif = p.oif /\ q.related = p.related
      /\ q.direction = p.direction /\ q.l4 = p.l4 /\ q.dst = p.dst
  BY <1>2 DEF Packet
<1>4. Present /\ ct.mark = "fwmark" => q.mark = "fwmark"
  BY DEF MarkRestored, Packet
<1>5. /\ flow.l4 \in {"data", "dns", "dhcp"} \cup Discovery
      /\ flow.remote # "tunnel"
  BY DEF FilterTypes, FlowType
<1>6. L4(way, error) # "arp"
  BY <1>5 DEF L4, Discovery
<1>7. p.dst = "tunnel" => way = "in"
  BY <1>1, <1>5 DEF Sides
<1> QED
  BY <1>1, <1>3, <1>4, <1>6, <1>7

LEMMA RepliesAreToOpener ==
  ASSUME FilterTypes, NEW way \in Sides, Direction(way) = "reply"
  PROVE  ct.opener \in Sides \ {way}
BY DEF FilterTypes, Direction

\* A packet that passes leaves the opener of its flow alone; one that does not
\* leaves everything alone.
LEMMA Tracking ==
  ASSUME FilterTypes, NEW p, p.way \in Sides, NEW accepted \in BOOLEAN,
         NEW saved \in BOOLEAN, Track(p, accepted, saved)
  PROVE  /\ FilterTypes'
         /\ UNCHANGED <<ruleset, flow>>
         /\ last'.packet = p
         /\ last'.verdict = "accept" <=> accepted
         /\ last'.verdict = "drop" <=> ~accepted
         /\ ct.opener # "none" => ct'.opener = ct.opener
         /\ ~accepted => UNCHANGED <<ct, exempt>>
         /\ ExemptionIsMarked /\ (Engaged /\ p.mark = "fwmark" => saved \/ OnLoopback)
              => ExemptionIsMarked'
<1>1. UNCHANGED <<ruleset, flow>>
  BY DEF Track
<1>2. /\ last'.packet = p
      /\ last'.verdict = "accept" <=> accepted
      /\ last'.verdict = "drop" <=> ~accepted
  BY DEF Track
<1>3. CASE accepted /\ Tracked
  <2>1. /\ ct' = [opener |-> IF ct.opener = "none" THEN p.way ELSE ct.opener,
                  mark |-> IF saved /\ p.mark = "fwmark" THEN "fwmark" ELSE ct.mark]
        /\ exempt' = IF ct.opener = "none" THEN Engaged /\ p.mark = "fwmark" ELSE exempt
    BY <1>3 DEF Track
  <2>2. /\ ct' \in [opener : Sides \cup {"none"}, mark : {"none", "fwmark"}]
        /\ exempt' \in BOOLEAN
    BY <2>1 DEF FilterTypes, Engaged
  <2>3. FilterTypes'
    BY <1>1, <2>2 DEF FilterTypes, RulesetTypes, Table, Rulesets, FlowType
  <2>4. /\ ct.opener # "none" => ct'.opener = ct.opener
        /\ ct'.mark = IF saved /\ p.mark = "fwmark" THEN "fwmark" ELSE ct.mark
    BY <2>1
  <2>5. ExemptionIsMarked /\ (Engaged /\ p.mark = "fwmark" => saved \/ OnLoopback)
          => ExemptionIsMarked'
    BY <1>1, <2>1, <2>4 DEF ExemptionIsMarked, OnLoopback
  <2> QED
    BY <1>1, <1>2, <1>3, <2>3, <2>4, <2>5
<1>4. CASE ~(accepted /\ Tracked)
  <2>1. UNCHANGED <<ct, exempt>>
    BY <1>4 DEF Track
  <2>2. FilterTypes' /\ (ExemptionIsMarked => ExemptionIsMarked')
    BY <1>1, <2>1
       DEF FilterTypes, RulesetTypes, Table, Rulesets, FlowType, ExemptionIsMarked, OnLoopback
  <2> QED
    BY <1>1, <1>2, <1>4, <2>1, <2>2
<1> QED
  BY <1>3, <1>4

\* A packet that is judged so keeps the invariant.
LEMMA PacketJudged ==
  ASSUME FilterInv, NEW p, p.way \in Sides, NEW accepted \in BOOLEAN,
         NEW saved \in BOOLEAN, Track(p, accepted, saved),
         Engaged /\ p.mark = "fwmark" => saved \/ OnLoopback,
         Engaged /\ accepted /\ p.oif \in Devices \ {"lo", "tun"} =>
           \/ p.mark = "fwmark"
           \/ p.iif = "tun" /\ flow.local = "inside" /\ ct.opener = "out"
           \/ LocalError(p) /\ ct.opener # "none"
           \/ DestinationExcepted(p),
         Engaged /\ accepted /\ p.oif = "host" /\ p.iif # "lo" =>
           \/ p.mark = "fwmark"
           \/ ct.opener = "out"
           \/ p.l4 \in {"dhcp-response"} \cup (Discovery \ {"router-solicit"})
           \/ p.iif = "wg" /\ ruleset.wireguard_bypass
           \/ p.iif = "tailscale0" /\ ruleset.tailscale_bypass
           \/ p.src \in LanSources /\ ruleset.local_network_access,
         Engaged /\ accepted /\ p.iif = "tun" => ct.opener = "out",
         Engaged /\ accepted /\ p.dst = "tunnel" =>
           p.l4 # "arp" /\ p.iif \in {"none", "tun", "lo"},
         exempt /\ ~accepted => p.iif = "tun" \/ p.dst = "tunnel"
  PROVE  FilterInv'
<1>1. /\ FilterTypes' /\ ExemptionIsMarked'
      /\ UNCHANGED <<ruleset, flow>>
      /\ last'.packet = p
      /\ last'.verdict = "accept" <=> accepted
      /\ last'.verdict = "drop" <=> ~accepted
      /\ ct.opener # "none" => ct'.opener = ct.opener
      /\ ~accepted => UNCHANGED <<ct, exempt>>
  BY Tracking DEF FilterInv
<1>2. Engaged' = Engaged
  BY <1>1 DEF Engaged
<1>3. EgressIsDocumented'
  BY <1>1, <1>2 DEF EgressIsDocumented, Passed, LocalError, DestinationExcepted
<1>4. IngressIsSolicited'
  BY <1>1, <1>2 DEF IngressIsSolicited, HostIsSolicited, ExitOpensNothing, Passed
<1>5. TunnelIsNotImpersonated'
  BY <1>1, <1>2 DEF TunnelIsNotImpersonated, Passed
<1>6. ExemptFlowsPass'
  BY <1>1 DEF ExemptFlowsPass
<1> QED
  BY <1>1, <1>3, <1>4, <1>5, <1>6 DEF FilterInv

\* The host sends.
LEMMA SendStep ==
  ASSUME FilterInv, NEW way \in Sides, NEW error \in BOOLEAN, NEW oif \in Devices,
         NEW mark \in Marks, Send(way, error, oif, mark)
  PROVE  FilterInv'
<1> DEFINE arrived == Packet(way, error, "none", oif, mark)
           p == MarkRestored(arrived)
<1>1. /\ p.way \in Sides /\ p.iif = "none" /\ p.oif = oif /\ p.related = error
      /\ Present /\ ct.mark = "fwmark" => p.mark = "fwmark"
      /\ p.l4 # "arp"
  BY PacketSeen DEF FilterInv
<1>2. Track(p, Emitted(p), Present) /\ ErrorIsAboutFlow(error) /\ Plausible(oif)
  BY DEF Send
<1> HIDE DEF arrived, p
<1>3. Emitted(p) \in BOOLEAN /\ Present \in BOOLEAN /\ (Engaged => Present)
  BY DEF Emitted, Present, Engaged
<1>4. Engaged /\ Emitted(p) =>
        \/ p.oif = "lo" \/ p.mark = "fwmark" \/ p.oif = "tun"
        \/ LocalError(p) \/ DestinationExcepted(p)
  BY <1>1, KillSwitchVerdict DEF FilterInv, FilterTypes, Emitted
<1>5. LocalError(p) => ct.opener # "none"
  BY <1>1, <1>2 DEF LocalError, ErrorIsAboutFlow
<1>6. exempt /\ ~Emitted(p) => FALSE
  <2>1. CASE ct.mark = "fwmark"
    BY <1>1, <1>3, <2>1, KillSwitchVerdict DEF FilterInv, FilterTypes, Emitted
  <2>2. CASE OnLoopback
    <3>1. p.oif = "lo"
      BY <1>1, <1>2, <2>2 DEF OnLoopback, Plausible
    <3> QED
      BY <3>1, KillSwitchVerdict DEF FilterInv, FilterTypes, Emitted
  <2> QED
    BY <2>1, <2>2 DEF FilterInv, ExemptionIsMarked
<1>7. p.oif # "host"
  BY <1>1 DEF Devices
<1> DEFINE accepted == Emitted(p)
<1>8. accepted \in BOOLEAN /\ Track(p, accepted, Present)
  BY <1>2, <1>3
<1>9. /\ Engaged /\ accepted =>
           \/ p.oif = "lo" \/ p.mark = "fwmark" \/ p.oif = "tun"
           \/ LocalError(p) \/ DestinationExcepted(p)
      /\ exempt /\ ~accepted => FALSE
  BY <1>4, <1>6
<1> HIDE DEF accepted
<1> QED
  BY <1>1, <1>3, <1>5, <1>7, <1>8, <1>9, PacketJudged

\* The host receives.
LEMMA ReceiveStep ==
  ASSUME FilterInv, NEW error \in BOOLEAN, NEW iif \in Devices, NEW mark \in Marks,
         Receive(error, iif, mark)
  PROVE  FilterInv'
<1> DEFINE arrived == Packet("in", error, iif, "host", mark)
           p == MarkRestored(arrived)
           accepted == AdmittedAtIngress(arrived) /\ Admitted(p)
           saved == Engaged /\ iif # "lo"
<1>0. FilterTypes /\ "in" \in Sides
  BY DEF FilterInv, Sides
<1>1. /\ arrived.iif = iif /\ arrived.dst = p.dst /\ arrived.direction = Direction("in")
      /\ p.way = "in" /\ p.iif = iif /\ p.oif = "host" /\ p.direction = Direction("in")
      /\ Present /\ ct.mark = "fwmark" => p.mark = "fwmark"
      /\ p.l4 # "arp"
  BY <1>0, PacketSeen
<1>2. Track(p, accepted, saved) /\ Plausible(iif) /\ flow.local # "inside"
  BY DEF Receive
<1> HIDE DEF arrived, p
<1>3. accepted \in BOOLEAN /\ saved \in BOOLEAN /\ (Engaged => Present)
  BY DEF AdmittedAtIngress, Admitted, Present, Engaged
<1>4. Direction("in") = "reply" => ct.opener = "out"
  BY <1>0, RepliesAreToOpener DEF Sides
<1>5. iif = "lo" => OnLoopback
  BY <1>2 DEF Plausible, OnLoopback
<1>6. Engaged /\ accepted =>
        \/ p.iif = "lo" \/ p.mark = "fwmark" \/ ct.opener = "out"
        \/ p.l4 \in {"dhcp-response"} \cup (Discovery \ {"router-solicit"})
        \/ p.iif = "wg" /\ ruleset.wireguard_bypass
        \/ p.iif = "tailscale0" /\ ruleset.tailscale_bypass
        \/ p.src \in LanSources /\ ruleset.local_network_access
  <2>1. Engaged /\ accepted => Verdict(InputChain(p), "drop") = "accept"
    BY DEF Admitted
  <2> HIDE DEF accepted
  <2> QED
    BY <1>0, <1>1, <1>4, <2>1, InputVerdict DEF FilterTypes, Discovery
<1>7. Engaged /\ accepted =>
        \/ p.iif = "lo"
        \/ p.iif = "tun" /\ ct.opener = "out"
        \/ p.iif # "tun" /\ p.dst # "tunnel"
  <2>1. Engaged /\ accepted => Verdict(TunnelIngressChain(arrived), "accept") = "accept"
    BY DEF AdmittedAtIngress
  <2> HIDE DEF accepted
  <2> QED
    BY <1>1, <1>4, <2>1, IngressVerdict
<1>8. exempt /\ ~accepted => p.iif = "tun" \/ p.dst = "tunnel"
  <2> SUFFICES ASSUME exempt, ~accepted PROVE p.iif = "tun" \/ p.dst = "tunnel"
    OBVIOUS
  <2>1. Engaged
    BY DEF AdmittedAtIngress, Admitted
  <2>2. p.iif = "lo" \/ p.mark = "fwmark"
    BY <1>1, <1>3, <1>2, <2>1 DEF FilterInv, ExemptionIsMarked, OnLoopback, Plausible
  <2>3. Admitted(p)
    BY <1>0, <2>2, InputVerdict DEF FilterTypes, Admitted
  <2>4. Verdict(TunnelIngressChain(arrived), "accept") # "accept"
    BY <2>3 DEF AdmittedAtIngress
  <2> QED
    BY <1>1, <2>4, IngressVerdict
<1>9. "host" \notin Devices
  BY DEF Devices
<1> HIDE DEF accepted
<1>10. Engaged /\ p.mark = "fwmark" => saved \/ OnLoopback
  BY <1>5
<1>11. Track(p, accepted, saved)
  BY <1>2
<1> HIDE DEF saved
<1> QED
  BY <1>0, <1>1, <1>3, <1>6, <1>7, <1>8, <1>9, <1>10, <1>11, PacketJudged

\* A packet of another device passes through.
LEMMA ForwardStep ==
  ASSUME FilterInv, NEW way \in Sides, NEW error \in BOOLEAN, NEW iif \in Devices,
         NEW oif \in Devices, NEW mark \in Marks, Forward(way, error, iif, oif, mark)
  PROVE  FilterInv'
<1> DEFINE arrived == Packet(way, error, iif, oif, mark)
           p == MarkRestored(arrived)
           accepted == AdmittedAtIngress(arrived) /\ Emitted(p)
<1>0. FilterTypes
  BY DEF FilterInv
<1>1. /\ arrived.iif = iif /\ arrived.dst = p.dst /\ arrived.direction = Direction(way)
      /\ p.way = way /\ p.iif = iif /\ p.oif = oif /\ p.related = error
      /\ p.direction = Direction(way)
      /\ Present /\ ct.mark = "fwmark" => p.mark = "fwmark"
      /\ p.l4 # "arp"
  BY <1>0, PacketSeen
<1>2. /\ Track(p, accepted, Present) /\ ErrorIsAboutFlow(error)
      /\ flow.local = "inside" /\ way = "out" => iif = "bridge"
  BY DEF Forward
<1>3. flow.local = "inside" /\ (way = "out" => iif = "bridge")
  BY DEF Forward
<1> HIDE DEF arrived, p
<1>4. accepted \in BOOLEAN /\ Present \in BOOLEAN /\ (Engaged => Present)
  BY DEF AdmittedAtIngress, Emitted, Present, Engaged
<1>5. iif = "tun" => way = "in"
  BY <1>3 DEF Sides
<1>6. iif = "tun" /\ Direction(way) = "reply" => ct.opener = "out"
  BY <1>0, <1>5, RepliesAreToOpener DEF Sides
<1>7. LocalError(p) => ct.opener # "none"
  BY <1>1, <1>2 DEF LocalError, ErrorIsAboutFlow
<1>8. Engaged /\ accepted =>
        \/ p.oif = "lo" \/ p.mark = "fwmark" \/ p.oif = "tun"
        \/ p.iif = "tun" /\ flow.local = "inside" /\ ct.opener = "out"
        \/ LocalError(p) \/ DestinationExcepted(p)
  <2>1. Engaged /\ accepted => Verdict(KillSwitchChain(p), "drop") = "accept"
    BY DEF Emitted
  <2> HIDE DEF accepted
  <2> QED
    BY <1>0, <1>1, <1>3, <1>6, <2>1, KillSwitchVerdict DEF FilterTypes
<1>9. Engaged /\ accepted =>
        \/ p.iif = "lo"
        \/ p.iif = "tun" /\ ct.opener = "out"
        \/ p.iif # "tun" /\ p.dst # "tunnel"
  <2>1. Engaged /\ accepted => Verdict(TunnelIngressChain(arrived), "accept") = "accept"
    BY DEF AdmittedAtIngress
  <2> HIDE DEF accepted
  <2> QED
    BY <1>1, <1>6, <2>1, IngressVerdict
<1>10. exempt /\ ~accepted => p.iif = "tun" \/ p.dst = "tunnel"
  <2> SUFFICES ASSUME exempt, ~accepted PROVE p.iif = "tun" \/ p.dst = "tunnel"
    OBVIOUS
  <2>1. Engaged
    BY DEF AdmittedAtIngress, Emitted
  <2>2. p.mark = "fwmark"
    BY <1>1, <1>3, <1>4, <2>1 DEF FilterInv, ExemptionIsMarked, OnLoopback
  <2>3. Emitted(p)
    BY <1>0, <2>2, KillSwitchVerdict DEF FilterTypes, Emitted
  <2>4. Verdict(TunnelIngressChain(arrived), "accept") # "accept"
    BY <2>3 DEF AdmittedAtIngress
  <2> QED
    BY <1>1, <2>4, IngressVerdict
<1>11. p.oif # "host"
  BY <1>1 DEF Devices
<1>12. Track(p, accepted, Present)
  BY <1>2
<1> HIDE DEF accepted
<1> QED
  BY <1>1, <1>4, <1>7, <1>8, <1>9, <1>10, <1>11, <1>12, PacketJudged

\* A step after which no packet is looked at.
LEMMA NothingSeen ==
  ASSUME FilterTypes', ExemptionIsMarked', last' = Nothing
  PROVE  FilterInv'
<1>1. last'.packet = NoPacket /\ last'.verdict = "none"
  BY DEF Nothing
<1> QED
  BY <1>1
     DEF FilterInv, EgressIsDocumented, IngressIsSolicited, HostIsSolicited,
         ExitOpensNothing, TunnelIsNotImpersonated, ExemptFlowsPass, Passed

\* The other steps.
LEMMA ArpStep ==
  ASSUME FilterInv, NEW target, ArpRequest(target)
  PROVE  FilterInv'
<1>1. UNCHANGED <<ruleset, flow, ct, exempt>>
  BY DEF ArpRequest
<1>2. FilterTypes' /\ ExemptionIsMarked'
  BY <1>1
     DEF FilterInv, FilterTypes, RulesetTypes, Table, Rulesets, FlowType,
         ExemptionIsMarked, OnLoopback
<1>3. last'.packet = [NoPacket EXCEPT !.l4 = "arp", !.iif = "wan", !.dst = target]
  BY DEF ArpRequest
<1>4. /\ last'.packet.l4 = "arp" /\ last'.packet.iif = "wan"
      /\ last'.packet.oif = "none" /\ last'.packet.dst = target
  BY <1>3 DEF NoPacket
<1>5. Engaged /\ target = "tunnel" => last'.verdict = "drop"
  <2>1. Verdict(ArpInputChain(target), "accept") =
          IF target = "tunnel" THEN "drop" ELSE "accept"
    BY OneRule DEF ArpInputChain
  <2> QED
    BY <2>1 DEF ArpRequest
<1>6. Engaged' = Engaged
  BY <1>1 DEF Engaged
<1>7. EgressIsDocumented' /\ IngressIsSolicited'
  BY <1>4
     DEF EgressIsDocumented, IngressIsSolicited, HostIsSolicited, ExitOpensNothing, Devices
<1>8. TunnelIsNotImpersonated' /\ ExemptFlowsPass'
  BY <1>4, <1>5, <1>6 DEF TunnelIsNotImpersonated, ExemptFlowsPass, Passed
<1> QED
  BY <1>2, <1>7, <1>8 DEF FilterInv

LEMMA TableStep ==
  ASSUME FilterInv, Expire \/ ApplyRuleset \/ TableDestroyed
  PROVE  FilterInv'
<1>1. UNCHANGED flow /\ last' = Nothing
  BY DEF Expire, ApplyRuleset, TableDestroyed
<1>2. RulesetTypes'
  BY DEF Expire, ApplyRuleset, TableDestroyed, FilterInv, FilterTypes, RulesetTypes,
         Table, Rulesets
<1>3. \/ UNCHANGED <<ct, exempt>>
      \/ ct' = NoEntry /\ exempt' = FALSE
  BY DEF Expire, ApplyRuleset, TableDestroyed
<1>4. FilterTypes' /\ ExemptionIsMarked'
  <2>1. NoEntry \in [opener : Sides \cup {"none"}, mark : {"none", "fwmark"}]
    BY DEF NoEntry
  <2>2. FilterTypes /\ ExemptionIsMarked
    BY DEF FilterInv
  <2>3. FilterTypes'
    BY <1>1, <1>2, <1>3, <2>1, <2>2 DEF FilterTypes
  <2> QED
    BY <1>1, <1>3, <2>2, <2>3 DEF ExemptionIsMarked, OnLoopback
<1> QED
  BY <1>1, <1>4, NothingSeen

LEMMA FilterBegins == FilterInit => FilterInv
<1> SUFFICES ASSUME FilterInit PROVE FilterInv
  OBVIOUS
<1>1. FilterTypes /\ ExemptionIsMarked
  BY FlowsAreFlows
     DEF FilterInit, FilterTypes, RulesetTypes, NoEntry, ExemptionIsMarked
<1>2. last.packet = NoPacket /\ last.verdict = "none"
  BY DEF FilterInit, Nothing
<1> QED
  BY <1>1, <1>2
     DEF FilterInv, EgressIsDocumented, IngressIsSolicited, HostIsSolicited,
         ExitOpensNothing, TunnelIsNotImpersonated, ExemptFlowsPass, Passed

LEMMA FilterStep == FilterInv /\ [FilterNext]_filterVars => FilterInv'
<1> SUFFICES ASSUME FilterInv, [FilterNext]_filterVars PROVE FilterInv'
  OBVIOUS
<1>1. CASE \E error \in BOOLEAN, mark \in Marks, device \in Devices :
             Receive(error, device, mark)
  BY <1>1, ReceiveStep
<1>2. CASE \E error \in BOOLEAN, mark \in Marks, device \in Devices, way \in Sides :
             Send(way, error, device, mark)
  BY <1>2, SendStep
<1>3. CASE \E error \in BOOLEAN, mark \in Marks, device \in Devices, way \in Sides :
             \E iif \in Devices : Forward(way, error, iif, device, mark)
  BY <1>3, ForwardStep
<1>4. CASE \E target \in {"tunnel", "lan"} : ArpRequest(target)
  BY <1>4, ArpStep
<1>5. CASE Expire \/ ApplyRuleset \/ TableDestroyed
  BY <1>5, TableStep
<1>6. CASE UNCHANGED filterVars
  BY <1>6
     DEF filterVars, FilterInv, FilterTypes, RulesetTypes, Table, Rulesets, FlowType,
         ExemptionIsMarked, OnLoopback, EgressIsDocumented, IngressIsSolicited,
         HostIsSolicited, ExitOpensNothing, TunnelIsNotImpersonated, ExemptFlowsPass,
         Passed, Engaged, LocalError, DestinationExcepted
<1> QED
  BY <1>1, <1>2, <1>3, <1>4, <1>5, <1>6 DEF FilterNext

LEMMA FilterInvariance == FilterSpec => []FilterInv
BY FilterBegins, FilterStep, PTL DEF FilterSpec

\* Enforced, traffic of any flow leaves the machine through the tunnel or by
\* what the documentation lists, whatever routing does and whatever went before.
THEOREM EgressAsDocumented == FilterSpec => []EgressIsDocumented
<1>1. FilterInv => EgressIsDocumented
  BY DEF FilterInv
<1> QED
  BY <1>1, FilterInvariance, PTL

\* Enforced, nothing that was not asked for gets in, and the exit opens no flow.
THEOREM IngressAsSolicited == FilterSpec => []IngressIsSolicited
<1>1. FilterInv => IngressIsSolicited
  BY DEF FilterInv
<1> QED
  BY <1>1, FilterInvariance, PTL

\* The tunnel address is reachable through the tunnel only and cannot be
\* discovered from outside.
THEOREM NobodyIsTheTunnel == FilterSpec => []TunnelIsNotImpersonated
<1>1. FilterInv => TunnelIsNotImpersonated
  BY DEF FilterInv
<1> QED
  BY <1>1, FilterInvariance, PTL

\* A flow that began as exempt stays exempt, through restarts and changes of
\* settings, as long as conntrack knows it.
THEOREM ExemptStaysExempt == FilterSpec => []ExemptFlowsPass
<1>1. FilterInv => ExemptFlowsPass
  BY DEF FilterInv
<1> QED
  BY <1>1, FilterInvariance, PTL
=============================================================================
