--------------------------- MODULE QuicWgConn_proofs ---------------------------
(***************************************************************************)
(* Proofs about the connection to a relay, for any bounds: its liveness    *)
(* checker is right about the network and remembers the slowest pong, and  *)
(* its TCP/TLS transport neither loses nor repeats nor reorders what it    *)
(* takes from the stream and from the queues.                              *)
(***************************************************************************)
EXTENDS TcpTlsTransport, LivenessChecker, SequenceTheorems, FiniteSetTheorems,
        WellFoundedInduction, TLAPS

-----------------------------------------------------------------------------
(* Arithmetic                                                              *)

LEMMA SumWithin ==
  \A m, l, p \in Int : \A a, b \in Nat : m <= l - a /\ b <= a /\ l <= p => m + b <= p
OBVIOUS

LEMMA DistanceShifts ==
  \A k, i, j, m \in Int : (k + j) - (k + i) + 1 <= m => j - i + 1 <= m
OBVIOUS

LEMMA SumShrinks ==
  \A s, m \in Int : \A a, b \in Nat : b <= a /\ s + a <= m => s + b <= m
OBVIOUS

\* Of n elements the first k go, and more than m are left.
LEMMA Surplus ==
  \A k, n, m, p \in Nat :
    k >= 1 /\ n - k > m /\ p <= m
      => m + 1 \in 1..(n - k) /\ p + 1 < k + (m + 1) /\ p + 1 \in 1..n /\ n > p
OBVIOUS

-----------------------------------------------------------------------------
(* Segments                                                                *)

\* A set of natural numbers has a least element.
LEMMA LeastNumber ==
  ASSUME NEW S \in SUBSET Nat, S # {}
  PROVE  \E m \in S : \A k \in S : m <= k
<1>1. \E m \in S : \A k \in S : ~ (<<k, m>> \in OpToRel(<, Nat))
  BY NatLessThanWellFounded, WFMin
<1>2. PICK m \in S : \A k \in S : ~ (<<k, m>> \in OpToRel(<, Nat))
  BY <1>1
<1>3. \A k \in S : ~ (k < m)
  BY <1>2 DEF OpToRel
<1> QED
  BY <1>3

\* An initial segment of 1..n is determined by its size.
LEMMA InitialSegment ==
  ASSUME NEW n \in Nat, NEW T \in SUBSET (1..n), \A k \in T : \A j \in 1..k : j \in T
  PROVE  Cardinality(T) \in 0..n /\ T = 1..Cardinality(T)
<1>1. CASE T = 1..n
  <2>1. Cardinality(1..n) = n
    BY FS_Interval, SMT
  <2> QED
    BY <1>1, <2>1
<1>2. CASE T # 1..n
  <2> DEFINE S == (1..n) \ T
  <2>0. \A k \in T : k \in 1..n
    OBVIOUS
  <2>1. S \in SUBSET Nat /\ S # {}
    <3>1. \A k \in S : k \in Nat
      OBVIOUS
    <3>2. PICK k : ~ (k \in T <=> k \in 1..n)
      BY <1>2
    <3>3. k \in S
      BY <2>0, <3>2
    <3> QED
      BY <3>1, <3>3
  <2>2. PICK m \in S : \A k \in S : m <= k
    BY <2>1, LeastNumber
  <2>3. m \in 1..n /\ m \notin T
    BY <2>2
  <2>4. \A k \in T : k < m
    BY <2>3
  <2>5. \A k \in 1..(m - 1) : k \in T
    BY <2>2, <2>3
  <2>6. T = 1..(m - 1)
    <3>1. \A k \in T : k \in 1..(m - 1)
      BY <2>0, <2>3, <2>4
    <3> QED
      BY <2>5, <3>1
  <2>7. Cardinality(1..(m - 1)) = m - 1
    BY <2>3, FS_Interval, SMT
  <2> QED
    BY <2>3, <2>6, <2>7
<1> QED
  BY <1>1, <1>2

\* So is a final segment.
LEMMA FinalSegment ==
  ASSUME NEW n \in Nat, NEW T \in SUBSET (1..n), \A k \in T : \A j \in k..n : j \in T
  PROVE  Cardinality(T) \in 0..n /\ T = (n - Cardinality(T) + 1)..n
<1>1. CASE T = {}
  <2>1. Cardinality(T) = 0
    BY <1>1, FS_EmptySet
  <2> QED
    BY <1>1, <2>1
<1>2. CASE T # {}
  <2>1. T \in SUBSET Nat
    OBVIOUS
  <2>2. PICK m \in T : \A k \in T : m <= k
    BY <1>2, <2>1, LeastNumber
  <2>3. m \in 1..n
    BY <2>2
  <2>4. T = m..n
    <3>1. \A k \in T : k \in m..n
      BY <2>2, <2>3
    <3>2. \A k \in m..n : k \in T
      BY <2>2
    <3> QED
      BY <3>1, <3>2
  <2>5. Cardinality(m..n) = n - m + 1
    BY <2>3, FS_Interval, SMT
  <2> QED
    BY <2>3, <2>4, <2>5
<1> QED
  BY <1>1, <1>2

-----------------------------------------------------------------------------
(* The TCP/TLS transport                                                   *)

Message == [kind : Kinds, context : Nat]

Read == inbound \in Seq(Message) /\ sent \in Seq(Nat)
Oks ==
  received \in Seq(Nat) /\ queuedOks \in Seq(Nat) /\ oks \in Seq(Nat) /\ confirmed \in Seq(Nat)
Packets ==
  accepted \in Seq(Nat) /\ queue \in Seq(Nat) /\ packet \in Seq(Nat) /\ carried \in Seq(Nat)

\* What the task holds at each place.
InProgress ==
  /\ pc \in {"check", "wait"} => oks = << >> /\ packet = << >>
  /\ pc = "packet" => oks = << >> /\ Len(packet) = 1
  /\ pc = "oks" => oks # << >> /\ packet = << >>

Places ==
  /\ half \in BOOLEAN /\ (half => inbound # << >>)
  /\ receiving \in {"no", "yes", "error"}
  /\ signal \in BOOLEAN
  /\ pc \in {"check", "packet", "oks", "wait", "failed", "aborted"}

Limits == Len(queue) <= MaxQueued /\ offered \in 0..MaxPackets

IInv ==
  /\ Read /\ Oks /\ Packets
  /\ Places /\ InProgress /\ Limits
  /\ ConfirmedInOrder /\ PacketsInOrder /\ NothingIsMisread

LEMMA Bounds == MaxQueued \in Nat /\ MaxPackets \in Nat
BY BoundsAssumption

\* Moving what lies between.
LEMMA AppendToSecond ==
  ASSUME NEW a \in Seq(Nat), NEW b \in Seq(Nat), NEW x \in Nat
  PROVE  a \o Append(b, x) = Append(a \o b, x)
OBVIOUS

LEMMA AppendLast ==
  ASSUME NEW a \in Seq(Nat), NEW b \in Seq(Nat), NEW c \in Seq(Nat), NEW x \in Nat
  PROVE  a \o b \o Append(c, x) = Append(a \o b \o c, x)
<1> DEFINE s == a \o b
<1>1. s \in Seq(Nat)
  OBVIOUS
<1> HIDE DEF s
<1>2. s \o Append(c, x) = Append(s \o c, x)
  BY <1>1, AppendToSecond
<1> QED
  BY <1>2 DEF s

LEMMA OneOver ==
  ASSUME NEW a \in Seq(Nat), NEW b \in Seq(Nat), NEW x \in Nat
  PROVE  Append(a, x) \o b = a \o (<<x>> \o b)
OBVIOUS

LEMMA HeadAndTail ==
  ASSUME NEW b \in Seq(Nat), b # << >>
  PROVE  Head(b) \in Nat /\ Tail(b) \in Seq(Nat) /\ <<Head(b)>> \o Tail(b) = b
OBVIOUS

LEMMA PassHead ==
  ASSUME NEW a \in Seq(Nat), NEW b \in Seq(Nat), NEW c \in Seq(Nat), b # << >>
  PROVE  Append(a, Head(b)) \o Tail(b) \o c = a \o b \o c
<1> DEFINE h == Head(b)
           r == Tail(b)
<1>1. h \in Nat /\ r \in Seq(Nat) /\ <<h>> \o r = b
  BY HeadAndTail
<1> HIDE DEF h, r
<1>2. Append(a, h) \o r = a \o (<<h>> \o r)
  BY <1>1, OneOver
<1>3. Append(a, h) \o r = a \o b
  BY <1>1, <1>2, Zenon
<1>4. Append(a, h) \o r \o c = a \o b \o c
  BY <1>3, Zenon
<1> QED
  BY <1>4 DEF h, r

LEMMA PassOne ==
  ASSUME NEW a \in Seq(Nat), NEW b \in Seq(Nat), b # << >>
  PROVE  a \o <<Head(b)>> \o Tail(b) = a \o << >> \o b
<1> DEFINE h == Head(b)
           r == Tail(b)
<1>1. h \in Nat /\ r \in Seq(Nat) /\ <<h>> \o r = b
  BY HeadAndTail
<1> HIDE DEF h, r
<1>2. Append(a, h) \o r = a \o (<<h>> \o r)
  BY <1>1, OneOver
<1>3. Append(a, h) = a \o <<h>> /\ a \o << >> = a
  BY <1>1, AppendIsConcat, ConcatEmptySeq
<1>4. a \o <<h>> \o r = a \o << >> \o b
  BY <1>1, <1>2, <1>3, Zenon
<1> QED
  BY <1>4 DEF h, r

LEMMA PassAll ==
  ASSUME NEW a \in Seq(Nat), NEW b \in Seq(Nat)
  PROVE  a \o b \o << >> = a \o << >> \o b
OBVIOUS

\* f[k] are the operations among the first k messages.
Collects(f, messages) ==
  /\ f[0] = << >>
  /\ \A k \in 1..Len(messages) : f[k] = WithOp(f[k - 1], messages[k])

LEMMA WithOpIsSeq ==
  ASSUME NEW s \in Seq(Nat), NEW x \in Message
  PROVE  WithOp(s, x) \in Seq(Nat)
BY DEF WithOp, Message

LEMMA CollectsOnce ==
  ASSUME NEW m \in Seq(Message), NEW f, NEW g, Collects(f, m), Collects(g, m)
  PROVE  \A k \in 0..Len(m) : f[k] = g[k]
<1> DEFINE S == {k \in 0..Len(m) : f[k] # g[k]}
<1> SUFFICES ASSUME S # {} PROVE FALSE
  OBVIOUS
<1>1. PICK n \in S : \A k \in S : n <= k
  <2>1. S \in SUBSET Nat
    OBVIOUS
  <2> QED
    BY <2>1, LeastNumber
<1>2. n \in 0..Len(m) /\ f[n] # g[n] /\ Len(m) \in Nat
  OBVIOUS
<1>3. n # 0
  BY <1>2 DEF Collects
<1>4. n \in 1..Len(m) /\ n - 1 \in 0..Len(m) /\ n - 1 < n
  BY <1>2, <1>3
<1>5. f[n - 1] = g[n - 1]
  <2>1. n - 1 \notin S
    <3> HIDE DEF S
    <3> QED
      BY <1>1, <1>4
  <2> QED
    BY <1>4, <2>1
<1> QED
  BY <1>2, <1>4, <1>5 DEF Collects

LEMMA OpsExist ==
  ASSUME NEW m \in Seq(Message)
  PROVE  \E f : f = [k \in 0..Len(m) |-> IF k = 0 THEN << >> ELSE WithOp(f[k - 1], m[k])]
<1> DEFINE Good(n) ==
             \E f : f = [k \in 0..n |-> IF k = 0 THEN << >> ELSE WithOp(f[k - 1], m[k])]
           S == {n \in 0..Len(m) : ~Good(n)}
<1>0. Len(m) \in Nat
  OBVIOUS
<1>1. S = {}
  <2> SUFFICES ASSUME S # {} PROVE FALSE
    OBVIOUS
  <2>1. PICK n \in S : \A k \in S : n <= k
    <3>1. S \in SUBSET Nat
      OBVIOUS
    <3> HIDE DEF S
    <3> QED
      BY <3>1, LeastNumber
  <2>2. n \in 0..Len(m) /\ ~Good(n)
    <3> HIDE DEF Good
    <3> QED
      OBVIOUS
  <2>3. n # 0
    <3>1. [k \in 0..0 |-> << >>] =
            [k \in 0..0 |-> IF k = 0 THEN << >>
                            ELSE WithOp([j \in 0..0 |-> << >>][k - 1], m[k])]
      OBVIOUS
    <3>2. Good(0)
      BY <3>1
    <3>3. n = 0 => (Good(n) <=> Good(0))
      OBVIOUS
    <3> HIDE DEF Good
    <3> QED
      BY <2>2, <3>2, <3>3
  <2>4. n \in Nat /\ n - 1 \in 0..Len(m) /\ n - 1 < n
    BY <2>2, <2>3, <1>0
  <2>5. Good(n - 1)
    <3>1. n - 1 \notin S
      <4> HIDE DEF S
      <4> QED
        BY <2>1, <2>4
    <3> HIDE DEF Good
    <3> QED
      BY <2>4, <3>1
  <2>6. PICK f : f = [k \in 0..(n - 1) |-> IF k = 0 THEN << >> ELSE WithOp(f[k - 1], m[k])]
    BY <2>5
  <2> DEFINE g == [k \in 0..n |-> IF k = 0 THEN << >> ELSE WithOp(f[k - 1], m[k])]
  <2>7. ASSUME NEW k \in 0..n, k # 0 PROVE g[k - 1] = f[k - 1]
    <3>1. k - 1 \in 0..n /\ k - 1 \in 0..(n - 1)
      BY <2>4, <2>7
    <3>2. f[k - 1] = IF k - 1 = 0 THEN << >> ELSE WithOp(f[(k - 1) - 1], m[k - 1])
      BY <2>6, <3>1
    <3> QED
      BY <3>1, <3>2
  <2>8. g = [k \in 0..n |-> IF k = 0 THEN << >> ELSE WithOp(g[k - 1], m[k])]
    BY <2>7
  <2> QED
    BY <2>2, <2>8
<1>2. Good(Len(m))
  <2> HIDE DEF Good
  <2> QED
    BY <1>0, <1>1
<1> QED
  BY <1>2

LEMMA OpsCollected ==
  ASSUME NEW m \in Seq(Message)
  PROVE  \E f : /\ Collects(f, m) /\ OpsOf(m) = f[Len(m)]
                /\ \A k \in 0..Len(m) : f[k] \in Seq(Nat)
<1> DEFINE f == CHOOSE f : f = [k \in 0..Len(m) |-> IF k = 0 THEN << >>
                                                    ELSE WithOp(f[k - 1], m[k])]
           S == {k \in 0..Len(m) : f[k] \notin Seq(Nat)}
<1>0. Len(m) \in Nat /\ \A k \in 1..Len(m) : m[k] \in Message
  OBVIOUS
<1>1. f = [k \in 0..Len(m) |-> IF k = 0 THEN << >> ELSE WithOp(f[k - 1], m[k])]
  BY OpsExist
<1>2. OpsOf(m) = f[Len(m)]
  BY DEF OpsOf
<1> HIDE DEF f
<1>3. Collects(f, m)
  BY <1>0, <1>1 DEF Collects
<1>4. S = {}
  <2> SUFFICES ASSUME S # {} PROVE FALSE
    OBVIOUS
  <2>1. PICK n \in S : \A k \in S : n <= k
    <3>1. S \in SUBSET Nat
      OBVIOUS
    <3> HIDE DEF S
    <3> QED
      BY <3>1, LeastNumber
  <2>2. n \in 0..Len(m) /\ f[n] \notin Seq(Nat)
    OBVIOUS
  <2>3. n # 0
    BY <1>3, <2>2, EmptySeq DEF Collects
  <2>4. n \in 1..Len(m) /\ n - 1 \in 0..Len(m) /\ n - 1 < n
    BY <1>0, <2>2, <2>3
  <2>5. f[n - 1] \in Seq(Nat)
    <3>1. n - 1 \notin S
      <4> HIDE DEF S
      <4> QED
        BY <2>1, <2>4
    <3> QED
      BY <2>4, <3>1
  <2>6. f[n] = WithOp(f[n - 1], m[n])
    BY <1>3, <2>4 DEF Collects
  <2> QED
    BY <1>0, <2>2, <2>4, <2>5, <2>6, WithOpIsSeq
<1> QED
  BY <1>2, <1>3, <1>4

LEMMA OpsOfIsSeq ==
  ASSUME NEW m \in Seq(Message)
  PROVE  OpsOf(m) \in Seq(Nat)
BY OpsCollected

LEMMA OpsOfNone == OpsOf(<< >>) = << >>
<1>1. << >> \in Seq(Message) /\ Len(<< >>) = 0
  OBVIOUS
<1> QED
  BY <1>1, OpsCollected DEF Collects

\* A message more is sent ...
LEMMA OpsOfAppend ==
  ASSUME NEW m \in Seq(Message), NEW x \in Message
  PROVE  OpsOf(Append(m, x)) = WithOp(OpsOf(m), x)
<1> DEFINE a == Append(m, x)
           n == Len(m)
<1>1. a \in Seq(Message) /\ n \in Nat /\ Len(a) = n + 1 /\ a[n + 1] = x
      /\ \A k \in 1..n : a[k] = m[k]
  OBVIOUS
<1> HIDE DEF a
<1>2. PICK f : Collects(f, a) /\ OpsOf(a) = f[Len(a)]
  BY <1>1, OpsCollected
<1>3. PICK g : Collects(g, m) /\ OpsOf(m) = g[n]
  BY OpsCollected
<1>4. Collects(f, m)
  <2>1. \A k \in 1..n : k \in 1..Len(a)
    BY <1>1
  <2> QED
    BY <1>1, <1>2, <2>1 DEF Collects
<1>5. f[n] = OpsOf(m)
  BY <1>1, <1>3, <1>4, CollectsOnce
<1>6. f[n + 1] = WithOp(f[n], x)
  <2>1. n + 1 \in 1..Len(a) /\ (n + 1) - 1 = n
    BY <1>1
  <2> QED
    BY <1>1, <1>2, <2>1 DEF Collects
<1> QED
  BY <1>1, <1>2, <1>5, <1>6 DEF a

\* ... and one is read.
LEMMA OpsOfTail ==
  ASSUME NEW m \in Seq(Message), m # << >>
  PROVE  OpsOf(m) = WithOp(<< >>, Head(m)) \o OpsOf(Tail(m))
<1> DEFINE t == Tail(m)
           n == Len(t)
           a == WithOp(<< >>, Head(m))
<1>1. /\ t \in Seq(Message) /\ n \in Nat /\ Len(m) = n + 1 /\ Head(m) = m[1]
      /\ m[1] \in Message /\ \A k \in 1..n : t[k] = m[k + 1] /\ t[k] \in Message
  OBVIOUS
<1>2. a \in Seq(Nat)
  BY <1>1, EmptySeq, WithOpIsSeq
<1> HIDE DEF t, a
<1>3. PICK f : Collects(f, m) /\ OpsOf(m) = f[Len(m)]
  BY OpsCollected
<1>4. PICK g : Collects(g, t) /\ OpsOf(t) = g[n] /\ \A k \in 0..n : g[k] \in Seq(Nat)
  BY <1>1, OpsCollected
<1> DEFINE S == {k \in 0..n : f[k + 1] # a \o g[k]}
<1>5. S = {}
  <2> SUFFICES ASSUME S # {} PROVE FALSE
    OBVIOUS
  <2>1. PICK k \in S : \A j \in S : k <= j
    <3>1. S \in SUBSET Nat
      BY <1>1
    <3> HIDE DEF S
    <3> QED
      BY <3>1, LeastNumber
  <2>2. k \in 0..n /\ f[k + 1] # a \o g[k]
    OBVIOUS
  <2>3. k # 0
    <3>1. f[1] = a
      <4>1. 1 \in 1..Len(m) /\ 1 - 1 = 0
        BY <1>1
      <4>2. f[1] = WithOp(f[0], m[1])
        BY <1>3, <4>1 DEF Collects
      <4> QED
        BY <1>1, <1>3, <4>2 DEF Collects, a
    <3>2. a \o g[0] = a
      BY <1>2, <1>4, ConcatEmptySeq DEF Collects
    <3> QED
      BY <2>2, <3>1, <3>2
  <2>4. k \in 1..n /\ k - 1 \in 0..n /\ k - 1 < k /\ k + 1 \in 1..Len(m)
        /\ (k + 1) - 1 = k /\ (k - 1) + 1 = k
    BY <1>1, <2>2, <2>3
  <2>5. f[k] = a \o g[k - 1]
    <3>1. k - 1 \notin S
      <4> HIDE DEF S
      <4> QED
        BY <1>1, <2>1, <2>4
    <3> QED
      BY <2>4, <3>1
  <2>6. f[k + 1] = WithOp(f[k], m[k + 1]) /\ g[k] = WithOp(g[k - 1], m[k + 1])
    BY <1>1, <1>3, <1>4, <2>4 DEF Collects
  <2>7. WithOp(a \o g[k - 1], m[k + 1]) = a \o WithOp(g[k - 1], m[k + 1])
    <3>1. g[k - 1] \in Seq(Nat) /\ m[k + 1] \in Message
      BY <1>1, <1>4, <2>4
    <3>2. m[k + 1].context \in Nat
      BY <3>1 DEF Message
    <3>3. Append(a \o g[k - 1], m[k + 1].context) = a \o Append(g[k - 1], m[k + 1].context)
      BY <1>2, <3>1, <3>2, AppendToSecond
    <3>4. CASE IsOp(m[k + 1].kind)
      BY <3>3, <3>4 DEF WithOp
    <3>5. CASE ~IsOp(m[k + 1].kind)
      BY <3>5 DEF WithOp
    <3> QED
      BY <3>4, <3>5
  <2>8. f[k + 1] = WithOp(a \o g[k - 1], m[k + 1])
    BY <2>5, <2>6, Zenon
  <2>9. a \o g[k] = a \o WithOp(g[k - 1], m[k + 1])
    BY <2>6, Zenon
  <2>10. f[k + 1] = a \o g[k]
    BY <2>7, <2>8, <2>9, Zenon
  <2> QED
    BY <2>2, <2>10, Zenon
<1>6. f[n + 1] = a \o g[n]
  <2>1. n \in 0..n
    BY <1>1
  <2> QED
    BY <1>5, <2>1, Zenon
<1> QED
  BY <1>1, <1>3, <1>4, <1>6 DEF t, a

LEMMA Start == Init => IInv
<1> SUFFICES ASSUME Init PROVE IInv
  OBVIOUS
<1>1. Read /\ Oks /\ Packets
  BY EmptySeq DEF Init, Read, Oks, Packets
<1>2. Places /\ InProgress
  BY DEF Init, Places, InProgress
<1>3. Limits
  BY Bounds DEF Init, Limits
<1>4. ConfirmedInOrder /\ PacketsInOrder /\ NothingIsMisread
  BY OpsOfNone DEF Init, ConfirmedInOrder, PacketsInOrder, NothingIsMisread
<1> QED
  BY <1>1, <1>2, <1>3, <1>4 DEF IInv

\* Steps that move nothing.
LEMMA QuietStep ==
  ASSUME IInv, Places', InProgress',
         UNCHANGED <<inbound, sent, received, queuedOks, queue, oks, packet, confirmed, carried,
                     accepted, offered>>
  PROVE  IInv'
<1>1. Read' /\ Oks' /\ Packets'
  BY DEF IInv, Read, Oks, Packets
<1>2. Limits'
  BY DEF IInv, Limits
<1>3. ConfirmedInOrder' /\ PacketsInOrder' /\ NothingIsMisread'
  BY DEF IInv, ConfirmedInOrder, PacketsInOrder, NothingIsMisread
<1> QED
  BY <1>1, <1>2, <1>3 DEF IInv

LEMMA RelaySendsStep ==
  ASSUME IInv, RelaySends
  PROVE  IInv'
<1>1. PICK kind \in Kinds :
        /\ inbound' = Append(inbound, [kind |-> kind, context |-> Len(sent) + 1])
        /\ sent' = IF IsOp(kind) THEN Append(sent, Len(sent) + 1) ELSE sent
  BY DEF RelaySends
<1>2. UNCHANGED <<half, receiving, received, queuedOks, queue, signal, pc, oks, packet,
                  confirmed, carried, accepted, offered>>
  BY DEF RelaySends, reader, queues, task, stream, user
<1>3. Len(sent) + 1 \in Nat
  BY LenProperties DEF IInv, Read
<1>4. [kind |-> kind, context |-> Len(sent) + 1] \in Message
  BY <1>3 DEF Message
<1>5. Read' /\ inbound' # << >>
  BY <1>1, <1>3, <1>4, AppendProperties DEF IInv, Read
<1>6. Oks' /\ Packets'
  BY <1>2 DEF IInv, Oks, Packets
<1>7. Places' /\ InProgress'
  BY <1>2, <1>5 DEF IInv, Places, InProgress
<1>8. Limits' /\ ConfirmedInOrder' /\ PacketsInOrder'
  BY <1>2 DEF IInv, Limits, ConfirmedInOrder, PacketsInOrder
<1>9. NothingIsMisread'
  <2> DEFINE x == [kind |-> kind, context |-> Len(sent) + 1]
  <2>1. OpsOf(inbound') = WithOp(OpsOf(inbound), x) /\ OpsOf(inbound) \in Seq(Nat)
    BY <1>1, <1>4, OpsOfAppend, OpsOfIsSeq DEF IInv, Read
  <2>2. x.kind = kind /\ x.context = Len(sent) + 1
    OBVIOUS
  <2> HIDE DEF x
  <2>3. received \in Seq(Nat) /\ received \o OpsOf(inbound) = sent
    BY DEF IInv, Oks, NothingIsMisread
  <2>4. CASE IsOp(kind)
    <3>1. OpsOf(inbound') = Append(OpsOf(inbound), Len(sent) + 1)
      BY <2>1, <2>2, <2>4 DEF WithOp
    <3>2. received \o Append(OpsOf(inbound), Len(sent) + 1) = Append(sent, Len(sent) + 1)
      BY <1>3, <2>1, <2>3, AppendToSecond
    <3> QED
      BY <1>1, <1>2, <2>4, <3>1, <3>2 DEF NothingIsMisread
  <2>5. CASE ~IsOp(kind)
    BY <1>1, <1>2, <2>1, <2>2, <2>3, <2>5 DEF WithOp, NothingIsMisread
  <2> QED
    BY <2>4, <2>5
<1> QED
  BY <1>5, <1>6, <1>7, <1>8, <1>9 DEF IInv

LEMMA SendStep ==
  ASSUME IInv, Send
  PROVE  IInv'
<1>1. /\ offered' = offered + 1 /\ offered < MaxPackets
      /\ UNCHANGED <<inbound, sent, half, receiving, received, queuedOks, pc, oks, packet,
                     confirmed, carried>>
      /\ signal' = TRUE
  BY DEF Send, Notified, reader, task, stream, IInv, Places
<1>2. offered' \in Nat /\ offered' \in 0..MaxPackets
  BY <1>1, Bounds DEF IInv, Limits
<1>3. Read' /\ Oks' /\ Places' /\ InProgress' /\ ConfirmedInOrder' /\ NothingIsMisread'
  <2>1. Read' /\ Oks'
    BY <1>1 DEF IInv, Read, Oks
  <2>2. Places' /\ InProgress'
    BY <1>1 DEF IInv, Places, InProgress
  <2>3. ConfirmedInOrder' /\ NothingIsMisread'
    BY <1>1 DEF IInv, ConfirmedInOrder, NothingIsMisread
  <2> QED
    BY <2>1, <2>2, <2>3
<1>4. CASE HasRoom
  <2>1. queue' = Append(queue, offered') /\ accepted' = Append(accepted, offered')
    BY <1>4 DEF Send
  <2>2. Packets' /\ Len(queue') = Len(queue) + 1 /\ Len(queue) \in Nat
    BY <1>1, <1>2, <2>1, AppendProperties, LenProperties DEF IInv, Packets
  <2>3. Limits'
    BY <1>2, <1>4, <2>2, Bounds DEF Limits, HasRoom
  <2>4. carried \o packet \o Append(queue, offered') = Append(carried \o packet \o queue, offered')
    <3>1. /\ carried \in Seq(Nat) /\ packet \in Seq(Nat) /\ queue \in Seq(Nat)
          /\ offered' \in Nat
      BY <1>2 DEF IInv, Packets
    <3> QED
      BY <3>1, AppendLast
  <2>5. PacketsInOrder'
    BY <1>1, <2>1, <2>4 DEF IInv, PacketsInOrder
  <2> QED
    BY <1>3, <2>2, <2>3, <2>5 DEF IInv
<1>5. CASE ~HasRoom
  <2>1. UNCHANGED <<queue, accepted>>
    BY <1>5 DEF Send
  <2>2. Packets' /\ Limits' /\ PacketsInOrder'
    BY <1>1, <1>2, <2>1 DEF IInv, Packets, Limits, PacketsInOrder
  <2> QED
    BY <1>3, <2>2 DEF IInv
<1> QED
  BY <1>4, <1>5

LEMMA ReadRestStep ==
  ASSUME IInv, ReadRest
  PROVE  IInv'
<1> DEFINE message == Head(inbound)
<1>1. inbound # << >> /\ inbound' = Tail(inbound)
  BY DEF ReadRest, IInv, Places
<1>2. message \in Message /\ inbound' \in Seq(Message)
  BY <1>1, HeadTailProperties DEF IInv, Read
<1>3. message.context \in Nat /\ message.kind \in Kinds
  BY <1>2 DEF Message
<1>4. /\ received' = IF IsOp(message.kind) THEN Append(received, message.context) ELSE received
      /\ queuedOks' = IF IsOp(message.kind) THEN Append(queuedOks, message.context)
                      ELSE queuedOks
      /\ receiving' = After(message.kind)
      /\ signal' = Notified(IsOp(message.kind))
      /\ half' = FALSE
  BY DEF ReadRest, Confirms
<1> HIDE DEF message
<1>5. UNCHANGED <<sent, queue, pc, oks, packet, confirmed, carried, accepted, offered>>
  BY DEF ReadRest, task, stream, user
<1>6. Read' /\ Oks' /\ Packets'
  BY <1>2, <1>3, <1>4, <1>5, AppendProperties DEF IInv, Read, Oks, Packets
<1>7. Places' /\ InProgress'
  <2>1. After(message.kind) \in {"no", "yes", "error"}
    BY <1>3 DEF After, Kinds
  <2>2. Notified(IsOp(message.kind)) \in BOOLEAN
    BY DEF Notified, IsOp, IInv, Places
  <2> QED
    BY <1>4, <1>5, <2>1, <2>2 DEF IInv, Places, InProgress
<1>8. Limits' /\ PacketsInOrder'
  BY <1>5 DEF IInv, Limits, PacketsInOrder
<1>9. ConfirmedInOrder'
  <2>1. CASE IsOp(message.kind)
    <3>1. confirmed \o oks \o Append(queuedOks, message.context)
            = Append(confirmed \o oks \o queuedOks, message.context)
      <4>1. /\ confirmed \in Seq(Nat) /\ oks \in Seq(Nat) /\ queuedOks \in Seq(Nat)
            /\ message.context \in Nat
        BY <1>3 DEF IInv, Oks
      <4> QED
        BY <4>1, AppendLast
    <3> QED
      BY <1>4, <1>5, <2>1, <3>1 DEF IInv, ConfirmedInOrder
  <2>2. CASE ~IsOp(message.kind)
    BY <1>4, <1>5, <2>2 DEF IInv, ConfirmedInOrder
  <2> QED
    BY <2>1, <2>2
<1>10. NothingIsMisread'
  <2>1. received \in Seq(Nat) /\ received \o OpsOf(inbound) = sent /\ inbound \in Seq(Message)
    BY DEF IInv, Oks, Read, NothingIsMisread
  <2>2. OpsOf(inbound') \in Seq(Nat)
    BY <1>2, OpsOfIsSeq
  <2>3. OpsOf(inbound) = WithOp(<< >>, message) \o OpsOf(inbound')
    BY <1>1, <2>1, OpsOfTail DEF message
  <2>4. CASE IsOp(message.kind)
    <3>1. OpsOf(inbound) = <<message.context>> \o OpsOf(inbound')
      BY <2>3, <2>4 DEF WithOp
    <3>2. Append(received, message.context) \o OpsOf(inbound')
            = received \o (<<message.context>> \o OpsOf(inbound'))
      BY <1>3, <2>1, <2>2, OneOver
    <3> QED
      BY <1>4, <1>5, <2>1, <2>4, <3>1, <3>2 DEF NothingIsMisread
  <2>5. CASE ~IsOp(message.kind)
    <3>1. OpsOf(inbound) = OpsOf(inbound')
      BY <2>2, <2>3, <2>5, ConcatEmptySeq DEF WithOp
    <3> QED
      BY <1>4, <1>5, <2>1, <2>5, <3>1 DEF NothingIsMisread
  <2> QED
    BY <2>4, <2>5
<1> QED
  BY <1>6, <1>7, <1>8, <1>9, <1>10 DEF IInv

LEMMA TakeOksStep ==
  ASSUME IInv, TakeOks
  PROVE  IInv'
<1>1. oks = << >> /\ packet = << >>
  BY DEF TakeOks, IInv, InProgress
<1>2. /\ oks' = queuedOks /\ queuedOks' = << >> /\ queuedOks # << >>
      /\ pc' = "oks" /\ signal' = TRUE
      /\ UNCHANGED <<inbound, sent, half, receiving, received, queue, packet, confirmed, carried,
                     accepted, offered>>
  BY <1>1 DEF TakeOks, Notified, reader, stream, user, IInv, Places
<1>3. Read' /\ Oks' /\ Packets'
  BY <1>2, EmptySeq DEF IInv, Read, Oks, Packets
<1>4. Places' /\ InProgress'
  BY <1>1, <1>2 DEF IInv, Places, InProgress
<1>5. Limits' /\ PacketsInOrder' /\ NothingIsMisread'
  BY <1>2 DEF IInv, Limits, PacketsInOrder, NothingIsMisread
<1>6. confirmed \o queuedOks \o << >> = confirmed \o << >> \o queuedOks
  BY PassAll DEF IInv, Oks
<1>7. ConfirmedInOrder'
  BY <1>1, <1>2, <1>6 DEF IInv, ConfirmedInOrder
<1> QED
  BY <1>3, <1>4, <1>5, <1>7 DEF IInv

LEMMA TakePacketStep ==
  ASSUME IInv, TakePacket
  PROVE  IInv'
<1>1. oks = << >> /\ packet = << >>
  BY DEF TakePacket, IInv, InProgress
<1>2. /\ packet' = <<Head(queue)>> /\ queue' = Tail(queue) /\ queue # << >>
      /\ pc' = "packet" /\ signal' = TRUE
      /\ UNCHANGED <<inbound, sent, half, receiving, received, queuedOks, oks, confirmed, carried,
                     accepted, offered>>
  BY DEF TakePacket, Notified, reader, stream, user, IInv, Places
<1>3. Head(queue) \in Nat /\ Tail(queue) \in Seq(Nat) /\ Len(Tail(queue)) = Len(queue) - 1
      /\ Len(queue) \in Nat
  BY <1>2, HeadTailProperties, LenProperties DEF IInv, Packets
<1>4. packet' \in Seq(Nat) /\ Len(packet') = 1
  BY <1>2, <1>3
<1>5. Read' /\ Oks' /\ Packets'
  BY <1>2, <1>3, <1>4 DEF IInv, Read, Oks, Packets
<1>6. Places' /\ InProgress'
  BY <1>1, <1>2, <1>4 DEF IInv, Places, InProgress
<1>7. Limits'
  BY <1>2, <1>3, Bounds DEF IInv, Limits
<1>8. carried \o <<Head(queue)>> \o Tail(queue) = carried \o << >> \o queue
  BY <1>2, PassOne DEF IInv, Packets
<1>9. ConfirmedInOrder' /\ PacketsInOrder' /\ NothingIsMisread'
  BY <1>1, <1>2, <1>8 DEF IInv, ConfirmedInOrder, PacketsInOrder, NothingIsMisread
<1> QED
  BY <1>5, <1>6, <1>7, <1>9 DEF IInv

LEMMA WritePacketStep ==
  ASSUME IInv, WritePacket
  PROVE  IInv'
<1>1. /\ oks = << >> /\ packet' = << >> /\ carried' = carried \o packet /\ pc' = "check"
      /\ UNCHANGED <<inbound, sent, half, receiving, received, queuedOks, queue, signal, oks,
                     confirmed, accepted, offered>>
  BY DEF WritePacket, IInv, InProgress, reader, queues, user
<1>2. carried' \in Seq(Nat) /\ carried' \o << >> = carried'
  BY <1>1, ConcatProperties, ConcatEmptySeq DEF IInv, Packets
<1>3. Read' /\ Oks' /\ Packets'
  BY <1>1, <1>2, EmptySeq DEF IInv, Read, Oks, Packets
<1>4. Places' /\ InProgress'
  BY <1>1 DEF IInv, Places, InProgress
<1>5. Limits' /\ ConfirmedInOrder' /\ NothingIsMisread'
  BY <1>1 DEF IInv, Limits, ConfirmedInOrder, NothingIsMisread
<1>6. PacketsInOrder'
  BY <1>1, <1>2 DEF IInv, PacketsInOrder
<1> QED
  BY <1>3, <1>4, <1>5, <1>6 DEF IInv

LEMMA WriteOkStep ==
  ASSUME IInv, WriteOk
  PROVE  IInv'
<1>1. oks # << >> /\ packet = << >>
  BY DEF WriteOk, IInv, InProgress
<1>2. /\ oks' = Tail(oks) /\ confirmed' = Append(confirmed, Head(oks))
      /\ pc' = IF Len(oks) = 1 THEN "check" ELSE "oks"
      /\ UNCHANGED <<inbound, sent, half, receiving, received, queuedOks, queue, signal, packet,
                     carried, accepted, offered>>
  BY DEF WriteOk, reader, queues, user
<1>3. Head(oks) \in Nat /\ oks' \in Seq(Nat) /\ Len(oks') = Len(oks) - 1 /\ Len(oks) \in Nat
  BY <1>1, <1>2, HeadTailProperties, LenProperties DEF IInv, Oks
<1>4. Len(oks) = 1 <=> oks' = << >>
  BY <1>3, EmptySeq
<1>5. Read' /\ Oks' /\ Packets'
  BY <1>2, <1>3, AppendProperties DEF IInv, Read, Oks, Packets
<1>6. Places' /\ InProgress'
  BY <1>1, <1>2, <1>4 DEF IInv, Places, InProgress
<1>7. Limits' /\ PacketsInOrder' /\ NothingIsMisread'
  BY <1>2 DEF IInv, Limits, PacketsInOrder, NothingIsMisread
<1>8. Append(confirmed, Head(oks)) \o Tail(oks) \o queuedOks = confirmed \o oks \o queuedOks
  BY <1>1, PassHead DEF IInv, Oks
<1>9. ConfirmedInOrder'
  BY <1>2, <1>8 DEF IInv, ConfirmedInOrder
<1> QED
  BY <1>5, <1>6, <1>7, <1>9 DEF IInv

LEMMA Step == IInv /\ [Next]_vars => IInv'
<1> SUFFICES ASSUME IInv, [Next]_vars PROVE IInv'
  OBVIOUS
<1>1. CASE Receive \/ LetGo \/ ReadPart \/ ReadFails \/ TakeNothing \/ WriteFails \/ Wake \/ Drop
           \/ Dropped \/ UNCHANGED vars
  <2>1. UNCHANGED <<inbound, sent, received, queuedOks, queue, oks, packet, confirmed, carried,
                    accepted, offered>>
    BY <1>1 DEF Receive, LetGo, Kept, ReadPart, ReadFails, TakeNothing, WriteFails, Wake,
                Drop, Dropped, vars, reader, queues, task, stream, user
  <2>2. Places'
    <3>0. Places
      BY DEF IInv
    <3>1. CASE Receive
      BY <3>0, <3>1 DEF Places, Receive, queues, task, stream, user
    <3>2. CASE LetGo
      BY <3>0, <3>2 DEF Places, LetGo, Kept, queues, task, stream, user
    <3>3. CASE ReadPart
      BY <3>0, <3>3 DEF Places, ReadPart, queues, task, stream, user
    <3>9. CASE ReadFails
      BY <3>0, <3>9 DEF Places, ReadFails, queues, task, stream, user
    <3>4. CASE TakeNothing
      BY <3>0, <3>4 DEF Places, TakeNothing, reader, queues, stream, user
    <3>5. CASE WriteFails
      BY <3>0, <3>5 DEF Places, WriteFails, reader, queues, stream, user
    <3>6. CASE Wake
      BY <3>0, <3>6 DEF Places, Wake, reader, stream, user
    <3>7. CASE Drop
      BY <3>0, <3>7 DEF Places, Drop, queues, stream, user
    <3>8. CASE Dropped \/ UNCHANGED vars
      BY <3>0, <3>8 DEF Places, Dropped, vars
    <3> QED
      BY <1>1, <3>1, <3>2, <3>3, <3>4, <3>5, <3>6, <3>7, <3>8, <3>9
  <2>3. pc' \in {pc, "failed", "aborted"} \/ (pc = "check" /\ pc' = "wait")
                                          \/ (pc = "wait" /\ pc' = "check")
    BY <1>1 DEF Receive, LetGo, ReadPart, ReadFails, TakeNothing, WriteFails, Wake, Drop,
                Dropped, vars, task
  <2>4. InProgress'
    BY <2>1, <2>3 DEF IInv, InProgress
  <2> QED
    BY <2>1, <2>2, <2>4, QuietStep
<1> QED
  BY <1>1, RelaySendsStep, SendStep, ReadRestStep, TakeOksStep, TakePacketStep, WritePacketStep,
     WriteOkStep DEF Next

LEMMA Invariant == Spec => []IInv
BY Start, Step, PTL DEF Spec

\* Every variable keeps its shape, and the packet queue its limit.
THEOREM TypeCorrect == Spec => []TypeOK
<1>1. IInv => TypeOK
  <2> SUFFICES ASSUME IInv PROVE TypeOK
    OBVIOUS
  <2>1. KnownKinds
    <3> SUFFICES ASSUME NEW k \in 1..Len(inbound) PROVE inbound[k].kind \in Kinds
      BY DEF KnownKinds
    <3>1. inbound \in Seq(Message)
      BY DEF IInv, Read
    <3>2. inbound[k] \in Message
      BY <3>1, ElementOfSeq
    <3> QED
      BY <3>2 DEF Message
  <2>2. (pc = "packet" => Len(packet) = 1) /\ (pc = "oks" => oks # << >>)
    BY DEF IInv, InProgress
  <2> QED
    BY <2>1, <2>2 DEF IInv, Places, Limits, TypeOK
<1> QED
  BY <1>1, Invariant, PTL

\* Every operation the relay has sent is received once and in order, although
\* the select! of receive_packet_or_pong may let go of any read.
THEOREM ReadsAreInOrder == Spec => []NothingIsMisread
<1>1. IInv => NothingIsMisread
  BY DEF IInv
<1> QED
  BY <1>1, Invariant, PTL

\* Every operation received from the relay is confirmed once and in order, and
\* every packet accepted from the user is written once and in order.
THEOREM WritesAreInOrder == Spec => []WrittenInOrder
<1>1. IInv => WrittenInOrder
  BY DEF IInv, WrittenInOrder
<1> QED
  BY <1>1, Invariant, PTL

-----------------------------------------------------------------------------
(* The liveness checker: its inductive invariant                           *)

Probes == [back : Nat \ {0}, age : Nat, fate : Nat]

Pongs == [back : Nat \ {0}, rtt : Nat]

Pending == Len(outstanding)

CheckerTypeOK ==
  /\ outstanding \in Seq(Probes) /\ slowest \in Seq(Pongs) /\ recent \in SUBSET Pongs
  /\ lastPing \in 0..IdlePeriod /\ pollIn \in 0..BusyPeriod
  /\ silent \in Nat /\ lostInRow \in Nat
  /\ waking \in BOOLEAN /\ cut \in BOOLEAN /\ dead \in BOOLEAN /\ sentTraffic \in BOOLEAN

\* Older probes come first, and all probes are younger than the pongs.
InOrder ==
  /\ \A i, j \in 1..Pending : i < j =>
       /\ outstanding[i].age >= outstanding[j].age
       /\ outstanding[i].back > outstanding[j].back
  /\ \A i, j \in 1..Len(slowest) : i < j =>
       /\ slowest[i].back > slowest[j].back
       /\ slowest[i].rtt > slowest[j].rtt
  /\ \A i \in 1..Pending : \A p \in recent : outstanding[i].back < p.back

\* Every pong of the window was answered at least as fast as a later one, or the
\* same one, in the list.
WindowIsCovered ==
  /\ \A i \in 1..Len(slowest) : slowest[i] \in recent
  /\ \A p \in recent : \E i \in 1..Len(slowest) :
       slowest[i].back <= p.back /\ p.rtt <= slowest[i].rtt
  /\ \A p, q \in recent : p.back <= q.back + Window

\* The network loses as many probes in a row as are allowed.
LossesAreAllowed ==
  /\ \A i \in 1..Pending : outstanding[i].fate <= MinLostPeriod
  /\ ~cut => \A i \in 1..Pending : outstanding[i].fate # 0 => outstanding[i].age <= outstanding[i].fate
  /\ \A i, j \in 1..Pending :
       i <= j /\ (\A k \in i..j : outstanding[k].fate = 0) => j - i + 1 <= MaxAllowed
  /\ \A i \in 1..Pending :
       (\A k \in i..Pending : outstanding[k].fate = 0) => Pending - i + 1 <= lostInRow
  /\ lostInRow <= MaxAllowed

\* The next poll comes no later than the next ping is due, and than the loss
\* that would be one too many.
PollIsDue ==
  /\ pollIn + lastPing <= IdlePeriod
  /\ Pending > 0 =>
       /\ lastPing = outstanding[Pending].age
       /\ \/ pollIn + outstanding[1].age <= MaxLostPeriod
          \/ pollIn + outstanding[Pending].age <= BusyPeriod
  /\ Pending > MaxAllowed => pollIn + outstanding[MaxAllowed + 1].age <= MaxLostPeriod

\* When a probe was sent, the silence had lasted no longer than that.
SentBy(j) ==
  IF j = 1 THEN IdlePeriod ELSE IdlePeriod + MaxLostPeriod + (j - 2) * BusyPeriod

SilenceIsShort ==
  /\ ~cut => silent = 0
  /\ Pending = 0 => silent <= lastPing
  /\ \A j \in 1..Pending : silent <= outstanding[j].age + SentBy(j)

CheckerInv ==
  /\ CheckerTypeOK /\ InOrder /\ WindowIsCovered /\ LossesAreAllowed /\ PollIsDue
  /\ SilenceIsShort /\ NoFalseDeath

-----------------------------------------------------------------------------
(* Operators                                                               *)

LEMMA LimitsOfChecker ==
  /\ BusyPeriod \in Nat /\ IdlePeriod \in Nat /\ MinLostPeriod \in Nat /\ MaxLostPeriod \in Nat
  /\ BusyPeriod > 0 /\ IdlePeriod > 0 /\ MinLostPeriod > 0 /\ MaxLostPeriod > 0
  /\ BusyPeriod < IdlePeriod /\ MinLostPeriod <= MaxLostPeriod /\ BusyPeriod <= MaxLostPeriod
  /\ MaxLost \in Nat /\ MaxLostAfterSleep \in Nat /\ Window \in Nat
  /\ MaxLost > 0 /\ MaxLostAfterSleep > 0 /\ Window > 0 /\ MaxLostAfterSleep <= MaxLost
BY PeriodsAssumption, CountsAssumption

USE LimitsOfChecker

LEMMA MinIsLeast ==
  ASSUME NEW S \in SUBSET Nat, S # {}
  PROVE  Min(S) \in S /\ \A x \in S : Min(S) <= x
BY LeastNumber DEF Min

LEMMA LostPeriodBounds ==
  ASSUME NEW slow \in Seq(Pongs)
  PROVE  LostPeriod(slow) \in MinLostPeriod..MaxLostPeriod
<1>1. CASE slow = << >>
  BY <1>1 DEF LostPeriod
<1>2. CASE slow # << >>
  <2> DEFINE m == Min({MaxLostPeriod, 2 * slow[1].rtt})
  <2>1. slow[1] \in Pongs
    BY <1>2
  <2>2. m \in Nat /\ m <= MaxLostPeriod
    <3>1. {MaxLostPeriod, 2 * slow[1].rtt} \in SUBSET Nat
      BY <2>1 DEF Pongs
    <3> QED
      BY <3>1, MinIsLeast
  <2>3. Max({MinLostPeriod, m}) \in {MinLostPeriod, m}
        /\ Max({MinLostPeriod, m}) >= MinLostPeriod
    <3>1. \E x \in {MinLostPeriod, m} : \A y \in {MinLostPeriod, m} : x >= y
      BY <2>2
    <3> HIDE DEF m
    <3> QED
      BY <3>1 DEF Max
  <2>4. LostPeriod(slow) = Max({MinLostPeriod, m})
    BY <1>2 DEF LostPeriod
  <2> HIDE DEF m
  <2> QED
    BY <2>2, <2>3, <2>4
<1> QED
  BY <1>1, <1>2

\* LostCount is the length of the prefix of expired probes.
LEMMA LostPrefix ==
  ASSUME NEW probes \in Seq(Probes)
  PROVE  /\ LostCount(probes) \in 0..Len(probes)
         /\ \A j \in 1..LostCount(probes) : IsLost(probes[j])
         /\ LostCount(probes) < Len(probes) => ~IsLost(probes[LostCount(probes) + 1])
<1> DEFINE T == {k \in DOMAIN probes : \A j \in 1..k : IsLost(probes[j])}
<1>1. T \in SUBSET (1..Len(probes)) /\ Len(probes) \in Nat
  OBVIOUS
<1>2. \A k \in T : \A j \in 1..k : j \in T
  OBVIOUS
<1>3. Cardinality(T) \in 0..Len(probes) /\ T = 1..Cardinality(T)
  BY <1>1, <1>2, InitialSegment
<1>4. LostCount(probes) = Cardinality(T)
  BY DEF LostCount
<1> DEFINE c == Cardinality(T)
<1>5. \A j \in 1..c : IsLost(probes[j])
  BY <1>3
<1>6. c < Len(probes) => ~IsLost(probes[c + 1])
  <2> SUFFICES ASSUME c < Len(probes), IsLost(probes[c + 1]) PROVE FALSE
    OBVIOUS
  <2>1. c + 1 \in DOMAIN probes /\ c + 1 \notin T
    <3> HIDE DEF T
    <3>1. c \in 0..Len(probes) /\ T = 1..c
      BY <1>3
    <3> HIDE DEF c
    <3> QED
      BY <3>1
  <2>2. \A j \in 1..(c + 1) : IsLost(probes[j])
    BY <1>3, <1>5
  <2> QED
    BY <2>1, <2>2
<1> QED
  BY <1>3, <1>4, <1>5, <1>6

\* The next poll is in time for the next ping and for the next loss.
LEMMA NextPollBounds ==
  ASSUME NEW probes \in Seq(Probes), slowest \in Seq(Pongs),
         NEW sinceLast \in Nat, NEW period \in Nat, sinceLast <= period
  PROVE  /\ NextPoll(probes, sinceLast, period) \in 0..BusyPeriod
         /\ NextPoll(probes, sinceLast, period) + sinceLast <= period
         /\ \A i \in 1..Len(probes) :
              LostCount(probes) < i /\ (\A j \in 1..i : probes[i].age <= probes[j].age)
                => NextPoll(probes, sinceLast, period) + probes[i].age <= MaxLostPeriod
<1> DEFINE next == NextLoss(probes)
           S == {BusyPeriod, period - sinceLast} \cup next
           c == LostCount(probes)
           L == LostPeriod(slowest)
<1>1. L \in MinLostPeriod..MaxLostPeriod
  BY LostPeriodBounds
<1>2. c \in 0..Len(probes) /\ (c < Len(probes) => ~IsLost(probes[c + 1]))
  BY LostPrefix
<1>3. ASSUME c < Len(probes) PROVE L - probes[c + 1].age \in next
  <2>1. c + 1 \in DOMAIN probes \cap {c + 1}
    BY <1>2, <1>3
  <2> QED
    BY <2>1 DEF NextLoss
<1>4. next \in SUBSET Nat
  <2> SUFFICES ASSUME NEW x \in next PROVE x \in Nat
    OBVIOUS
  <2>1. PICK k \in DOMAIN probes \cap {c + 1} : x = L - probes[k].age
    BY DEF NextLoss
  <2>2. k = c + 1 /\ c < Len(probes) /\ probes[k] \in Probes
    BY <1>2
  <2>3. ~(probes[k].age >= L) /\ probes[k].age \in Nat
    BY <1>2, <2>2 DEF IsLost, Probes
  <2> QED
    BY <1>1, <2>1, <2>3
<1>5. S \in SUBSET Nat /\ S # {}
  BY <1>4
<1>6. Min(S) \in Nat /\ \A x \in S : Min(S) <= x
  BY <1>5, MinIsLeast
<1>7. NextPoll(probes, sinceLast, period) = Min(S)
  BY DEF NextPoll
<1>8. ASSUME NEW i \in 1..Len(probes), c < i, \A j \in 1..i : probes[i].age <= probes[j].age
      PROVE  Min(S) + probes[i].age <= MaxLostPeriod
  <2>1. c < Len(probes) /\ c + 1 \in 1..i /\ probes[c + 1] \in Probes /\ probes[i] \in Probes
    BY <1>2, <1>8
  <2>2. Min(S) <= L - probes[c + 1].age
    BY <1>3, <1>6, <2>1
  <2>3. probes[i].age <= probes[c + 1].age
    BY <1>8, <2>1
  <2>4. probes[c + 1].age \in Nat /\ probes[i].age \in Nat
    BY <2>1 DEF Probes
  <2>5. L \in Int /\ L <= MaxLostPeriod
    BY <1>1
  <2>6. Min(S) \in Int /\ MaxLostPeriod \in Int
    BY <1>6
  <2> HIDE DEF S, c, L
  <2> QED
    <3> DEFINE s == Min(S)
               a == probes[c + 1].age
               b == probes[i].age
    <3>1. s \in Int /\ L \in Int /\ MaxLostPeriod \in Int /\ a \in Nat /\ b \in Nat
          /\ s <= L - a /\ b <= a /\ L <= MaxLostPeriod
      BY <2>2, <2>3, <2>4, <2>5, <2>6
    <3> HIDE DEF s, a, b
    <3>2. s + b <= MaxLostPeriod
      BY <3>1, SumWithin
    <3> QED
      BY <3>2 DEF s, b
<1>9. Min(S) \in 0..BusyPeriod /\ Min(S) + sinceLast <= period
  <2>1. Min(S) <= BusyPeriod /\ Min(S) <= period - sinceLast
    BY <1>6
  <2> HIDE DEF S
  <2> QED
    BY <1>6, <2>1
<1> HIDE DEF S, c
<1> QED
  BY <1>7, <1>8, <1>9 DEF c
LEMMA FunctionIsSeq ==
  ASSUME NEW S, NEW n \in Nat, NEW f \in [1..n -> S]
  PROVE  f \in Seq(S) /\ Len(f) = n
<1>1. f \in Seq(S)
  BY SeqDef
<1>2. DOMAIN f = 1..Len(f) /\ Len(f) \in Nat /\ DOMAIN f = 1..n
  BY <1>1, LenProperties
<1> QED
  BY <1>1, <1>2

\* A probe or a pong with a ping more sent since.
LEMMA OneProbeEarlier ==
  ASSUME NEW p \in Probes
  PROVE  /\ [p EXCEPT !.back = @ + 1] \in Probes
         /\ [p EXCEPT !.back = @ + 1].age = p.age
         /\ [p EXCEPT !.back = @ + 1].fate = p.fate
         /\ [p EXCEPT !.back = @ + 1].back = p.back + 1
BY DEF Probes

LEMMA OnePongEarlier ==
  ASSUME NEW p \in Pongs
  PROVE  /\ [p EXCEPT !.back = @ + 1] \in Pongs
         /\ [p EXCEPT !.back = @ + 1].rtt = p.rtt
         /\ [p EXCEPT !.back = @ + 1].back = p.back + 1
BY DEF Pongs

LEMMA EarlierProbes ==
  ASSUME NEW probes \in Seq(Probes)
  PROVE  /\ Earlier(probes) \in Seq(Probes) /\ Len(Earlier(probes)) = Len(probes)
         /\ \A i \in 1..Len(probes) :
              /\ Earlier(probes)[i].age = probes[i].age
              /\ Earlier(probes)[i].fate = probes[i].fate
              /\ Earlier(probes)[i].back = probes[i].back + 1
<1>1. \A i \in 1..Len(probes) : probes[i] \in Probes
  OBVIOUS
<1>2. Earlier(probes) = [i \in 1..Len(probes) |-> [probes[i] EXCEPT !.back = @ + 1]]
  BY DEF Earlier
<1>3. Earlier(probes) \in [1..Len(probes) -> Probes]
  BY <1>1, <1>2, OneProbeEarlier
<1>4. \A i \in 1..Len(probes) : Earlier(probes)[i] = [probes[i] EXCEPT !.back = @ + 1]
  BY <1>2
<1>5. Earlier(probes) \in Seq(Probes) /\ Len(Earlier(probes)) = Len(probes)
  BY <1>3, FunctionIsSeq
<1>6. ASSUME NEW i \in 1..Len(probes)
      PROVE  /\ Earlier(probes)[i].age = probes[i].age
             /\ Earlier(probes)[i].fate = probes[i].fate
             /\ Earlier(probes)[i].back = probes[i].back + 1
  <2>1. probes[i] \in Probes
    BY <1>1
  <2> QED
    BY <1>4, <2>1, OneProbeEarlier
<1> QED
  BY <1>5, <1>6

LEMMA EarlierPongs ==
  ASSUME NEW pongs \in Seq(Pongs)
  PROVE  /\ Earlier(pongs) \in Seq(Pongs) /\ Len(Earlier(pongs)) = Len(pongs)
         /\ \A i \in 1..Len(pongs) : Earlier(pongs)[i] = [pongs[i] EXCEPT !.back = @ + 1]
<1>1. \A i \in 1..Len(pongs) : pongs[i] \in Pongs
  OBVIOUS
<1>2. Earlier(pongs) = [i \in 1..Len(pongs) |-> [pongs[i] EXCEPT !.back = @ + 1]]
  BY DEF Earlier
<1>3. Earlier(pongs) \in [1..Len(pongs) -> Pongs]
  BY <1>1, <1>2, OnePongEarlier
<1> QED
  BY <1>2, <1>3, FunctionIsSeq

\* A ping appends a young probe and makes the others older by one ping.
LEMMA SendPingAppends ==
  ASSUME NEW probes \in Seq(Probes), NEW slow \in Seq(Pongs), NEW row \in Nat, NEW budget \in Nat,
         SendPing(probes, slow, row, budget)
  PROVE  /\ outstanding' \in Seq(Probes) /\ Len(outstanding') = Len(probes) + 1
         /\ \A i \in 1..Len(probes) :
              /\ outstanding'[i].age = probes[i].age
              /\ outstanding'[i].fate = probes[i].fate
              /\ outstanding'[i].back = probes[i].back + 1
         /\ outstanding'[Len(probes) + 1].age = 0
         /\ outstanding'[Len(probes) + 1].back = 1
         /\ outstanding'[Len(probes) + 1].fate <= MinLostPeriod
         /\ \/ outstanding'[Len(probes) + 1].fate = 0 /\ row < budget /\ lostInRow' = row + 1
            \/ outstanding'[Len(probes) + 1].fate # 0 /\ lostInRow' = 0
         /\ lastPing' = 0 /\ sentTraffic' = FALSE /\ slowest' = Earlier(slow)
<1>1. PICK fate \in Fates(row, budget) :
        /\ outstanding' = Append(Earlier(probes), [back |-> 1, age |-> 0, fate |-> fate])
        /\ lostInRow' = IF fate = 0 THEN row + 1 ELSE 0
  BY DEF SendPing
<1>2. fate \in 0..MinLostPeriod /\ (fate = 0 => row < budget)
  <2>1. CASE fate \in RoundTrips
    <3>1. fate \in 1..MinLostPeriod
      BY <2>1, RoundTripsAssumption
    <3> QED
      BY <3>1
  <2>2. CASE fate = 0 /\ row < budget
    BY <2>2
  <2> QED
    BY <2>1, <2>2 DEF Fates
<1> DEFINE new == [back |-> 1, age |-> 0, fate |-> fate]
           old == Earlier(probes)
<1>3. new \in Probes /\ new.age = 0 /\ new.back = 1 /\ new.fate = fate
  BY <1>2 DEF Probes
<1>4. /\ old \in Seq(Probes) /\ Len(old) = Len(probes)
      /\ \A i \in 1..Len(probes) :
           /\ old[i].age = probes[i].age
           /\ old[i].fate = probes[i].fate
           /\ old[i].back = probes[i].back + 1
  BY EarlierProbes
<1> HIDE DEF new, old
<1>5. /\ outstanding' \in Seq(Probes) /\ Len(outstanding') = Len(probes) + 1
      /\ \A i \in 1..Len(probes) : outstanding'[i] = old[i]
      /\ outstanding'[Len(probes) + 1] = new
  <2>1. outstanding' = Append(old, new)
    BY <1>1 DEF old, new
  <2>2. /\ Append(old, new) \in Seq(Probes)
        /\ Len(Append(old, new)) = Len(old) + 1
        /\ \A i \in 1..Len(old) : Append(old, new)[i] = old[i]
        /\ Append(old, new)[Len(old) + 1] = new
    BY <1>3, <1>4, AppendProperties
  <2>3. Len(old) = Len(probes)
    BY <1>4
  <2> QED
    BY <2>1, <2>2, <2>3, Zenon
<1>6. lastPing' = 0 /\ sentTraffic' = FALSE /\ slowest' = Earlier(slow)
  BY DEF SendPing
<1>7. ASSUME NEW i \in 1..Len(probes)
      PROVE  /\ outstanding'[i].age = probes[i].age
             /\ outstanding'[i].fate = probes[i].fate
             /\ outstanding'[i].back = probes[i].back + 1
  BY <1>4, <1>5, Zenon
<1>8. /\ outstanding'[Len(probes) + 1].age = 0
      /\ outstanding'[Len(probes) + 1].back = 1
      /\ outstanding'[Len(probes) + 1].fate = fate
  BY <1>3, <1>5, Zenon
<1>9. fate <= MinLostPeriod
  BY <1>2
<1>10. \/ fate = 0 /\ row < budget /\ lostInRow' = row + 1
       \/ fate # 0 /\ lostInRow' = 0
  <2>1. CASE fate = 0
    BY <1>1, <1>2, <2>1, Zenon
  <2>2. CASE fate # 0
    BY <1>1, <2>2, Zenon
  <2> QED
    BY <2>1, <2>2
<1> QED
  BY <1>5, <1>6, <1>7, <1>8, <1>9, <1>10, Zenon

-----------------------------------------------------------------------------
(* Steps                                                                   *)

LEMMA CheckerStarts == CheckerInit => CheckerInv
<1> SUFFICES ASSUME CheckerInit PROVE CheckerInv
  OBVIOUS
<1> USE DEF CheckerInit
<1>1. CheckerTypeOK
  <2>1. outstanding \in Seq(Probes) /\ slowest \in Seq(Pongs) /\ recent \in SUBSET Pongs
    OBVIOUS
  <2>2. lastPing \in 0..IdlePeriod /\ pollIn \in 0..BusyPeriod
    OBVIOUS
  <2> QED
    BY <2>1, <2>2 DEF CheckerTypeOK
<1>2. Pending = 0 /\ MaxAllowed \in Nat
  BY DEF Pending, MaxAllowed
<1>3. InOrder /\ WindowIsCovered /\ NoFalseDeath
  BY <1>2 DEF InOrder, WindowIsCovered, NoFalseDeath
<1>4. LossesAreAllowed
  BY <1>2 DEF LossesAreAllowed
<1>5. PollIsDue /\ SilenceIsShort
  BY <1>2 DEF PollIsDue, SilenceIsShort
<1> QED
  BY <1>1, <1>3, <1>4, <1>5 DEF CheckerInv

LEMMA AllowedIsPositive ==
  MaxAllowed \in Nat \ {0}
BY DEF MaxAllowed

LEMMA SentByGrows ==
  ASSUME NEW n \in Nat \ {0}
  PROVE  /\ SentBy(n) \in Nat
         /\ SentBy(n + 1) = IdlePeriod + MaxLostPeriod + (n - 1) * BusyPeriod
         /\ n # 1 => SentBy(n + 1) = SentBy(n) + BusyPeriod
<1>1. (n - 1) * BusyPeriod \in Nat
  BY SMT
<1>2. n # 1 => (n - 2) * BusyPeriod \in Nat /\ (n - 1) * BusyPeriod = (n - 2) * BusyPeriod + BusyPeriod
  BY SMT
<1>3. n + 1 # 1 /\ (n + 1) - 2 = n - 1
  OBVIOUS
<1>4. SentBy(n + 1) = IdlePeriod + MaxLostPeriod + (n - 1) * BusyPeriod
  BY <1>3 DEF SentBy
<1> QED
  BY <1>1, <1>2, <1>4 DEF SentBy
LEMMA NotAllLost ==
  ASSUME NEW probes \in Seq(Probes), NEW j \in 1..Len(probes), ~IsLost(probes[j])
  PROVE  LostCount(probes) < j
BY LostPrefix

LEMMA FieldsOfProbes ==
  ASSUME CheckerTypeOK
  PROVE  /\ Pending \in Nat
         /\ \A i \in 1..Pending :
              /\ outstanding[i] \in Probes /\ outstanding[i].back \in Nat \ {0}
              /\ outstanding[i].age \in Nat /\ outstanding[i].fate \in Nat
<1>1. outstanding \in Seq(Probes)
  BY DEF CheckerTypeOK
<1>2. Pending \in Nat /\ \A i \in 1..Pending : outstanding[i] \in Probes
  BY <1>1 DEF Pending
<1> QED
  BY <1>2 DEF Probes

LEMMA FieldsOfPongs ==
  ASSUME CheckerTypeOK
  PROVE  /\ Len(slowest) \in Nat
         /\ \A i \in 1..Len(slowest) :
              slowest[i] \in Pongs /\ slowest[i].back \in Nat \ {0} /\ slowest[i].rtt \in Nat
         /\ \A p \in recent : p \in Pongs /\ p.back \in Nat \ {0} /\ p.rtt \in Nat
<1>1. slowest \in Seq(Pongs) /\ recent \in SUBSET Pongs
  BY DEF CheckerTypeOK
<1>2. Len(slowest) \in Nat /\ \A i \in 1..Len(slowest) : slowest[i] \in Pongs
  BY <1>1
<1> QED
  BY <1>1, <1>2 DEF Pongs

\* A ping while the tunnel is alive, by poll or before the user's packet.
Pings ==
  /\ SendPing(outstanding, slowest, lostInRow, MaxAllowed)
  /\ recent' = EarlierRecent
  /\ UNCHANGED <<waking, dead, cut, silent>>

LEMMA PingAppends ==
  ASSUME CheckerInv, Pings
  PROVE  /\ outstanding' \in Seq(Probes) /\ Pending' = Pending + 1
         /\ \A i \in 1..Pending :
              /\ outstanding'[i].age = outstanding[i].age
              /\ outstanding'[i].fate = outstanding[i].fate
              /\ outstanding'[i].back = outstanding[i].back + 1
         /\ outstanding'[Pending + 1].age = 0
         /\ outstanding'[Pending + 1].back = 1
         /\ outstanding'[Pending + 1].fate <= MinLostPeriod
         /\ \/ outstanding'[Pending + 1].fate = 0 /\ lostInRow < MaxAllowed /\ lostInRow' = lostInRow + 1
            \/ outstanding'[Pending + 1].fate # 0 /\ lostInRow' = 0
         /\ lastPing' = 0 /\ sentTraffic' = FALSE /\ slowest' = Earlier(slowest)
         /\ MaxAllowed' = MaxAllowed
<1>1. outstanding \in Seq(Probes) /\ slowest \in Seq(Pongs) /\ lostInRow \in Nat /\ MaxAllowed \in Nat
  BY AllowedIsPositive DEF CheckerInv, CheckerTypeOK
<1>2. SendPing(outstanding, slowest, lostInRow, MaxAllowed) /\ MaxAllowed' = MaxAllowed
  BY DEF Pings, MaxAllowed
<1>3. Pending = Len(outstanding) /\ Pending' = Len(outstanding')
  BY DEF Pending
<1> HIDE DEF MaxAllowed, Pending
<1> DEFINE n == Pending + 1
<1>4. /\ \A i \in 1..Pending :
           /\ outstanding'[i].age = outstanding[i].age
           /\ outstanding'[i].fate = outstanding[i].fate
           /\ outstanding'[i].back = outstanding[i].back + 1
      /\ outstanding'[n].age = 0 /\ outstanding'[n].back = 1
      /\ outstanding'[n].fate <= MinLostPeriod
      /\ \/ outstanding'[n].fate = 0 /\ lostInRow < MaxAllowed /\ lostInRow' = lostInRow + 1
         \/ outstanding'[n].fate # 0 /\ lostInRow' = 0
      /\ outstanding' \in Seq(Probes) /\ Pending' = n
      /\ lastPing' = 0 /\ sentTraffic' = FALSE /\ slowest' = Earlier(slowest)
  BY <1>1, <1>2, <1>3, SendPingAppends, Zenon
<1> QED
  BY <1>2, <1>4, Zenon

LEMMA PingKeepsOrder ==
  ASSUME CheckerInv, Pings
  PROVE  InOrder' /\ WindowIsCovered'
<1>0. CheckerTypeOK /\ InOrder /\ WindowIsCovered
  BY DEF CheckerInv
<1>1. /\ recent \in SUBSET Pongs /\ slowest \in Seq(Pongs)
      /\ recent' = {[p EXCEPT !.back = @ + 1] : p \in recent}
  BY <1>0 DEF CheckerTypeOK, Pings, EarlierRecent
<1>2. /\ Len(slowest') = Len(slowest)
      /\ \A i \in 1..Len(slowest) : slowest'[i] = [slowest[i] EXCEPT !.back = @ + 1]
  BY <1>1, PingAppends, EarlierPongs
<1>3. \A i \in 1..Len(slowest) :
        slowest'[i].back = slowest[i].back + 1 /\ slowest'[i].rtt = slowest[i].rtt
  BY <1>0, <1>2, FieldsOfPongs, OnePongEarlier
<1>4. ASSUME NEW i \in 1..Pending', NEW j \in 1..Pending', i < j
      PROVE  /\ outstanding'[i].age >= outstanding'[j].age
             /\ outstanding'[i].back > outstanding'[j].back
  <2>0. Pending' = Pending + 1 /\ Pending \in Nat
    BY <1>0, PingAppends, FieldsOfProbes
  <2>1. /\ i \in 1..Pending
        /\ outstanding[i].back \in Nat \ {0} /\ outstanding[i].age \in Nat
        /\ outstanding'[i].age = outstanding[i].age
        /\ outstanding'[i].back = outstanding[i].back + 1
    BY <1>0, <1>4, <2>0, PingAppends, FieldsOfProbes
  <2>2. CASE j \in 1..Pending
    <3>1. /\ outstanding[j].back \in Nat \ {0} /\ outstanding[j].age \in Nat
          /\ outstanding'[j].age = outstanding[j].age
          /\ outstanding'[j].back = outstanding[j].back + 1
      BY <1>0, <2>2, PingAppends, FieldsOfProbes
    <3>2. outstanding[i].age >= outstanding[j].age /\ outstanding[i].back > outstanding[j].back
      BY <1>0, <1>4, <2>1, <2>2 DEF InOrder
    <3> QED
      BY <2>1, <3>1, <3>2
  <2>3. CASE j = Pending + 1
    <3>1. outstanding'[j].age = 0 /\ outstanding'[j].back = 1
      BY <2>3, PingAppends
    <3> QED
      BY <2>1, <3>1
  <2> QED
    BY <2>0, <2>2, <2>3
<1>5. ASSUME NEW i \in 1..Len(slowest'), NEW j \in 1..Len(slowest'), i < j
      PROVE  /\ slowest'[i].back > slowest'[j].back
             /\ slowest'[i].rtt > slowest'[j].rtt
  <2>1. i \in 1..Len(slowest) /\ j \in 1..Len(slowest)
    BY <1>2
  <2>2. slowest[i].back > slowest[j].back /\ slowest[i].rtt > slowest[j].rtt
    BY <1>0, <1>5, <2>1 DEF InOrder
  <2>3. /\ slowest[i].back \in Nat /\ slowest[j].back \in Nat
        /\ slowest[i].rtt \in Nat /\ slowest[j].rtt \in Nat
    BY <1>0, <2>1, FieldsOfPongs
  <2>4. /\ slowest'[i].back = slowest[i].back + 1 /\ slowest'[i].rtt = slowest[i].rtt
        /\ slowest'[j].back = slowest[j].back + 1 /\ slowest'[j].rtt = slowest[j].rtt
    BY <1>3, <2>1
  <2>5. slowest'[i].back > slowest'[j].back
    <3>1. \A a, b \in Nat : a > b => a + 1 > b + 1
      OBVIOUS
    <3>2. slowest[i].back + 1 > slowest[j].back + 1
      BY <2>2, <2>3, <3>1
    <3> QED
      BY <2>4, <3>2
  <2>6. slowest'[i].rtt > slowest'[j].rtt
    BY <2>2, <2>3, <2>4
  <2> QED
    BY <2>5, <2>6
<1>6. ASSUME NEW i \in 1..Pending', NEW q \in recent'
      PROVE  outstanding'[i].back < q.back
  <2>0. Pending' = Pending + 1 /\ Pending \in Nat
    BY <1>0, PingAppends, FieldsOfProbes
  <2>1. PICK p \in recent : q = [p EXCEPT !.back = @ + 1]
    BY <1>1
  <2>2. p.back \in Nat \ {0} /\ q.back = p.back + 1
    BY <1>0, <2>1, FieldsOfPongs, OnePongEarlier
  <2>3. CASE i \in 1..Pending
    <3>1. outstanding[i].back \in Nat /\ outstanding'[i].back = outstanding[i].back + 1
      BY <1>0, <2>3, PingAppends, FieldsOfProbes
    <3>2. outstanding[i].back < p.back
      BY <1>0, <2>3 DEF InOrder
    <3> QED
      BY <2>2, <3>1, <3>2
  <2>4. CASE i = Pending + 1
    <3>1. outstanding'[i].back = 1
      BY <2>4, PingAppends
    <3> QED
      BY <2>2, <3>1
  <2> QED
    BY <2>0, <2>3, <2>4
<1>7. InOrder'
  BY <1>4, <1>5, <1>6 DEF InOrder
<1>8. ASSUME NEW i \in 1..Len(slowest') PROVE slowest'[i] \in recent'
  <2>1. slowest[i] \in recent /\ slowest'[i] = [slowest[i] EXCEPT !.back = @ + 1]
    BY <1>0, <1>2 DEF WindowIsCovered
  <2> QED
    BY <1>1, <2>1
<1>9. ASSUME NEW q \in recent'
      PROVE  \E i \in 1..Len(slowest') : slowest'[i].back <= q.back /\ q.rtt <= slowest'[i].rtt
  <2>1. PICK p \in recent : q = [p EXCEPT !.back = @ + 1]
    BY <1>1
  <2>2. p.back \in Nat /\ q.back = p.back + 1 /\ q.rtt = p.rtt
    BY <1>0, <2>1, FieldsOfPongs, OnePongEarlier
  <2>3. PICK i \in 1..Len(slowest) : slowest[i].back <= p.back /\ p.rtt <= slowest[i].rtt
    BY <1>0 DEF WindowIsCovered
  <2>4. slowest[i].back \in Nat
    BY <1>0, FieldsOfPongs
  <2>5. slowest'[i].back = slowest[i].back + 1 /\ slowest'[i].rtt = slowest[i].rtt
    BY <1>3
  <2>6. slowest'[i].back <= q.back /\ q.rtt <= slowest'[i].rtt
    BY <2>2, <2>3, <2>4, <2>5
  <2> QED
    BY <1>2, <2>6
<1>10. ASSUME NEW q1 \in recent', NEW q2 \in recent'
       PROVE  q1.back <= q2.back + Window
  <2>1. PICK p1 \in recent : q1 = [p1 EXCEPT !.back = @ + 1]
    BY <1>1
  <2>2. PICK p2 \in recent : q2 = [p2 EXCEPT !.back = @ + 1]
    BY <1>1
  <2>3. /\ p1.back \in Nat /\ q1.back = p1.back + 1
        /\ p2.back \in Nat /\ q2.back = p2.back + 1
    BY <1>0, <2>1, <2>2, FieldsOfPongs, OnePongEarlier
  <2>4. p1.back <= p2.back + Window
    BY <1>0 DEF WindowIsCovered
  <2>5. Window \in Nat
    BY LimitsOfChecker
  <2> QED
    BY <2>3, <2>4, <2>5
<1> QED
  BY <1>7, <1>8, <1>9, <1>10 DEF WindowIsCovered

LEMMA PingKeepsLosses ==
  ASSUME CheckerInv, Pings
  PROVE  LossesAreAllowed'
<1>0. CheckerTypeOK /\ LossesAreAllowed /\ lostInRow \in Nat /\ MaxAllowed \in Nat \ {0}
  BY AllowedIsPositive DEF CheckerInv, CheckerTypeOK
<1>1. Pending' = Pending + 1 /\ Pending \in Nat /\ MaxAllowed' = MaxAllowed /\ cut' = cut
  BY <1>0, PingAppends, FieldsOfProbes DEF Pings
<1>2. \A i \in 1..Pending :
        /\ outstanding'[i].fate = outstanding[i].fate /\ outstanding[i].fate <= MinLostPeriod
        /\ outstanding'[i].age = outstanding[i].age
  BY <1>0, PingAppends DEF LossesAreAllowed
<1>3. /\ outstanding'[Pending + 1].fate <= MinLostPeriod
      /\ outstanding'[Pending + 1].age = 0
      /\ \/ outstanding'[Pending + 1].fate = 0 /\ lostInRow < MaxAllowed /\ lostInRow' = lostInRow + 1
         \/ outstanding'[Pending + 1].fate # 0 /\ lostInRow' = 0
  BY PingAppends
<1>4. \A i \in 1..Pending' : i \in 1..Pending \/ i = Pending + 1
  BY <1>1
<1>5. \A i \in 1..Pending' : outstanding'[i].fate <= MinLostPeriod
  BY <1>2, <1>3, <1>4
<1>6. ~cut' => \A i \in 1..Pending' :
        outstanding'[i].fate # 0 => outstanding'[i].age <= outstanding'[i].fate
  <2> SUFFICES ASSUME ~cut, NEW i \in 1..Pending', outstanding'[i].fate # 0
               PROVE  outstanding'[i].age <= outstanding'[i].fate
    BY <1>1
  <2>1. CASE i \in 1..Pending
    BY <1>0, <1>2, <2>1 DEF LossesAreAllowed
  <2>2. CASE i = Pending + 1
    <3>1. outstanding'[i].fate \in Nat
      <4>1. outstanding' \in Seq(Probes) /\ i \in 1..Len(outstanding')
        BY PingAppends DEF Pending
      <4>2. outstanding'[i] \in Probes
        BY <4>1
      <4> QED
        BY <4>2 DEF Probes
    <3> QED
      BY <1>3, <2>2, <3>1
  <2> QED
    BY <1>4, <2>1, <2>2
<1>7. ASSUME NEW i \in 1..Pending', \A k \in i..Pending' : outstanding'[k].fate = 0
      PROVE  Pending' - i + 1 <= lostInRow' /\ lostInRow' <= MaxAllowed
  <2>1. Pending + 1 \in i..Pending'
    BY <1>1
  <2>2. lostInRow < MaxAllowed /\ lostInRow' = lostInRow + 1
    BY <1>3, <1>7, <2>1
  <2>3. CASE i = Pending + 1
    BY <1>0, <1>1, <2>2, <2>3
  <2>4. CASE i \in 1..Pending
    <3>1. \A k \in i..Pending : outstanding[k].fate = 0
      <4> SUFFICES ASSUME NEW k \in i..Pending PROVE outstanding[k].fate = 0
        OBVIOUS
      <4>1. k \in i..Pending' /\ k \in 1..Pending
        BY <1>1, <2>4
      <4> QED
        BY <1>2, <1>7, <4>1
    <3>2. Pending - i + 1 <= lostInRow
      BY <1>0, <2>4, <3>1 DEF LossesAreAllowed
    <3> QED
      BY <1>0, <1>1, <2>2, <2>4, <3>2
  <2> QED
    BY <1>4, <2>3, <2>4
<1>8. ASSUME NEW i \in 1..Pending', NEW j \in 1..Pending', i <= j,
             \A k \in i..j : outstanding'[k].fate = 0
      PROVE  j - i + 1 <= MaxAllowed
  <2>1. CASE j = Pending + 1
    <3>1. Pending' - i + 1 <= lostInRow' /\ lostInRow' <= MaxAllowed
      BY <1>1, <1>7, <1>8, <2>1
    <3>2. lostInRow' \in Nat
      BY <1>0, <1>3
    <3> QED
      BY <1>0, <1>1, <2>1, <3>1, <3>2
  <2>2. CASE j \in 1..Pending
    <3>1. i \in 1..Pending
      BY <1>1, <1>8, <2>2
    <3>2. \A k \in i..j : outstanding[k].fate = 0
      <4> SUFFICES ASSUME NEW k \in i..j PROVE outstanding[k].fate = 0
        OBVIOUS
      <4>1. k \in 1..Pending
        BY <1>1, <2>2, <3>1
      <4> QED
        BY <1>2, <1>8, <4>1
    <3> QED
      BY <1>0, <1>8, <2>2, <3>1, <3>2 DEF LossesAreAllowed
  <2> QED
    BY <1>4, <2>1, <2>2
<1>9. lostInRow' <= MaxAllowed
  BY <1>0, <1>3
<1> QED
  BY <1>1, <1>5, <1>6, <1>7, <1>8, <1>9 DEF LossesAreAllowed

\* When the next ping is sent, the silence has lasted no longer than SentBy allows.
LEMMA SilenceBeforePing ==
  ASSUME CheckerInv
  PROVE  silent <= SentBy(Pending + 1)
<1>0. CheckerTypeOK /\ SilenceIsShort /\ PollIsDue /\ InOrder /\ silent \in Nat
      /\ pollIn \in Nat /\ lastPing \in Nat /\ Pending \in Nat
  BY FieldsOfProbes DEF CheckerInv, CheckerTypeOK
<1>1. CASE Pending = 0
  <2>1. silent <= lastPing /\ pollIn + lastPing <= IdlePeriod
    BY <1>0, <1>1 DEF SilenceIsShort, PollIsDue
  <2> QED
    BY <1>0, <1>1, <2>1 DEF SentBy
<1>2. CASE Pending > 0
  <2> DEFINE a == outstanding[1].age
             b == outstanding[Pending].age
  <2>1. a \in Nat /\ b \in Nat /\ a >= b
    BY <1>0, <1>2, FieldsOfProbes DEF InOrder
  <2>2. silent <= a + IdlePeriod /\ silent <= b + SentBy(Pending)
    BY <1>0, <1>2 DEF SilenceIsShort, SentBy
  <2>3. pollIn + a <= MaxLostPeriod \/ pollIn + b <= BusyPeriod
    BY <1>0, <1>2 DEF PollIsDue
  <2>4. /\ SentBy(Pending) \in Nat
        /\ SentBy(Pending + 1) = IdlePeriod + MaxLostPeriod + (Pending - 1) * BusyPeriod
        /\ Pending # 1 => SentBy(Pending + 1) = SentBy(Pending) + BusyPeriod
    BY <1>0, <1>2, SentByGrows
  <2>5. (Pending - 1) * BusyPeriod \in Nat
    BY <1>0, <1>2
  <2> HIDE DEF a, b
  <2>6. CASE pollIn + a <= MaxLostPeriod
    BY <1>0, <2>1, <2>2, <2>4, <2>5, <2>6
  <2>7. CASE pollIn + b <= BusyPeriod /\ Pending # 1
    BY <1>0, <2>1, <2>2, <2>4, <2>7
  <2>8. CASE pollIn + b <= BusyPeriod /\ Pending = 1
    <3>1. a = b
      BY <2>8 DEF a, b
    <3> QED
      BY <1>0, <2>1, <2>2, <2>4, <2>5, <2>8, <3>1
  <2> QED
    BY <2>3, <2>6, <2>7, <2>8
<1> QED
  BY <1>0, <1>1, <1>2

LEMMA PingKeepsSilence ==
  ASSUME CheckerInv, Pings
  PROVE  SilenceIsShort'
<1>0. CheckerTypeOK /\ SilenceIsShort /\ PollIsDue /\ InOrder /\ silent \in Nat
      /\ pollIn \in Nat /\ lastPing \in Nat
  BY DEF CheckerInv, CheckerTypeOK
<1>1. Pending' = Pending + 1 /\ Pending \in Nat /\ cut' = cut /\ silent' = silent
  BY <1>0, PingAppends, FieldsOfProbes DEF Pings
<1>2. \A i \in 1..Pending : outstanding'[i].age = outstanding[i].age
  BY PingAppends
<1>3. outstanding'[Pending + 1].age = 0
  BY PingAppends
<1>4. silent <= SentBy(Pending + 1)
  BY SilenceBeforePing
<1>5. \A j \in 1..Pending' : silent' <= outstanding'[j].age + SentBy(j)
  <2> SUFFICES ASSUME NEW j \in 1..Pending' PROVE silent' <= outstanding'[j].age + SentBy(j)
    OBVIOUS
  <2>1. CASE j \in 1..Pending
    BY <1>0, <1>1, <1>2, <2>1 DEF SilenceIsShort
  <2>2. CASE j = Pending + 1
    <3>1. SentBy(j) \in Nat
      BY <1>1, <2>2, SentByGrows
    <3> QED
      BY <1>1, <1>3, <1>4, <2>2, <3>1
  <2> QED
    BY <1>1, <2>1, <2>2
<1>6. ~cut' => silent' = 0
  BY <1>0, <1>1 DEF SilenceIsShort
<1>7. Pending' # 0
  BY <1>1
<1> QED
  BY <1>5, <1>6, <1>7 DEF SilenceIsShort, SentBy

\* Polls that are due when a ping is sent stay due.
LEMMA PingKeepsPolls ==
  ASSUME CheckerInv, Pings, pollIn' \in 0..BusyPeriod,
         Pending >= MaxAllowed => 
           \/ Pending = MaxAllowed
           \/ pollIn' + outstanding'[MaxAllowed + 1].age <= MaxLostPeriod
  PROVE  PollIsDue'
<1>0. CheckerTypeOK /\ MaxAllowed \in Nat \ {0}
  BY AllowedIsPositive DEF CheckerInv
<1>1. Pending' = Pending + 1 /\ Pending \in Nat /\ MaxAllowed' = MaxAllowed
  BY <1>0, PingAppends, FieldsOfProbes
<1>2. lastPing' = 0 /\ outstanding'[Pending'].age = 0
  BY <1>1, PingAppends
<1>3. pollIn' + lastPing' <= IdlePeriod
  BY <1>2
<1>4. pollIn' + outstanding'[Pending'].age <= BusyPeriod
  <2>1. \A x \in 0..BusyPeriod : x + 0 <= BusyPeriod
    OBVIOUS
  <2>2. pollIn' + 0 <= BusyPeriod
    BY <2>1, Zenon
  <2> QED
    BY <1>2, <2>2, Zenon
<1>5. Pending' > MaxAllowed => pollIn' + outstanding'[MaxAllowed + 1].age <= MaxLostPeriod
  <2>1. CASE Pending = MaxAllowed
    BY <1>1, <1>2, <2>1
  <2> QED
    BY <1>0, <1>1, <2>1
<1> QED
  BY <1>1, <1>2, <1>3, <1>4, <1>5 DEF PollIsDue

LEMMA PingKeepsTypes ==
  ASSUME CheckerInv, Pings, pollIn' \in 0..BusyPeriod
  PROVE  CheckerTypeOK'
<1>0. CheckerTypeOK
  BY DEF CheckerInv
<1>1. outstanding' \in Seq(Probes)
  BY PingAppends
<1>2. slowest' \in Seq(Pongs)
  <2>1. slowest \in Seq(Pongs) /\ slowest' = Earlier(slowest)
    BY <1>0, PingAppends DEF CheckerTypeOK
  <2> QED
    BY <2>1, EarlierPongs
<1>3. recent' \in SUBSET Pongs
  <2>1. recent \in SUBSET Pongs
    BY <1>0 DEF CheckerTypeOK
  <2> QED
    BY <2>1, OnePongEarlier DEF Pings, EarlierRecent
<1>4. lastPing' \in 0..IdlePeriod /\ sentTraffic' \in BOOLEAN
  BY PingAppends
<1>5. lostInRow' \in Nat
  BY <1>0, PingAppends DEF CheckerTypeOK
<1> QED
  BY <1>0, <1>1, <1>2, <1>3, <1>4, <1>5 DEF CheckerTypeOK, Pings

LEMMA PollSendsKeeps ==
  ASSUME CheckerInv, PollSends
  PROVE  CheckerInv'
<1>0. CheckerTypeOK /\ InOrder /\ MaxAllowed \in Nat \ {0} /\ slowest \in Seq(Pongs)
      /\ outstanding \in Seq(Probes)
  BY AllowedIsPositive DEF CheckerInv, CheckerTypeOK
<1>1. Pings
  BY DEF PollSends, Pings
<1>2. /\ outstanding' \in Seq(Probes) /\ Pending' = Pending + 1 /\ Pending \in Nat
      /\ MaxAllowed' = MaxAllowed
      /\ \A i \in 1..Pending : outstanding'[i].age = outstanding[i].age
      /\ outstanding'[Pending + 1].age = 0
  BY <1>0, <1>1, PingAppends, FieldsOfProbes
<1> DEFINE period == Period(LostCount(outstanding) # 0)
<1>3. period \in {BusyPeriod, IdlePeriod} /\ pollIn' = NextPoll(outstanding', 0, period)
  BY DEF PollSends, Period
<1> HIDE DEF period
<1>4. /\ pollIn' \in 0..BusyPeriod
      /\ \A i \in 1..Len(outstanding') :
           LostCount(outstanding') < i /\ (\A j \in 1..i : outstanding'[i].age <= outstanding'[j].age)
             => pollIn' + outstanding'[i].age <= MaxLostPeriod
  <2>1. period \in Nat /\ 0 <= period
    BY <1>3
  <2> QED
    BY <1>0, <1>2, <1>3, <2>1, NextPollBounds
<1>5. LostCount(outstanding') <= MaxAllowed
  <2> DEFINE c == LostCount(outstanding)
  <2>1. c \in 0..Pending /\ c <= MaxAllowed /\ (c < Pending => ~IsLost(outstanding[c + 1]))
    BY <1>0, LostPrefix DEF PollSends, Pending
  <2> HIDE DEF c
  <2>2. ~IsLost(outstanding'[c + 1])
    <3>1. CASE c < Pending
      <4>1. outstanding'[c + 1].age = outstanding[c + 1].age
        <5>1. Pending \in Nat /\ c + 1 \in 1..Pending
          BY <1>0, <2>1, <3>1, FieldsOfProbes
        <5> QED
          BY <1>2, <5>1
      <4> QED
        BY <2>1, <3>1, <4>1 DEF IsLost
    <3>2. CASE c = Pending
      <4>1. LostPeriod(slowest) \in Nat \ {0}
        BY <1>0, LostPeriodBounds
      <4> QED
        BY <1>2, <3>2, <4>1 DEF IsLost
    <3> QED
      BY <1>2, <2>1, <3>1, <3>2
  <2>3. c + 1 \in 1..Len(outstanding')
    BY <1>2, <2>1 DEF Pending
  <2>4. LostCount(outstanding') < c + 1 /\ LostCount(outstanding') \in Nat
    BY <1>2, <2>2, <2>3, NotAllLost, LostPrefix
  <2> QED
    BY <1>0, <1>2, <2>1, <2>4
<1>6. Pending >= MaxAllowed => pollIn' + outstanding'[MaxAllowed + 1].age <= MaxLostPeriod
  <2> SUFFICES ASSUME Pending >= MaxAllowed
               PROVE  pollIn' + outstanding'[MaxAllowed + 1].age <= MaxLostPeriod
    OBVIOUS
  <2>1. MaxAllowed + 1 \in 1..Len(outstanding')
    BY <1>0, <1>2 DEF Pending
  <2>2. InOrder' /\ Len(outstanding') = Pending'
    BY <1>1, PingKeepsOrder DEF Pending
  <2>3. ASSUME NEW j \in 1..(MaxAllowed + 1)
        PROVE  outstanding'[MaxAllowed + 1].age <= outstanding'[j].age
    <3>1. j \in 1..Len(outstanding') /\ outstanding'[j] \in Probes
      BY <1>0, <1>2, <2>1
    <3>2. outstanding'[j].age \in Nat
      BY <3>1 DEF Probes
    <3>3. CASE j = MaxAllowed + 1
      BY <3>2, <3>3
    <3>4. CASE j < MaxAllowed + 1
      BY <2>1, <2>2, <3>1, <3>4 DEF InOrder
    <3> QED
      BY <1>0, <3>3, <3>4
  <2>4. LostCount(outstanding') < MaxAllowed + 1
    <3>1. LostCount(outstanding') \in Nat
      BY <1>2, LostPrefix
    <3> QED
      BY <1>0, <1>5, <3>1
  <2> QED
    BY <1>4, <2>1, <2>3, <2>4
<1>7. PollIsDue' /\ CheckerTypeOK'
  BY <1>1, <1>4, <1>6, PingKeepsPolls, PingKeepsTypes
<1>8. InOrder' /\ WindowIsCovered' /\ LossesAreAllowed' /\ SilenceIsShort'
  BY <1>1, PingKeepsOrder, PingKeepsLosses, PingKeepsSilence
<1>9. NoFalseDeath'
  BY DEF CheckerInv, PollSends, NoFalseDeath
<1> QED
  BY <1>7, <1>8, <1>9 DEF CheckerInv

LEMMA PollWaitsKeeps ==
  ASSUME CheckerInv, PollWaits
  PROVE  CheckerInv'
<1>0. /\ CheckerTypeOK /\ InOrder /\ PollIsDue /\ MaxAllowed \in Nat \ {0}
      /\ slowest \in Seq(Pongs) /\ outstanding \in Seq(Probes) /\ lastPing \in Nat
      /\ Pending \in Nat /\ Pending = Len(outstanding)
  BY AllowedIsPositive, FieldsOfProbes DEF CheckerInv, CheckerTypeOK, Pending
<1>1. UNCHANGED <<outstanding, lastPing, sentTraffic, waking, slowest, dead, cut, silent,
                  lostInRow, recent>>
  BY DEF PollWaits
<1> DEFINE period == Period(PollBusy)
           c == LostCount(outstanding)
<1>2. /\ period \in {BusyPeriod, IdlePeriod} /\ (c # 0 => period = BusyPeriod)
      /\ lastPing < period /\ pollIn' = NextPoll(outstanding, lastPing, period)
      /\ c <= MaxAllowed
  BY <1>0 DEF PollWaits, Period, PollBusy, Overdue
<1>3. c \in Nat
  BY <1>0, LostPrefix
<1> HIDE DEF period
<1>4. /\ pollIn' \in 0..BusyPeriod
      /\ pollIn' + lastPing <= period
      /\ \A i \in 1..Len(outstanding) :
           c < i /\ (\A j \in 1..i : outstanding[i].age <= outstanding[j].age)
             => pollIn' + outstanding[i].age <= MaxLostPeriod
  <2>1. period \in Nat /\ lastPing <= period
    BY <1>0, <1>2
  <2> QED
    BY <1>0, <1>2, <2>1, NextPollBounds
<1> HIDE DEF c
<1>5. \A i \in 1..Pending : c < i => pollIn' + outstanding[i].age <= MaxLostPeriod
  <2> SUFFICES ASSUME NEW i \in 1..Pending, c < i
               PROVE  pollIn' + outstanding[i].age <= MaxLostPeriod
    OBVIOUS
  <2>1. ASSUME NEW j \in 1..i PROVE outstanding[i].age <= outstanding[j].age
    <3>1. j \in 1..Pending /\ outstanding[i].age \in Nat /\ outstanding[j].age \in Nat
      BY <1>0, FieldsOfProbes
    <3>2. CASE j < i
      BY <1>0, <3>1, <3>2 DEF InOrder
    <3>3. CASE j = i
      BY <3>1, <3>3
    <3> QED
      BY <3>2, <3>3
  <2> QED
    BY <1>0, <1>4, <2>1
<1>6. PollIsDue'
  <2>1. pollIn' + lastPing' <= IdlePeriod
    <3>1. period <= IdlePeriod /\ lastPing' = lastPing
      BY <1>1, <1>2
    <3>2. pollIn' \in Nat /\ lastPing \in Nat /\ period \in Nat /\ pollIn' + lastPing <= period
      BY <1>0, <1>2, <1>4
    <3>3. \A x, y, z, m \in Nat : x + y <= z /\ z <= m => x + y <= m
      OBVIOUS
    <3>4. pollIn' + lastPing <= IdlePeriod
      BY <3>1, <3>2, <3>3
    <3> QED
      BY <3>1, <3>4, Zenon
  <2>2. ASSUME Pending > 0
        PROVE  /\ lastPing = outstanding[Pending].age
               /\ \/ pollIn' + outstanding[1].age <= MaxLostPeriod
                  \/ pollIn' + outstanding[Pending].age <= BusyPeriod
    <3>1. lastPing = outstanding[Pending].age
      BY <1>0, <2>2 DEF PollIsDue
    <3>2. CASE c = 0
      BY <1>0, <1>5, <2>2, <3>1, <3>2
    <3>3. CASE c # 0
      BY <1>2, <1>4, <3>1, <3>3
    <3> QED
      BY <3>1, <3>2, <3>3
  <2>3. Pending > MaxAllowed => pollIn' + outstanding[MaxAllowed + 1].age <= MaxLostPeriod
    BY <1>0, <1>2, <1>3, <1>5
  <2> QED
    BY <1>1, <2>1, <2>2, <2>3 DEF PollIsDue, Pending, MaxAllowed
<1>7. CheckerTypeOK' /\ NoFalseDeath'
  BY <1>1, <1>4 DEF CheckerInv, CheckerTypeOK, NoFalseDeath
<1>8. InOrder' /\ WindowIsCovered' /\ LossesAreAllowed' /\ SilenceIsShort'
  BY <1>1 DEF CheckerInv, InOrder, WindowIsCovered, LossesAreAllowed, SilenceIsShort,
              Pending, MaxAllowed, SentBy
<1> QED
  BY <1>6, <1>7, <1>8 DEF CheckerInv

LEMMA SendTrafficKeeps ==
  ASSUME CheckerInv, SendTraffic
  PROVE  CheckerInv'
<1>0. CheckerTypeOK /\ PollIsDue /\ MaxAllowed \in Nat \ {0} /\ pollIn' = pollIn
      /\ pollIn \in 0..BusyPeriod /\ Pending \in Nat
  BY AllowedIsPositive, FieldsOfProbes DEF CheckerInv, CheckerTypeOK, SendTraffic
<1>1. CASE Overdue(BusyPeriod + 1)
  <2>1. Pings
    BY <1>1 DEF SendTraffic, Pings
  <2>2. ASSUME Pending >= MaxAllowed, Pending # MaxAllowed
        PROVE  pollIn' + outstanding'[MaxAllowed + 1].age <= MaxLostPeriod
    <3>1. outstanding'[MaxAllowed + 1].age = outstanding[MaxAllowed + 1].age
      BY <1>0, <2>1, <2>2, PingAppends
    <3> QED
      BY <1>0, <2>2, <3>1 DEF PollIsDue
  <2>3. PollIsDue' /\ CheckerTypeOK'
    BY <1>0, <2>1, <2>2, PingKeepsPolls, PingKeepsTypes
  <2>4. InOrder' /\ WindowIsCovered' /\ LossesAreAllowed' /\ SilenceIsShort'
    BY <2>1, PingKeepsOrder, PingKeepsLosses, PingKeepsSilence
  <2>5. NoFalseDeath'
    BY DEF CheckerInv, SendTraffic, NoFalseDeath
  <2> QED
    BY <2>3, <2>4, <2>5 DEF CheckerInv
<1>2. CASE ~Overdue(BusyPeriod + 1)
  <2>1. UNCHANGED <<outstanding, lastPing, waking, slowest, pollIn, dead, cut, silent,
                    lostInRow, recent>> /\ sentTraffic' = TRUE
    BY <1>2 DEF SendTraffic
  <2>2. CheckerTypeOK' /\ NoFalseDeath' /\ PollIsDue'
    BY <2>1 DEF CheckerInv, CheckerTypeOK, NoFalseDeath, PollIsDue, Pending, MaxAllowed
  <2>3. InOrder' /\ WindowIsCovered' /\ LossesAreAllowed' /\ SilenceIsShort'
    BY <2>1 DEF CheckerInv, InOrder, WindowIsCovered, LossesAreAllowed, SilenceIsShort,
                Pending, MaxAllowed, SentBy
  <2> QED
    BY <2>2, <2>3 DEF CheckerInv
<1> QED
  BY <1>1, <1>2

LEMMA WakeUpKeeps ==
  ASSUME CheckerInv, WakeUp
  PROVE  CheckerInv'
<1>0. pollIn \in 0..BusyPeriod /\ dead \in BOOLEAN /\ cut \in BOOLEAN
  BY DEF CheckerInv, CheckerTypeOK
<1>1. /\ pollIn' = pollIn /\ dead' = dead /\ cut' = cut /\ ~dead /\ waking' = TRUE
      /\ silent' = 0 /\ recent' = {} /\ MaxAllowed' = MaxLostAfterSleep
  BY DEF WakeUp, MaxAllowed
<1>2. /\ outstanding' \in Seq(Probes) /\ Pending' = 1
      /\ outstanding'[1].age = 0 /\ outstanding'[1].fate <= MinLostPeriod
      /\ \/ outstanding'[1].fate = 0 /\ lostInRow' = 1
         \/ outstanding'[1].fate # 0 /\ lostInRow' = 0
      /\ lastPing' = 0 /\ sentTraffic' = FALSE /\ slowest' = << >>
  <2>1. SendPing(<< >>, << >>, 0, MaxLostAfterSleep)
    BY DEF WakeUp
  <2>2. Earlier(<< >>) = << >>
    BY DEF Earlier
  <2>3. PICK fate \in Fates(0, MaxLostAfterSleep) :
          /\ outstanding' = Append(<< >>, [back |-> 1, age |-> 0, fate |-> fate])
          /\ lostInRow' = IF fate = 0 THEN 0 + 1 ELSE 0
    BY <2>1, <2>2 DEF SendPing
  <2>4. fate \in 0..MinLostPeriod
    BY RoundTripsAssumption DEF Fates
  <2>5. outstanding' = <<[back |-> 1, age |-> 0, fate |-> fate]>>
    BY <2>3
  <2>6. [back |-> 1, age |-> 0, fate |-> fate] \in Probes
    BY <2>4 DEF Probes
  <2>7. lastPing' = 0 /\ sentTraffic' = FALSE /\ slowest' = << >>
    BY <2>1, <2>2 DEF SendPing
  <2> QED
    BY <2>3, <2>4, <2>5, <2>6, <2>7 DEF Pending
<1>3. outstanding'[1] \in Probes /\ outstanding'[1].fate \in Nat
  <2>1. outstanding'[1] \in Probes
    <3>1. Len(outstanding') = 1
      BY <1>2 DEF Pending
    <3>2. 1 \in 1..Len(outstanding')
      BY <3>1
    <3> QED
      BY <1>2, <3>2
  <2> QED
    BY <2>1 DEF Probes
<1>4. \A i \in 1..Pending' : i = 1
  BY <1>2
<1>5. CheckerTypeOK'
  <2>1. slowest' \in Seq(Pongs) /\ recent' \in SUBSET Pongs
    BY <1>1, <1>2
  <2>2. lastPing' \in 0..IdlePeriod /\ lostInRow' \in Nat /\ silent' \in Nat
    BY <1>1, <1>2
  <2> QED
    BY <1>0, <1>1, <1>2, <2>1, <2>2 DEF CheckerTypeOK
<1>6. InOrder' /\ WindowIsCovered' /\ NoFalseDeath'
  BY <1>1, <1>2, <1>4 DEF InOrder, WindowIsCovered, NoFalseDeath
<1>7. LossesAreAllowed'
  <2>1. \A i, j \in 1..Pending' : j - i + 1 = 1 /\ Pending' - i + 1 = 1
    BY <1>2, <1>4
  <2>2. \A i \in 1..Pending' : i \in i..Pending'
    BY <1>2
  <2> QED
    BY <1>1, <1>2, <1>3, <1>4, <2>1, <2>2 DEF LossesAreAllowed
<1>8. PollIsDue'
  BY <1>0, <1>1, <1>2 DEF PollIsDue
<1>9. SilenceIsShort'
  BY <1>1, <1>2, <1>4 DEF SilenceIsShort, SentBy
<1> QED
  BY <1>5, <1>6, <1>7, <1>8, <1>9 DEF CheckerInv

\* A working network has answered every probe of an expired prefix but those it
\* lost, of which there are not too many.
LEMMA DieKeeps ==
  ASSUME CheckerInv, Die
  PROVE  CheckerInv'
<1>0. /\ CheckerTypeOK /\ LossesAreAllowed /\ MaxAllowed \in Nat \ {0}
      /\ slowest \in Seq(Pongs) /\ outstanding \in Seq(Probes)
      /\ Pending \in Nat /\ Pending = Len(outstanding) /\ cut \in BOOLEAN
  BY AllowedIsPositive, FieldsOfProbes DEF CheckerInv, CheckerTypeOK, Pending
<1>1. UNCHANGED <<outstanding, lastPing, sentTraffic, waking, slowest, pollIn, cut, silent,
                  lostInRow, recent>> /\ dead' = TRUE
  BY DEF Die
<1>2. cut
  <2> SUFFICES ASSUME ~cut PROVE FALSE
    OBVIOUS
  <2> DEFINE c == LostCount(outstanding)
  <2>1. c \in 0..Pending /\ c > MaxAllowed /\ \A j \in 1..c : IsLost(outstanding[j])
    BY <1>0, LostPrefix DEF Die
  <2> HIDE DEF c
  <2>2. ASSUME NEW j \in 1..c PROVE outstanding[j].fate = 0
    <3>1. j \in 1..Pending /\ j \in DOMAIN outstanding
      BY <1>0, <2>1
    <3>2. outstanding[j].age \in Nat /\ outstanding[j].fate \in Nat
      BY <1>0, <3>1, FieldsOfProbes
    <3>3. outstanding[j].age >= MinLostPeriod
      <4>1. outstanding[j].age >= LostPeriod(slowest)
        BY <2>1 DEF IsLost
      <4>2. LostPeriod(slowest) \in Nat /\ LostPeriod(slowest) >= MinLostPeriod
        BY <1>0, LostPeriodBounds
      <4> QED
        BY <3>2, <4>1, <4>2
    <3>4. ~Arrives(j)
      BY <3>1 DEF Die, PongDue
    <3>5. outstanding[j].fate <= MinLostPeriod
          /\ (outstanding[j].fate # 0 => outstanding[j].age <= outstanding[j].fate)
      BY <1>0, <3>1 DEF LossesAreAllowed
    <3> QED
      BY <3>2, <3>3, <3>4, <3>5 DEF Arrives
  <2>3. c - 1 + 1 <= MaxAllowed
    <3>1. 1 \in 1..Pending /\ c \in 1..Pending /\ 1 <= c
      BY <1>0, <2>1
    <3> QED
      BY <1>0, <2>2, <3>1 DEF LossesAreAllowed
  <2> QED
    BY <1>0, <2>1, <2>3
<1>3. CheckerTypeOK' /\ NoFalseDeath' /\ PollIsDue'
  BY <1>1, <1>2 DEF CheckerInv, CheckerTypeOK, NoFalseDeath, PollIsDue, Pending, MaxAllowed
<1>4. InOrder' /\ WindowIsCovered' /\ LossesAreAllowed' /\ SilenceIsShort'
  BY <1>1 DEF CheckerInv, InOrder, WindowIsCovered, LossesAreAllowed, SilenceIsShort,
              Pending, MaxAllowed, SentBy
<1> QED
  BY <1>3, <1>4 DEF CheckerInv

LEMMA CutKeeps ==
  ASSUME CheckerInv, Cut
  PROVE  CheckerInv'
<1>1. UNCHANGED <<outstanding, lastPing, sentTraffic, waking, slowest, pollIn, dead, silent,
                  lostInRow, recent>> /\ cut' = TRUE
  BY DEF Cut
<1>2. CheckerTypeOK' /\ NoFalseDeath' /\ PollIsDue'
  BY <1>1 DEF CheckerInv, CheckerTypeOK, NoFalseDeath, PollIsDue, Pending, MaxAllowed
<1>3. InOrder' /\ WindowIsCovered' /\ LossesAreAllowed' /\ SilenceIsShort'
  BY <1>1 DEF CheckerInv, InOrder, WindowIsCovered, LossesAreAllowed, SilenceIsShort,
              Pending, MaxAllowed, SentBy
<1> QED
  BY <1>2, <1>3 DEF CheckerInv

LEMMA OneProbeOlder ==
  ASSUME NEW p \in Probes
  PROVE  /\ [p EXCEPT !.age = @ + 1] \in Probes
         /\ [p EXCEPT !.age = @ + 1].age = p.age + 1
         /\ [p EXCEPT !.age = @ + 1].fate = p.fate
         /\ [p EXCEPT !.age = @ + 1].back = p.back
BY DEF Probes

LEMMA TickAges ==
  ASSUME CheckerTypeOK, Tick
  PROVE  /\ outstanding' \in Seq(Probes) /\ Pending' = Pending
         /\ \A i \in 1..Pending :
              /\ outstanding'[i].age = outstanding[i].age + 1
              /\ outstanding'[i].fate = outstanding[i].fate
              /\ outstanding'[i].back = outstanding[i].back
<1>1. outstanding \in Seq(Probes) /\ Pending \in Nat
      /\ DOMAIN outstanding = 1..Pending /\ Pending = Len(outstanding)
  BY DEF CheckerTypeOK, Pending
<1>2. \A i \in 1..Pending : outstanding[i] \in Probes
  BY <1>1
<1>3. outstanding' = [i \in 1..Pending |-> [outstanding[i] EXCEPT !.age = @ + 1]]
  BY <1>1 DEF Tick
<1>4. outstanding' \in [1..Pending -> Probes]
  BY <1>2, <1>3, OneProbeOlder
<1>5. outstanding' \in Seq(Probes) /\ Len(outstanding') = Pending
  BY <1>1, <1>4, FunctionIsSeq
<1>6. \A i \in 1..Pending : outstanding'[i] = [outstanding[i] EXCEPT !.age = @ + 1]
  BY <1>3
<1>7. ASSUME NEW i \in 1..Pending
      PROVE  /\ outstanding'[i].age = outstanding[i].age + 1
             /\ outstanding'[i].fate = outstanding[i].fate
             /\ outstanding'[i].back = outstanding[i].back
  BY <1>2, <1>6, OneProbeOlder
<1> QED
  BY <1>5, <1>7 DEF Pending

LEMMA TickKeeps ==
  ASSUME CheckerInv, Tick
  PROVE  CheckerInv'
<1>0. /\ CheckerTypeOK /\ InOrder /\ WindowIsCovered /\ LossesAreAllowed /\ PollIsDue
      /\ SilenceIsShort /\ NoFalseDeath /\ MaxAllowed \in Nat \ {0}
      /\ lastPing \in Nat /\ silent \in Nat /\ pollIn \in 0..BusyPeriod
  BY AllowedIsPositive DEF CheckerInv, CheckerTypeOK
<1>1. /\ UNCHANGED <<sentTraffic, waking, slowest, dead, cut, lostInRow, recent>>
      /\ pollIn > 0 /\ pollIn' = pollIn - 1 /\ MaxAllowed' = MaxAllowed
  BY DEF Tick, MaxAllowed
<1>2. lastPing' = lastPing + 1 /\ lastPing' \in 0..IdlePeriod
  <2>1. lastPing + 1 <= IdlePeriod
    BY <1>0, <1>1 DEF PollIsDue
  <2>2. {lastPing + 1, IdlePeriod} \in SUBSET Nat
    BY <1>0
  <2>3. Min({lastPing + 1, IdlePeriod}) = lastPing + 1
    BY <1>0, <2>1, <2>2, MinIsLeast
  <2> QED
    BY <1>0, <2>1, <2>3 DEF Tick
<1>3. silent' \in Nat /\ silent' <= silent + 1 /\ (~cut => silent' = silent)
  BY <1>0 DEF Tick
<1>4. /\ outstanding' \in Seq(Probes) /\ Pending' = Pending /\ Pending \in Nat
      /\ \A i \in 1..Pending :
           /\ outstanding'[i].age = outstanding[i].age + 1
           /\ outstanding'[i].fate = outstanding[i].fate
           /\ outstanding'[i].back = outstanding[i].back
           /\ outstanding[i].age \in Nat /\ outstanding[i].fate \in Nat
           /\ outstanding[i].back \in Nat
  BY <1>0, TickAges, FieldsOfProbes
<1>5. CheckerTypeOK' /\ NoFalseDeath'
  <2>1. pollIn' \in 0..BusyPeriod
    BY <1>0, <1>1
  <2> QED
    BY <1>0, <1>1, <1>2, <1>3, <1>4, <2>1 DEF CheckerTypeOK, NoFalseDeath
<1>6. InOrder'
  <2>1. ASSUME NEW i \in 1..Pending', NEW j \in 1..Pending', i < j
        PROVE  /\ outstanding'[i].age >= outstanding'[j].age
               /\ outstanding'[i].back > outstanding'[j].back
    <3>1. outstanding[i].age >= outstanding[j].age /\ outstanding[i].back > outstanding[j].back
      BY <1>0, <1>4, <2>1 DEF InOrder
    <3>2. outstanding'[i].age = outstanding[i].age + 1 /\ outstanding[i].age \in Nat
      BY <1>4
    <3>3. outstanding'[j].age = outstanding[j].age + 1 /\ outstanding[j].age \in Nat
      BY <1>4
    <3>4. outstanding'[i].back = outstanding[i].back /\ outstanding'[j].back = outstanding[j].back
      BY <1>4
    <3> QED
      BY <3>1, <3>2, <3>3, <3>4
  <2> QED
    BY <1>0, <1>1, <1>4, <2>1 DEF InOrder
<1>7. WindowIsCovered'
  BY <1>0, <1>1 DEF WindowIsCovered
<1>8. LossesAreAllowed'
  <2>1. ~cut' => \A i \in 1..Pending' :
          outstanding'[i].fate # 0 => outstanding'[i].age <= outstanding'[i].fate
    <3> SUFFICES ASSUME ~cut, NEW i \in 1..Pending, outstanding'[i].fate # 0
                 PROVE  outstanding'[i].age <= outstanding'[i].fate
      BY <1>1, <1>4
    <3>1. outstanding[i].age <= outstanding[i].fate
      BY <1>0, <1>4 DEF LossesAreAllowed
    <3>2. i \in DOMAIN outstanding
      BY <1>0 DEF Pending, CheckerTypeOK
    <3>3. ~Arrives(i)
      BY <3>2 DEF Tick, PongDue
    <3>4. /\ outstanding'[i].age = outstanding[i].age + 1
          /\ outstanding'[i].fate = outstanding[i].fate
          /\ outstanding[i].age \in Nat /\ outstanding[i].fate \in Nat
      BY <1>4
    <3>5. outstanding[i].age < outstanding[i].fate
      BY <3>1, <3>3, <3>4 DEF Arrives
    <3> QED
      BY <3>4, <3>5
  <2>2. \A i \in 1..Pending' : outstanding'[i].fate <= MinLostPeriod
    BY <1>0, <1>4 DEF LossesAreAllowed
  <2>3. ASSUME NEW i \in 1..Pending', NEW j \in 1..Pending', i <= j,
               \A k \in i..j : outstanding'[k].fate = 0
        PROVE  j - i + 1 <= MaxAllowed
    <3>1. \A k \in i..j : outstanding[k].fate = 0
      BY <1>4, <2>3
    <3> QED
      BY <1>0, <1>4, <2>3, <3>1 DEF LossesAreAllowed
  <2>4. ASSUME NEW i \in 1..Pending', \A k \in i..Pending' : outstanding'[k].fate = 0
        PROVE  Pending' - i + 1 <= lostInRow'
    <3>1. \A k \in i..Pending : outstanding[k].fate = 0
      BY <1>4, <2>4
    <3> QED
      BY <1>0, <1>1, <1>4, <3>1 DEF LossesAreAllowed
  <2> QED
    BY <1>0, <1>1, <2>1, <2>2, <2>3, <2>4 DEF LossesAreAllowed
<1>9. PollIsDue'
  <2>1. pollIn' + lastPing' <= IdlePeriod
    BY <1>0, <1>1, <1>2 DEF PollIsDue
  <2>2. ASSUME Pending > 0
        PROVE  /\ lastPing' = outstanding'[Pending].age
               /\ \/ pollIn' + outstanding'[1].age <= MaxLostPeriod
                  \/ pollIn' + outstanding'[Pending].age <= BusyPeriod
    <3>1. 1 \in 1..Pending /\ Pending \in 1..Pending
      BY <1>4, <2>2
    <3>2. /\ outstanding'[1].age = outstanding[1].age + 1 /\ outstanding[1].age \in Nat
          /\ outstanding'[Pending].age = outstanding[Pending].age + 1
          /\ outstanding[Pending].age \in Nat
      BY <1>4, <3>1
    <3>3. /\ lastPing = outstanding[Pending].age
          /\ \/ pollIn + outstanding[1].age <= MaxLostPeriod
             \/ pollIn + outstanding[Pending].age <= BusyPeriod
      BY <1>0, <2>2 DEF PollIsDue
    <3> QED
      BY <1>0, <1>1, <1>2, <3>2, <3>3
  <2>3. Pending > MaxAllowed => pollIn' + outstanding'[MaxAllowed + 1].age <= MaxLostPeriod
    <3> SUFFICES ASSUME Pending > MaxAllowed
                 PROVE  pollIn' + outstanding'[MaxAllowed + 1].age <= MaxLostPeriod
      OBVIOUS
    <3>1. MaxAllowed + 1 \in 1..Pending
      BY <1>0, <1>4
    <3>2. /\ outstanding'[MaxAllowed + 1].age = outstanding[MaxAllowed + 1].age + 1
          /\ outstanding[MaxAllowed + 1].age \in Nat
      BY <1>4, <3>1
    <3>3. pollIn + outstanding[MaxAllowed + 1].age <= MaxLostPeriod
      BY <1>0 DEF PollIsDue
    <3> QED
      BY <1>0, <1>1, <3>2, <3>3
  <2> QED
    BY <1>1, <1>4, <2>1, <2>2, <2>3 DEF PollIsDue
<1>10. SilenceIsShort'
  <2>1. \A j \in 1..Pending' : silent' <= outstanding'[j].age + SentBy(j)
    <3> SUFFICES ASSUME NEW j \in 1..Pending PROVE silent' <= outstanding'[j].age + SentBy(j)
      BY <1>4
    <3>1. silent <= outstanding[j].age + SentBy(j)
      BY <1>0 DEF SilenceIsShort
    <3>2. SentBy(j) \in Nat
      BY SentByGrows
    <3>3. outstanding'[j].age = outstanding[j].age + 1 /\ outstanding[j].age \in Nat
      BY <1>4
    <3> QED
      BY <1>0, <1>3, <3>1, <3>2, <3>3
  <2>2. Pending' = 0 => silent' <= lastPing'
    BY <1>0, <1>2, <1>3, <1>4 DEF SilenceIsShort
  <2>3. ~cut' => silent' = 0
    BY <1>0, <1>1, <1>3 DEF SilenceIsShort
  <2> QED
    BY <2>1, <2>2, <2>3 DEF SilenceIsShort, SentBy
<1> QED
  BY <1>5, <1>6, <1>7, <1>8, <1>9, <1>10 DEF CheckerInv

LEMMA SubSeqShifts ==
  ASSUME NEW S, NEW s \in Seq(S), NEW m \in 1..(Len(s) + 1), NEW n \in (m - 1)..Len(s)
  PROVE  /\ SubSeq(s, m, n) \in Seq(S) /\ Len(SubSeq(s, m, n)) = n - m + 1
         /\ \A i \in 1..(n - m + 1) : SubSeq(s, m, n)[i] = s[m + i - 1]
<1>1. \A i \in m..n : s[i] \in S
  OBVIOUS
<1>2. SubSeq(s, m, n) = [i \in 1..(n - m + 1) |-> s[i + m - 1]]
  OBVIOUS
<1>3. SubSeq(s, m, n) \in [1..(n - m + 1) -> S]
  <2>1. \A i \in 1..(n - m + 1) : s[i + m - 1] \in S
    BY <1>1
  <2> QED
    BY <1>2, <2>1
<1>4. n - m + 1 \in Nat
  OBVIOUS
<1>5. SubSeq(s, m, n) \in Seq(S) /\ Len(SubSeq(s, m, n)) = n - m + 1
  BY <1>3, <1>4, FunctionIsSeq
<1>6. \A i \in 1..(n - m + 1) : SubSeq(s, m, n)[i] = s[m + i - 1]
  BY <1>2
<1> QED
  BY <1>5, <1>6

\* Pongs of which the later ones are younger and faster.
Falling(slow) ==
  \A i, j \in 1..Len(slow) : i < j =>
     slow[i].back > slow[j].back /\ slow[i].rtt > slow[j].rtt

LEMMA WindowIsSuffix ==
  ASSUME NEW slow \in Seq(Pongs), Falling(slow), NEW back \in Nat
  PROVE  \E c \in 0..Len(slow) :
           /\ InWindow(slow, back) = SubSeq(slow, c + 1, Len(slow))
           /\ \A i \in 1..c : slow[i].back - back > Window
           /\ \A i \in (c + 1)..Len(slow) : slow[i].back - back <= Window
<1> DEFINE T == {k \in DOMAIN slow : \A j \in 1..k : slow[j].back - back > Window}
           n == Len(slow)
           c == Cardinality(T)
<1>1. T \in SUBSET (1..n) /\ n \in Nat /\ \A i \in 1..n : slow[i] \in Pongs
  OBVIOUS
<1>2. \A k \in T : \A j \in 1..k : j \in T
  OBVIOUS
<1>3. c \in 0..n /\ T = 1..c
  BY <1>1, <1>2, InitialSegment
<1>4. InWindow(slow, back) = SubSeq(slow, c + 1, n)
  BY DEF InWindow
<1>5. \A i \in 1..c : slow[i].back - back > Window
  BY <1>3
<1>6. \A i \in 1..n : slow[i].back \in Nat
  BY <1>1 DEF Pongs
<1>7. ASSUME NEW i \in (c + 1)..n PROVE slow[i].back - back <= Window
  <2>1. c + 1 \in 1..n /\ i \in 1..n
    BY <1>1, <1>3
  <2>2. slow[c + 1].back - back <= Window
    <3>1. c + 1 \notin T
      <4> HIDE DEF T, c
      <4>1. T = 1..c /\ c \in Nat
        BY <1>1, <1>3
      <4> QED
        BY <4>1
    <3>2. \E j \in 1..(c + 1) : ~(slow[j].back - back > Window)
      <4>1. \A k \in 1..n : k \notin T => \E j \in 1..k : ~(slow[j].back - back > Window)
        OBVIOUS
      <4> HIDE DEF c, T
      <4> QED
        BY <2>1, <3>1, <4>1
    <3>3. ~(slow[c + 1].back - back > Window)
      <4>1. PICK j \in 1..(c + 1) : ~(slow[j].back - back > Window)
        BY <3>2
      <4>2. j \notin 1..c
        BY <1>5, <4>1
      <4> HIDE DEF c
      <4>3. c \in Nat
        BY <1>1, <1>3
      <4>4. j = c + 1
        BY <4>2, <4>3
      <4> QED
        BY <4>1, <4>4
    <3>4. slow[c + 1].back \in Nat
      BY <1>6, <2>1
    <3> DEFINE e == slow[c + 1].back
    <3> HIDE DEF c, e
    <3>5. ~(e - back > Window) /\ e \in Nat /\ back \in Nat /\ Window \in Nat
      BY <3>3, <3>4 DEF e
    <3>6. e - back <= Window
      BY <3>5
    <3> QED
      BY <3>6 DEF e
  <2>3. slow[i].back <= slow[c + 1].back
    <3> HIDE DEF c
    <3>1. CASE i = c + 1
      BY <1>6, <2>1, <3>1
    <3>2. CASE i > c + 1
      BY <1>6, <2>1, <3>2 DEF Falling
    <3> QED
      BY <1>3, <3>1, <3>2
  <2>4. slow[i].back \in Nat /\ slow[c + 1].back \in Nat
    BY <1>6, <2>1
  <2>5. \A a, b \in Nat : a <= b /\ b - back <= Window => a - back <= Window
    OBVIOUS
  <2> HIDE DEF c
  <2> QED
    BY <2>2, <2>3, <2>4, <2>5
<1> HIDE DEF c
<1> QED
  BY <1>3, <1>4, <1>5, <1>7

LEMMA SlowerIsPrefix ==
  ASSUME NEW slow \in Seq(Pongs), Falling(slow), NEW rtt \in Nat
  PROVE  \E d \in 0..Len(slow) :
           /\ Slower(slow, rtt) = SubSeq(slow, 1, d)
           /\ \A i \in 1..d : slow[i].rtt > rtt
           /\ \A i \in (d + 1)..Len(slow) : slow[i].rtt <= rtt
<1> DEFINE T == {k \in DOMAIN slow : \A j \in k..Len(slow) : slow[j].rtt <= rtt}
           n == Len(slow)
           d == n - Cardinality(T)
<1>1. T \in SUBSET (1..n) /\ n \in Nat /\ \A i \in 1..n : slow[i] \in Pongs
  OBVIOUS
<1>2. \A k \in T : \A j \in k..n : j \in T
  OBVIOUS
<1>3. Cardinality(T) \in 0..n /\ T = (n - Cardinality(T) + 1)..n
  BY <1>1, <1>2, FinalSegment
<1>4. d \in 0..n /\ T = (d + 1)..n
  <2>1. d \in 0..n
    <3>1. \A a \in 0..n : n - a \in 0..n
      BY <1>1
    <3> QED
      BY <1>3, <3>1
  <2> QED
    BY <1>3, <2>1
<1>5. Slower(slow, rtt) = SubSeq(slow, 1, d)
  BY DEF Slower
<1>6. \A i \in (d + 1)..n : slow[i].rtt <= rtt
  <2> SUFFICES ASSUME NEW i \in (d + 1)..n PROVE slow[i].rtt <= rtt
    OBVIOUS
  <2>1. i \in T
    BY <1>4
  <2>2. i \in i..n
    BY <1>1, <2>1
  <2> QED
    BY <2>1, <2>2
<1>7. \A i \in 1..n : slow[i].rtt \in Nat
  BY <1>1 DEF Pongs
<1>8. ASSUME NEW i \in 1..d PROVE slow[i].rtt > rtt
  <2>0. d \in 1..n /\ i \in 1..n /\ d \in Nat
    <3> HIDE DEF d
    <3> QED
      BY <1>1, <1>4
  <2>1. d \notin T
    <3> HIDE DEF d, T
    <3> QED
      BY <1>4, <2>0
  <2>2. PICK j \in d..n : ~(slow[j].rtt <= rtt)
    <3>1. \A k \in 1..n : k \notin T => \E j \in k..n : ~(slow[j].rtt <= rtt)
      OBVIOUS
    <3> HIDE DEF d, T
    <3> QED
      BY <2>0, <2>1, <3>1
  <2>3. j = d
    <3>1. j \notin (d + 1)..n
      BY <1>6, <2>2
    <3> HIDE DEF d
    <3> QED
      BY <1>1, <2>0, <3>1
  <2>4. slow[d].rtt > rtt
    <3>1. ~(slow[d].rtt <= rtt)
      BY <2>2, <2>3
    <3>2. slow[d].rtt \in Nat
      BY <1>7, <2>0
    <3> HIDE DEF d
    <3> QED
      BY <3>1, <3>2
  <2> HIDE DEF d
  <2>5. CASE i = d
    BY <2>4, <2>5
  <2>6. CASE i # d
    <3>1. i < d /\ slow[i].rtt \in Nat /\ slow[d].rtt \in Nat
      BY <1>7, <2>0, <2>6
    <3>2. slow[i].rtt > slow[d].rtt
      BY <2>0, <3>1 DEF Falling
    <3> QED
      BY <2>4, <3>1, <3>2
  <2> QED
    BY <2>5, <2>6
<1> HIDE DEF d
<1> QED
  BY <1>4, <1>5, <1>6, <1>8

\* The new list u is a stretch of the old one, after c and d pongs long, and the
\* new pong: what is before the stretch is too old, what is after it too fast.
Stretch(u, slow, back, rtt, c, d) ==
  /\ c + d <= Len(slow)
  /\ u \in Seq(Pongs) /\ Len(u) = d + 1
  /\ \A i \in 1..d : u[i] = slow[c + i]
  /\ u[d + 1] = [back |-> back, rtt |-> rtt]
  /\ \A i \in 1..c : slow[i].back - back > Window
  /\ \A i \in (c + 1)..Len(slow) : slow[i].back - back <= Window
  /\ \A i \in (c + 1)..(c + d) : slow[i].rtt > rtt
  /\ \A i \in (c + d + 1)..Len(slow) : slow[i].rtt <= rtt

LEMMA UpdateKeepsStretch ==
  ASSUME NEW slow \in Seq(Pongs), Falling(slow), NEW back \in Nat \ {0}, NEW rtt \in Nat
  PROVE  \E c, d \in Nat : Stretch(UpdateSlowest(slow, back, rtt), slow, back, rtt, c, d)
<1> DEFINE n == Len(slow)
           w == InWindow(slow, back)
           new == [back |-> back, rtt |-> rtt]
<1>0. n \in Nat /\ new \in Pongs
  BY DEF Pongs
<1>1. PICK c \in 0..n :
        /\ w = SubSeq(slow, c + 1, n)
        /\ \A i \in 1..c : slow[i].back - back > Window
        /\ \A i \in (c + 1)..n : slow[i].back - back <= Window
  BY WindowIsSuffix
<1>2. w \in Seq(Pongs) /\ Len(w) = n - c /\ \A i \in 1..(n - c) : w[i] = slow[c + i]
  <2>1. c + 1 \in 1..(n + 1) /\ n \in ((c + 1) - 1)..n /\ n - (c + 1) + 1 = n - c
    BY <1>0
  <2>2. SubSeq(slow, c + 1, n) \in Seq(Pongs) /\ Len(SubSeq(slow, c + 1, n)) = n - (c + 1) + 1
        /\ \A i \in 1..(n - (c + 1) + 1) : SubSeq(slow, c + 1, n)[i] = slow[(c + 1) + i - 1]
    BY <2>1, SubSeqShifts
  <2>3. \A i \in 1..(n - c) : (c + 1) + i - 1 = c + i
    BY <1>0
  <2> HIDE DEF w
  <2>4. w \in Seq(Pongs) /\ Len(w) = n - c
    BY <1>1, <2>1, <2>2, Zenon
  <2>5. ASSUME NEW i \in 1..(n - c) PROVE w[i] = slow[c + i]
    BY <1>1, <2>1, <2>2, <2>3, Zenon
  <2> QED
    BY <2>4, <2>5
<1> HIDE DEF w
<1>3. Falling(w)
  <2> SUFFICES ASSUME NEW i \in 1..Len(w), NEW j \in 1..Len(w), i < j
               PROVE  w[i].back > w[j].back /\ w[i].rtt > w[j].rtt
    BY DEF Falling
  <2>0. n \in Nat /\ c \in 0..n /\ i \in 1..(n - c) /\ j \in 1..(n - c) /\ i < j
    BY <1>0, <1>2
  <2> HIDE DEF n
  <2>1. /\ w[i] = slow[c + i] /\ w[j] = slow[c + j]
        /\ c + i \in 1..n /\ c + j \in 1..n /\ c + i < c + j
    <3>1. w[i] = slow[c + i] /\ w[j] = slow[c + j]
      BY <1>2, <2>0
    <3>2. c + i \in 1..n /\ c + j \in 1..n /\ c + i < c + j
      BY <2>0
    <3> QED
      BY <3>1, <3>2
  <2> USE DEF n
  <2> QED
    BY <2>1 DEF Falling
<1>4. PICK d \in 0..Len(w) :
        /\ Slower(w, rtt) = SubSeq(w, 1, d)
        /\ \A i \in 1..d : w[i].rtt > rtt
        /\ \A i \in (d + 1)..Len(w) : w[i].rtt <= rtt
  BY <1>2, <1>3, SlowerIsPrefix
<1> DEFINE s == Slower(w, rtt)
           u == UpdateSlowest(slow, back, rtt)
<1>5. s \in Seq(Pongs) /\ Len(s) = d /\ \A i \in 1..d : s[i] = w[i]
  <2>1. 1 \in 1..(Len(w) + 1) /\ d \in (1 - 1)..Len(w) /\ d - 1 + 1 = d /\ Len(w) \in Nat
    BY <1>0, <1>2
  <2>2. SubSeq(w, 1, d) \in Seq(Pongs) /\ Len(SubSeq(w, 1, d)) = d - 1 + 1
        /\ \A i \in 1..(d - 1 + 1) : SubSeq(w, 1, d)[i] = w[1 + i - 1]
    BY <1>2, <2>1, SubSeqShifts
  <2>3. \A i \in 1..d : 1 + i - 1 = i
    OBVIOUS
  <2> HIDE DEF s
  <2>4. s = SubSeq(w, 1, d)
    BY <1>4 DEF s
  <2> QED
    BY <2>1, <2>2, <2>3, <2>4
<1>6. u = Append(s, new)
  BY DEF UpdateSlowest, w
<1> HIDE DEF s, u, new
<1>7. u \in Seq(Pongs) /\ Len(u) = d + 1 /\ (\A i \in 1..d : u[i] = s[i]) /\ u[d + 1] = new
  BY <1>0, <1>5, <1>6
<1>8. c \in Nat /\ d \in Nat /\ c + d <= n
  BY <1>0, <1>2
<1>9. \A i \in 1..d : u[i] = slow[c + i]
  <2> SUFFICES ASSUME NEW i \in 1..d PROVE u[i] = slow[c + i]
    OBVIOUS
  <2>1. i \in 1..(n - c)
    BY <1>0, <1>2
  <2> QED
    BY <1>2, <1>5, <1>7, <2>1
<1>10. ASSUME NEW i \in (c + 1)..(c + d) PROVE slow[i].rtt > rtt
  <2>1. i - c \in 1..d /\ i - c \in 1..(n - c) /\ c + (i - c) = i
    BY <1>0, <1>8
  <2> QED
    BY <1>2, <1>4, <2>1
<1>11. ASSUME NEW i \in (c + d + 1)..n PROVE slow[i].rtt <= rtt
  <2>1. c \in Nat /\ d \in Nat /\ n \in Nat /\ Len(w) = n - c /\ i \in (c + d + 1)..n
    BY <1>0, <1>2, <1>8, <1>11
  <2> HIDE DEF n
  <2>2. i - c \in (d + 1)..(n - c) /\ i - c \in 1..(n - c) /\ c + (i - c) = i
    BY <2>1
  <2>3. w[i - c].rtt <= rtt
    BY <1>4, <2>1, <2>2
  <2>4. w[i - c] = slow[c + (i - c)]
    BY <1>2, <2>2
  <2> QED
    BY <2>2, <2>3, <2>4
<1> QED
  <2>1. Stretch(u, slow, back, rtt, c, d)
    BY <1>1, <1>7, <1>8, <1>9, <1>10, <1>11 DEF Stretch, new
  <2> QED
    BY <1>8, <2>1 DEF u

LEMMA PongKeeps ==
  ASSUME CheckerInv, Pong
  PROVE  CheckerInv'
<1>0. /\ CheckerTypeOK /\ InOrder /\ WindowIsCovered /\ LossesAreAllowed /\ PollIsDue
      /\ SilenceIsShort /\ NoFalseDeath /\ MaxAllowed \in Nat \ {0}
      /\ slowest \in Seq(Pongs) /\ outstanding \in Seq(Probes) /\ recent \in SUBSET Pongs
      /\ Pending = Len(outstanding) /\ Pending \in Nat /\ pollIn \in Nat /\ lastPing \in Nat
  BY AllowedIsPositive, FieldsOfProbes DEF CheckerInv, CheckerTypeOK, Pending
<1>1. PICK k \in 1..Pending :
        /\ Arrives(k)
        /\ slowest' = UpdateSlowest(slowest, outstanding[k].back, outstanding[k].age)
        /\ outstanding' = Forget(k)
        /\ recent' = {p \in recent : p.back - outstanding[k].back <= Window}
                       \cup {[back |-> outstanding[k].back, rtt |-> outstanding[k].age]}
  BY <1>0 DEF Pong
<1> DEFINE back == outstanding[k].back
           rtt == outstanding[k].age
           new == [back |-> back, rtt |-> rtt]
           left == Pending - k
<1>2. /\ back \in Nat \ {0} /\ rtt \in Nat /\ new \in Pongs /\ left \in Nat /\ ~cut
      /\ new.back = back /\ new.rtt = rtt
  BY <1>0, <1>1, FieldsOfProbes DEF Pongs, Arrives
<1>3. UNCHANGED <<lastPing, sentTraffic, pollIn, dead, cut, silent, lostInRow>> /\ waking' = FALSE
  BY DEF Pong
<1>4. MaxAllowed' = MaxLost /\ MaxAllowed <= MaxLost
  BY <1>3 DEF MaxAllowed
<1>5. /\ slowest' = UpdateSlowest(slowest, back, rtt)
      /\ recent' = {p \in recent : p.back - back <= Window} \cup {new}
      /\ \A p \in recent : back < p.back
  BY <1>0, <1>1 DEF InOrder
<1>6. /\ outstanding' \in Seq(Probes) /\ Pending' = left
      /\ \A i \in 1..left : outstanding'[i] = outstanding[k + i]
  <2>1. k + 1 \in 1..(Len(outstanding) + 1) /\ Len(outstanding) \in ((k + 1) - 1)..Len(outstanding)
        /\ Len(outstanding) - (k + 1) + 1 = left
    BY <1>0
  <2>2. LET s == SubSeq(outstanding, k + 1, Len(outstanding))
        IN  /\ s \in Seq(Probes) /\ Len(s) = Len(outstanding) - (k + 1) + 1
            /\ \A i \in 1..(Len(outstanding) - (k + 1) + 1) : s[i] = outstanding[(k + 1) + i - 1]
    BY <1>0, <2>1, SubSeqShifts
  <2>3. outstanding' = SubSeq(outstanding, k + 1, Len(outstanding))
    BY <1>1 DEF Forget
  <2>4. \A i \in 1..left : (k + 1) + i - 1 = k + i
    BY <1>2
  <2> HIDE DEF left
  <2> QED
    BY <2>1, <2>2, <2>3, <2>4 DEF Pending
<1>7. ASSUME NEW i \in 1..left
      PROVE  /\ k + i \in 1..Pending
             /\ outstanding[k + i].age \in Nat /\ outstanding[k + i].back \in Nat
             /\ outstanding[k + i].fate \in Nat
  <2>1. k + i \in 1..Pending
    BY <1>0
  <2> QED
    BY <1>0, <2>1, FieldsOfProbes
<1>8. Falling(slowest)
  BY <1>0 DEF InOrder, Falling
<1>9. PICK c \in Nat, d \in Nat : Stretch(slowest', slowest, back, rtt, c, d)
  <2> HIDE DEF back, rtt
  <2> QED
    BY <1>0, <1>2, <1>5, <1>8, UpdateKeepsStretch
<1>10. /\ c + d <= Len(slowest)
       /\ slowest' \in Seq(Pongs) /\ Len(slowest') = d + 1
       /\ \A i \in 1..d : slowest'[i] = slowest[c + i]
       /\ slowest'[d + 1] = new
       /\ \A i \in 1..c : slowest[i].back - back > Window
       /\ \A i \in (c + 1)..Len(slowest) : slowest[i].back - back <= Window
       /\ \A i \in (c + 1)..(c + d) : slowest[i].rtt > rtt
       /\ \A i \in (c + d + 1)..Len(slowest) : slowest[i].rtt <= rtt
  BY <1>9 DEF Stretch
<1> HIDE DEF back, rtt, new, left
<1>11. \A i \in 1..Len(slowest) :
         /\ slowest[i] \in recent /\ slowest[i].back \in Nat /\ slowest[i].rtt \in Nat
  BY <1>0, FieldsOfPongs DEF WindowIsCovered
<1>12. /\ Len(slowest) \in Nat
       /\ \A i \in 1..d : c + i \in 1..Len(slowest) /\ c + i \in (c + 1)..Len(slowest)
  <2>1. Len(slowest) \in Nat
    BY <1>0
  <2> QED
    BY <1>10, <2>1
<1>13. CheckerTypeOK' /\ NoFalseDeath'
  <2>1. recent' \in SUBSET Pongs
    BY <1>0, <1>2, <1>5
  <2> QED
    BY <1>0, <1>3, <1>6, <1>10, <2>1 DEF CheckerTypeOK, NoFalseDeath
<1>14. WindowIsCovered'
  <2>1. ASSUME NEW i \in 1..Len(slowest') PROVE slowest'[i] \in recent'
    <3>1. CASE i = d + 1
      BY <1>5, <1>10, <3>1
    <3>2. CASE i \in 1..d
      <4>1. c + i \in 1..Len(slowest) /\ c + i \in (c + 1)..Len(slowest)
        BY <1>12, <3>2, Zenon
      <4>2. slowest[c + i] \in recent /\ slowest[c + i].back - back <= Window
        BY <1>10, <1>11, <4>1
      <4> QED
        BY <1>5, <1>10, <3>2, <4>2
    <3> QED
      BY <1>10, <3>1, <3>2
  <2>2. ASSUME NEW p \in recent'
        PROVE  \E i \in 1..Len(slowest') : slowest'[i].back <= p.back /\ p.rtt <= slowest'[i].rtt
    <3>0. d + 1 \in 1..Len(slowest') /\ slowest'[d + 1].back = back /\ slowest'[d + 1].rtt = rtt
      BY <1>2, <1>10
    <3>1. CASE p = new
      <4>1. slowest'[d + 1].back <= p.back /\ p.rtt <= slowest'[d + 1].rtt
        BY <1>2, <3>0, <3>1
      <4> QED
        BY <3>0, <4>1
    <3>2. CASE p \in recent /\ p.back - back <= Window
      <4>0. p.back \in Nat /\ p.rtt \in Nat /\ back < p.back
        BY <1>0, <1>5, <3>2, FieldsOfPongs
      <4>1. PICK i \in 1..Len(slowest) : slowest[i].back <= p.back /\ p.rtt <= slowest[i].rtt
        BY <1>0, <3>2 DEF WindowIsCovered
      <4>2. slowest[i].back \in Nat /\ slowest[i].rtt \in Nat
        BY <1>11
      <4>3. slowest[i].back - back <= Window
        <5>1. \A a, b \in Nat : a <= b /\ b - back <= Window => a - back <= Window
          BY <1>2
        <5> QED
          BY <3>2, <4>0, <4>1, <4>2, <5>1
      <4>4. i \notin 1..c
        <5> DEFINE y == slowest[i].back
                   e == y - back
        <5>1. back \in Nat /\ Window \in Nat
          BY <1>2
        <5>2. e <= Window
          BY <4>3
        <5>5. y \in Nat
          BY <4>2
        <5> HIDE DEF y, back
        <5>0. e \in Int /\ e <= Window /\ Window \in Nat
          BY <5>1, <5>2, <5>5
        <5> HIDE DEF e
        <5>3. ~(e > Window)
          BY <5>0
        <5>4. ~(slowest[i].back - back > Window)
          BY <5>3 DEF e, y, back
        <5> QED
          BY <1>10, <5>4
      <4>5. CASE i \in (c + 1)..(c + d)
        <5>1. i - c \in 1..d /\ c + (i - c) = i /\ i - c \in 1..Len(slowest')
          BY <1>10, <4>5
        <5>2. slowest'[i - c] = slowest[i]
          BY <1>10, <5>1
        <5> QED
          BY <4>1, <5>1, <5>2
      <4>6. CASE i \in (c + d + 1)..Len(slowest)
        <5>1. slowest[i].rtt <= rtt
          BY <1>10, <4>6
        <5>2. back <= p.back /\ p.rtt <= rtt
          <6>1. back <= p.back
            BY <1>2, <4>0
          <6>2. p.rtt <= rtt
            BY <1>2, <4>0, <4>1, <4>2, <5>1
          <6> QED
            BY <6>1, <6>2
        <5> QED
          BY <3>0, <5>2
      <4> QED
        BY <1>10, <1>12, <4>4, <4>5, <4>6
    <3> QED
      BY <1>5, <3>1, <3>2
  <2>3. ASSUME NEW p \in recent', NEW q \in recent'
        PROVE  p.back <= q.back + Window
    <3>1. back \in Nat /\ Window \in Nat
      BY <1>2, LimitsOfChecker
    <3>2. \A x \in recent' : x.back \in Nat /\ back <= x.back /\ x.back <= back + Window
      <4>1. ASSUME NEW x \in recent, x.back - back <= Window
            PROVE  x.back \in Nat /\ back <= x.back /\ x.back <= back + Window
        <5>1. x.back \in Nat /\ back < x.back
          BY <1>0, <1>5, FieldsOfPongs
        <5> DEFINE b == x.back
        <5>2. b \in Nat /\ back < b /\ b - back <= Window
          BY <4>1, <5>1
        <5> HIDE DEF b
        <5>3. back <= b /\ b <= back + Window
          BY <3>1, <5>2
        <5> QED
          BY <5>1, <5>3 DEF b
      <4>2. new.back \in Nat /\ back <= new.back /\ new.back <= back + Window
        BY <1>2, <3>1
      <4> QED
        BY <1>5, <4>1, <4>2
    <3> QED
      BY <3>1, <3>2
  <2> QED
    BY <2>1, <2>2, <2>3 DEF WindowIsCovered
<1>15. InOrder'
  <2>1. ASSUME NEW i \in 1..Pending', NEW j \in 1..Pending', i < j
        PROVE  /\ outstanding'[i].age >= outstanding'[j].age
               /\ outstanding'[i].back > outstanding'[j].back
    <3>1. i \in 1..left /\ j \in 1..left
      BY <1>6
    <3>2. k + i \in 1..Pending /\ k + j \in 1..Pending /\ k + i < k + j
      BY <1>7, <2>1, <3>1
    <3> QED
      BY <1>0, <1>6, <3>1, <3>2 DEF InOrder
  <2>2. ASSUME NEW i \in 1..Len(slowest'), NEW j \in 1..Len(slowest'), i < j
        PROVE  slowest'[i].back > slowest'[j].back /\ slowest'[i].rtt > slowest'[j].rtt
    <3>1. i \in 1..d /\ (j \in 1..d \/ j = d + 1)
      BY <1>10, <2>2
    <3>2. c + i \in 1..Len(slowest) /\ slowest'[i] = slowest[c + i]
      BY <1>10, <1>12, <3>1
    <3>3. CASE j \in 1..d
      <4>1. c + j \in 1..Len(slowest) /\ slowest'[j] = slowest[c + j] /\ c + i < c + j
        <5>1. c + j \in 1..Len(slowest)
          BY <1>12, <3>3
        <5>2. slowest'[j] = slowest[c + j]
          BY <1>10, <3>3
        <5>3. c + i < c + j
          BY <2>2
        <5> QED
          BY <5>1, <5>2, <5>3
      <4> QED
        BY <1>0, <3>2, <4>1 DEF InOrder
    <3>4. CASE j = d + 1
      <4>1. slowest'[j].back = back /\ slowest'[j].rtt = rtt
        BY <1>2, <1>10, <3>4
      <4>2. c + i \in (c + 1)..(c + d)
        BY <3>1
      <4>3. slowest[c + i].rtt > rtt
        BY <1>10, <4>2
      <4>4. back < slowest[c + i].back /\ slowest[c + i].back \in Nat
        BY <1>5, <1>11, <3>2
      <4> QED
        BY <1>2, <3>2, <4>1, <4>3, <4>4
    <3> QED
      BY <3>1, <3>3, <3>4
  <2>3. ASSUME NEW i \in 1..Pending', NEW p \in recent' PROVE outstanding'[i].back < p.back
    <3>1. i \in 1..left /\ outstanding'[i] = outstanding[k + i] /\ k + i \in 1..Pending
      BY <1>6, <1>7
    <3>2. CASE p = new
      <4>1. k < k + i
        BY <3>1
      <4>2. outstanding[k].back > outstanding[k + i].back
        BY <1>0, <3>1, <4>1 DEF InOrder
      <4>3. outstanding[k + i].back \in Nat
        BY <1>7, <3>1
      <4> QED
        BY <1>2, <3>1, <3>2, <4>2, <4>3 DEF back
    <3>3. CASE p \in recent
      BY <1>0, <3>1, <3>3 DEF InOrder
    <3> QED
      BY <1>5, <3>2, <3>3
  <2> QED
    BY <2>1, <2>2, <2>3 DEF InOrder
<1>16. LossesAreAllowed'
  <2>1. \A i \in 1..Pending' :
          /\ outstanding'[i].fate <= MinLostPeriod
          /\ outstanding'[i].fate # 0 => outstanding'[i].age <= outstanding'[i].fate
    BY <1>0, <1>2, <1>6, <1>7 DEF LossesAreAllowed
  <2>2. ASSUME NEW i \in 1..Pending', NEW j \in 1..Pending', i <= j,
               \A m \in i..j : outstanding'[m].fate = 0
        PROVE  j - i + 1 <= MaxAllowed'
    <3>1. i \in 1..left /\ j \in 1..left /\ k + i \in 1..Pending /\ k + j \in 1..Pending
      BY <1>6, <1>7
    <3>2. \A m \in (k + i)..(k + j) : outstanding[m].fate = 0
      <4> SUFFICES ASSUME NEW m \in (k + i)..(k + j) PROVE outstanding[m].fate = 0
        OBVIOUS
      <4>1. m - k \in i..j /\ m - k \in 1..left /\ k + (m - k) = m
        BY <1>2, <3>1
      <4> QED
        BY <1>6, <2>2, <4>1
    <3>3. (k + j) - (k + i) + 1 <= MaxAllowed
      <4>1. k + i <= k + j
        BY <2>2
      <4> QED
        BY <1>0, <3>1, <3>2, <4>1 DEF LossesAreAllowed
    <3>4. MaxAllowed \in Int /\ MaxAllowed' = MaxLost /\ MaxAllowed <= MaxLost /\ MaxLost \in Int
      BY <1>0, <1>4 DEF MaxAllowed
    <3>5. k \in Int /\ i \in Int /\ j \in Int
      BY <1>2, <3>1
    <3>6. j - i + 1 <= MaxAllowed
      BY <3>3, <3>4, <3>5, DistanceShifts
    <3>7. \A m \in Int : m <= MaxAllowed => m <= MaxLost
      BY <3>4
    <3> QED
      BY <3>4, <3>5, <3>6, <3>7
  <2>3. ASSUME NEW i \in 1..Pending', \A m \in i..Pending' : outstanding'[m].fate = 0
        PROVE  Pending' - i + 1 <= lostInRow'
    <3>1. i \in 1..left /\ k + i \in 1..Pending /\ k + left = Pending
      BY <1>0, <1>6, <1>7 DEF left
    <3>2. \A m \in (k + i)..Pending : outstanding[m].fate = 0
      <4> SUFFICES ASSUME NEW m \in (k + i)..Pending PROVE outstanding[m].fate = 0
        OBVIOUS
      <4>0. k \in Nat /\ left \in Nat /\ Pending \in Nat /\ i \in 1..left /\ k + left = Pending
        BY <1>0, <1>2, <3>1
      <4> HIDE DEF left, Pending
      <4>1. m - k \in i..left /\ m - k \in 1..left /\ k + (m - k) = m
        BY <4>0
      <4> QED
        BY <1>6, <2>3, <4>1
    <3>3. Pending - (k + i) + 1 <= lostInRow
      BY <1>0, <3>1, <3>2 DEF LossesAreAllowed
    <3>4. lostInRow \in Nat /\ lostInRow' = lostInRow
      BY <1>0, <1>3 DEF CheckerTypeOK
    <3> QED
      BY <1>0, <1>2, <1>6, <3>1, <3>3, <3>4
  <2>4. lostInRow' <= MaxAllowed'
    <3>1. lostInRow <= MaxAllowed /\ lostInRow \in Nat
      BY <1>0 DEF LossesAreAllowed, CheckerTypeOK
    <3> QED
      BY <1>0, <1>3, <1>4, <3>1
  <2> QED
    BY <1>2, <2>1, <2>2, <2>3, <2>4 DEF LossesAreAllowed
<1>17. PollIsDue'
  <2>1. pollIn' + lastPing' <= IdlePeriod
    BY <1>0, <1>3 DEF PollIsDue
  <2>2. ASSUME left > 0
        PROVE  /\ lastPing = outstanding'[left].age
               /\ \/ pollIn + outstanding'[1].age <= MaxLostPeriod
                  \/ pollIn + outstanding'[left].age <= BusyPeriod
    <3>1. 1 \in 1..left /\ left \in 1..left /\ k + left = Pending /\ 1 < k + 1 /\ Pending > 0
          /\ 1 \in 1..Pending
      BY <1>0, <1>2, <2>2 DEF left
    <3>2. outstanding'[left] = outstanding[Pending] /\ outstanding'[1] = outstanding[k + 1]
          /\ k + 1 \in 1..Pending
      BY <1>6, <1>7, <3>1
    <3>3. outstanding[1].age >= outstanding[k + 1].age
      BY <1>0, <3>1, <3>2 DEF InOrder
    <3>4. outstanding[1].age \in Nat /\ outstanding[k + 1].age \in Nat
      BY <1>0, <3>1, <3>2, FieldsOfProbes
    <3>5. /\ lastPing = outstanding[Pending].age
          /\ \/ pollIn + outstanding[1].age <= MaxLostPeriod
             \/ pollIn + outstanding[Pending].age <= BusyPeriod
      BY <1>0, <3>1 DEF PollIsDue
    <3>6. pollIn + outstanding[1].age <= MaxLostPeriod => pollIn + outstanding[k + 1].age <= MaxLostPeriod
      <4>1. pollIn \in Int /\ MaxLostPeriod \in Int
        BY <1>0
      <4>2. outstanding[k + 1].age <= outstanding[1].age
        BY <3>3, <3>4
      <4> QED
        BY <3>4, <4>1, <4>2, SumShrinks
    <3> QED
      BY <3>2, <3>5, <3>6
  <2>3. ASSUME left > MaxLost PROVE pollIn + outstanding'[MaxLost + 1].age <= MaxLostPeriod
    <3>1. MaxLost + 1 \in 1..left /\ MaxAllowed + 1 < k + (MaxLost + 1)
          /\ MaxAllowed + 1 \in 1..Pending /\ Pending > MaxAllowed
      <4>1. /\ k \in Nat /\ k >= 1 /\ Pending \in Nat /\ MaxLost \in Nat /\ MaxAllowed \in Nat
            /\ left \in Nat /\ left = Pending - k /\ MaxAllowed <= MaxLost /\ left > MaxLost
        BY <1>0, <1>2, <1>4, <2>3 DEF left
      <4> HIDE DEF left, MaxAllowed, Pending
      <4> QED
        BY <4>1, Surplus
    <3>2. outstanding'[MaxLost + 1] = outstanding[k + (MaxLost + 1)]
          /\ k + (MaxLost + 1) \in 1..Pending
      BY <1>6, <1>7, <3>1
    <3>3. outstanding[MaxAllowed + 1].age >= outstanding[k + (MaxLost + 1)].age
      BY <1>0, <3>1, <3>2 DEF InOrder
    <3>4. outstanding[MaxAllowed + 1].age \in Nat /\ outstanding[k + (MaxLost + 1)].age \in Nat
      BY <1>0, <3>1, <3>2, FieldsOfProbes
    <3>5. pollIn + outstanding[MaxAllowed + 1].age <= MaxLostPeriod
      BY <1>0, <3>1 DEF PollIsDue
    <3>6. pollIn + outstanding[k + (MaxLost + 1)].age <= MaxLostPeriod
      <4>1. \A x, y \in Nat : x >= y /\ pollIn + x <= MaxLostPeriod => pollIn + y <= MaxLostPeriod
        BY <1>0
      <4> QED
        BY <3>3, <3>4, <3>5, <4>1
    <3> QED
      BY <3>2, <3>6
  <2> QED
    BY <1>3, <1>4, <1>6, <2>1, <2>2, <2>3 DEF PollIsDue
<1>18. SilenceIsShort'
  <2>1. silent' = 0
    BY <1>0, <1>2, <1>3 DEF SilenceIsShort
  <2>2. \A j \in 1..Pending' : silent' <= outstanding'[j].age + SentBy(j)
    <3> SUFFICES ASSUME NEW j \in 1..Pending' PROVE silent' <= outstanding'[j].age + SentBy(j)
      OBVIOUS
    <3>1. outstanding'[j] = outstanding[k + j] /\ outstanding[k + j].age \in Nat
      BY <1>6, <1>7
    <3>2. SentBy(j) \in Nat
      <4>1. j \in Nat \ {0}
        BY <1>2, <1>6
      <4> QED
        BY <4>1, SentByGrows
    <3> QED
      BY <2>1, <3>1, <3>2
  <2> QED
    BY <1>0, <1>3, <2>1, <2>2 DEF SilenceIsShort, SentBy
<1> QED
  BY <1>13, <1>14, <1>15, <1>16, <1>17, <1>18 DEF CheckerInv

-----------------------------------------------------------------------------
(* Theorems about the liveness checker                                     *)

LEMMA CheckerInvIsInvariant == CheckerSpec => []CheckerInv
<1>1. CheckerInv /\ [CheckerNext]_checkerVars => CheckerInv'
  <2> SUFFICES ASSUME CheckerInv, [CheckerNext]_checkerVars PROVE CheckerInv'
    OBVIOUS
  <2>1. CASE Die
    BY <2>1, DieKeeps
  <2>2. CASE PollSends
    BY <2>2, PollSendsKeeps
  <2>3. CASE PollWaits
    BY <2>3, PollWaitsKeeps
  <2>4. CASE Pong
    BY <2>4, PongKeeps
  <2>5. CASE SendTraffic
    BY <2>5, SendTrafficKeeps
  <2>6. CASE WakeUp
    BY <2>6, WakeUpKeeps
  <2>7. CASE Tick
    BY <2>7, TickKeeps
  <2>8. CASE Cut
    BY <2>8, CutKeeps
  <2>9. CASE UNCHANGED checkerVars
    <3>1. UNCHANGED <<outstanding, lastPing, sentTraffic, waking, slowest, pollIn, dead, cut,
                      silent, lostInRow, recent>>
      BY <2>9 DEF checkerVars
    <3>2. CheckerTypeOK' /\ NoFalseDeath' /\ PollIsDue'
      BY <3>1 DEF CheckerInv, CheckerTypeOK, NoFalseDeath, PollIsDue, Pending, MaxAllowed
    <3>3. InOrder' /\ WindowIsCovered' /\ LossesAreAllowed' /\ SilenceIsShort'
      BY <3>1 DEF CheckerInv, InOrder, WindowIsCovered, LossesAreAllowed, SilenceIsShort,
                  Pending, MaxAllowed, SentBy
    <3> QED
      BY <3>2, <3>3 DEF CheckerInv
  <2> QED
    BY <2>1, <2>2, <2>3, <2>4, <2>5, <2>6, <2>7, <2>8, <2>9 DEF CheckerNext, DeadDropped
<1> QED
  BY <1>1, CheckerStarts, PTL DEF CheckerSpec

\* The state of the checker has its types (liveness.rs, struct LivenessChecker).
THEOREM CheckerTypes == CheckerSpec => []CheckerTypeOK
<1>1. CheckerInv => CheckerTypeOK
  BY DEF CheckerInv
<1> QED
  BY <1>1, CheckerInvIsInvariant, PTL

\* LivenessChecker::poll never gives up on a network that works, for every
\* choice of the periods, of the numbers of losses and of the losses themselves:
\* each expired probe at the head of the queue is one the network has lost.
THEOREM WorkingNetworkStaysAlive == CheckerSpec => []NoFalseDeath
<1>1. CheckerInv => NoFalseDeath
  BY DEF CheckerInv
<1> QED
  BY <1>1, CheckerInvIsInvariant, PTL

\* LivenessChecker::poll notices a network that has stopped working within
\* Bound: either so few probes are outstanding that the last was sent early, or
\* the probe that is one too many is about to expire.
THEOREM DeadNetworkIsNoticed == CheckerSpec => []DeathIsNoticed
<1>1. CheckerInv => DeathIsNoticed
  <2> SUFFICES ASSUME CheckerInv PROVE silent <= Bound
    BY DEF DeathIsNoticed
  <2> DEFINE M == MaxAllowed
             n == Pending
  <2>1. M \in Nat \ {0} /\ M <= MaxLost /\ n \in Nat /\ CheckerTypeOK /\ silent \in Nat
        /\ lastPing \in Nat /\ SilenceIsShort /\ PollIsDue /\ pollIn \in Nat
    BY AllowedIsPositive, FieldsOfProbes DEF CheckerInv, CheckerTypeOK, MaxAllowed
  <2>2. \A a, b \in Nat : a <= b => a * BusyPeriod <= b * BusyPeriod
    BY SMT
  <2>3. (MaxLost - 1) * BusyPeriod \in Nat
    BY SMT
  <2>4. CASE n = 0
    <3>1. silent <= IdlePeriod
      BY <2>1, <2>4 DEF SilenceIsShort, PollIsDue
    <3> QED
      BY <2>1, <2>3, <3>1 DEF Bound
  <2>5. CASE n # 0 /\ n <= M
    <3>1. silent <= IdlePeriod + MaxLostPeriod + (n - 1) * BusyPeriod
      BY <2>1, <2>5, SilenceBeforePing, SentByGrows
    <3>2. (n - 1) * BusyPeriod <= (MaxLost - 1) * BusyPeriod /\ (n - 1) * BusyPeriod \in Nat
      <4>1. n - 1 \in Nat /\ MaxLost - 1 \in Nat /\ n - 1 <= MaxLost - 1
        BY <2>1, <2>5
      <4>2. (n - 1) * BusyPeriod <= (MaxLost - 1) * BusyPeriod
        BY <2>2, <4>1
      <4>3. (n - 1) * BusyPeriod \in Nat
        BY <4>1
      <4> QED
        BY <4>2, <4>3
    <3> HIDE DEF n
    <3> QED
      BY <2>1, <2>3, <3>1, <3>2 DEF Bound
  <2>6. CASE n > M
    <3> DEFINE a == outstanding[M + 1].age
    <3>1. M + 1 \in 1..n
      BY <2>1, <2>6
    <3>2. a \in Nat /\ pollIn + a <= MaxLostPeriod /\ silent <= a + SentBy(M + 1)
      BY <2>1, <2>6, <3>1, FieldsOfProbes DEF SilenceIsShort, PollIsDue
    <3>3. SentBy(M + 1) = IdlePeriod + MaxLostPeriod + (M - 1) * BusyPeriod
      BY <2>1, SentByGrows
    <3>4. (M - 1) * BusyPeriod <= (MaxLost - 1) * BusyPeriod /\ (M - 1) * BusyPeriod \in Nat
      <4>1. M - 1 \in Nat /\ MaxLost - 1 \in Nat /\ M - 1 <= MaxLost - 1
        BY <2>1
      <4>2. (M - 1) * BusyPeriod <= (MaxLost - 1) * BusyPeriod
        BY <2>2, <4>1
      <4>3. (M - 1) * BusyPeriod \in Nat
        BY <4>1
      <4> QED
        BY <4>2, <4>3
    <3> HIDE DEF a, M
    <3> QED
      BY <2>1, <2>3, <3>2, <3>3, <3>4 DEF Bound
  <2> QED
    BY <2>1, <2>4, <2>5, <2>6
<1> QED
  BY <1>1, CheckerInvIsInvariant, PTL

\* The head of slowest_pongs is the slowest pong of the window, although all but
\* the pongs that may yet become the slowest are dropped (update_slowest_pongs).
THEOREM SlowestIsKnown == CheckerSpec => []SlowestIsMaximum
<1>1. CheckerInv => SlowestIsMaximum
  <2>0. ASSUME CheckerInv
        PROVE  PongsOfLast(Window + 1) = recent
    <3>1. Window \in Nat /\ \A p \in recent : p.back \in Nat
      BY <2>0, LimitsOfChecker, FieldsOfPongs DEF CheckerInv
    <3>2. \A p, q \in recent : p.back <= q.back + Window
      BY <2>0 DEF CheckerInv, WindowIsCovered
    <3>3. \A p, q \in recent : p.back - q.back < Window + 1
      BY <3>1, <3>2
    <3> QED
      BY <3>3 DEF PongsOfLast
  <2> SUFFICES ASSUME CheckerInv, recent # {}
               PROVE  slowest # << >> /\ slowest[1].rtt = Max({p.rtt : p \in recent})
    BY <2>0 DEF SlowestIsMaximum
  <2> DEFINE R == {p.rtt : p \in recent}
             first == slowest[1].rtt
  <2>1. CheckerTypeOK /\ WindowIsCovered /\ InOrder /\ slowest \in Seq(Pongs)
    BY DEF CheckerInv, CheckerTypeOK
  <2>2. Len(slowest) \in Nat /\ \A i \in 1..Len(slowest) : slowest[i].rtt \in Nat
    BY <2>1, FieldsOfPongs
  <2>3. 1 \in 1..Len(slowest) /\ slowest # << >>
    <3>1. PICK i \in 1..Len(slowest) : TRUE
      BY <2>1 DEF WindowIsCovered
    <3> QED
      BY <2>1, <2>2, <3>1
  <2>4. first \in R
    BY <2>1, <2>3 DEF WindowIsCovered
  <2>5. ASSUME NEW r \in R PROVE first >= r /\ r \in Nat
    <3>1. PICK p \in recent : r = p.rtt
      OBVIOUS
    <3>2. PICK i \in 1..Len(slowest) : p.rtt <= slowest[i].rtt
      BY <2>1 DEF WindowIsCovered
    <3>3. r \in Nat
      BY <2>1, <3>1, FieldsOfPongs
    <3>4. slowest[1].rtt >= slowest[i].rtt
      <4>1. CASE i = 1
        BY <2>2, <2>3, <4>1
      <4>2. CASE 1 < i
        <5>1. slowest[1].rtt > slowest[i].rtt
          BY <2>1, <2>3, <4>2 DEF InOrder
        <5> QED
          BY <2>2, <2>3, <5>1
      <4> QED
        BY <2>2, <4>1, <4>2
    <3> QED
      BY <2>2, <2>3, <3>1, <3>2, <3>3, <3>4
  <2> HIDE DEF R, first
  <2>6. \A x \in R : x \in Nat
    BY <2>5
  <2>7. \A x \in R : (\A y \in R : x >= y) => x = first
    BY <2>4, <2>5, <2>6
  <2>8. Max(R) \in R /\ \A y \in R : Max(R) >= y
    BY <2>4, <2>5 DEF Max
  <2>9. Max(R) = first
    BY <2>7, <2>8
  <2> QED
    BY <2>3, <2>9 DEF R, first
<1> QED
  BY <1>1, CheckerInvIsInvariant, PTL
=============================================================================
