-------------------------- MODULE LinuxHost_proofs --------------------------
(***************************************************************************)
(* Proofs about the Linux service on its host: its hold on the operating   *)
(* system (LinuxOs), for every set of configurations and of sockets, and   *)
(* what its clients know of it (StatusWatch), for every set of phases and  *)
(* every set of versions that does not run out.                            *)
(***************************************************************************)
EXTENDS LinuxOs, StatusWatch, TLAPS

-----------------------------------------------------------------------------
(* LinuxOs: its inductive invariant                                        *)

\* What the steps a call has taken without an error have put in force.
Done(step) ==
  CASE step = "dns" -> call.step \in {"nft", "acks", "tun", "returned"}
    [] step = "nft" -> \/ call.step = "returned"
                       \/ call.step = "tun" /\ call.op = "set"
    [] step = "tun" -> \/ call.step = "returned"
                       \/ call.step \in {"nft", "acks"} /\ call.op = "unset"

UnderWay == call.step # "idle"

\* The arguments and the state of a call fit together.
CallShape ==
  /\ UnderWay => running /\ call.op \in {"set", "unset"}
  /\ ~running => call = Idle /\ reader = None
  /\ call.op = "set" => call.cfg \in Configs
  /\ call.op = "unset" => call.cfg = None
  /\ call.op = "none" => call.step = "idle"
  /\ call.step = "choose" => call.ok
  /\ UnderWay /\ call.step # "choose" /\ call.ok =>
       (dnsManaged => call.manager \in Managers)

InForceSoFar ==
  UnderWay /\ call.ok =>
    /\ desired = Policy(call.op, call.cfg)
    /\ Done("nft") => nft = Policy(call.op, call.cfg)
    /\ Done("tun") => tun = call.cfg
    /\ Done("tun") /\ call.op = "set" => reader = call.cfg
    /\ Done("dns") /\ dnsManaged => dns[call.manager] = call.cfg

\* The answers that wait for the call are those to its batch, and its last
\* message is acknowledged behind acknowledgements only if all were accepted.
AnswersTell ==
  call.step = "acks" =>
    \A k \in DOMAIN replies[socket] :
      /\ replies[socket][k].seq = LastSeq(Policy(call.op, call.cfg))
      /\ \A j \in 1..k : replies[socket][j].ok
      => nft = Policy(call.op, call.cfg)

\* The tables have an owner that somebody holds.  As long as nothing fails
\* between the service and the fd store, it is the one socket that both hold.
OwnerShape ==
  /\ nft = "absent" <=> owner = None
  /\ owner # None => owner \in open \cup stored
  /\ IF running THEN socket \in open ELSE open = {}
  /\ ~lapse => IF running THEN stored = {socket} /\ open = {socket}
                         ELSE stored = {} \/ \E s \in Sockets : stored = {s}

IInv == TypeOK /\ CallShape /\ InForceSoFar /\ AnswersTell /\ OwnerShape

USE NoneIsNothing, ConfigsAreOpaque

LEMMA Initially == Init => IInv
<1> SUFFICES ASSUME Init PROVE IInv
  OBVIOUS
<1> USE DEF Init
<1>1. call \in Call /\ call.op = "none" /\ call.step = "idle"
  BY DEF Idle, Call, Steps, Managers
<1>2. dns \in [Managers -> Configs \cup {None, "partial"}]
  BY DEF NoDns
<1>3. TypeOK
  <2>1. \A s \in Sockets : << >> \in Seq(Reply)
    OBVIOUS
  <2> QED
    BY <1>1, <1>2, <2>1 DEF TypeOK, Policies
<1> QED
  BY <1>1, <1>3 DEF IInv, CallShape, InForceSoFar, AnswersTell, OwnerShape, UnderWay

\* How the steps of a call change it.
LEMMA ChosenCall ==
  ASSUME call \in Call, ManagerChosen
  PROVE  \E m \in Managers \cup {"Disabled"} :
           /\ dnsManaged => m \in Managers
           /\ call' = [call EXCEPT !.step = "dns", !.manager = m]
<1>1. PICK m \in IF dnsManaged THEN Managers ELSE {"Disabled"} :
        call' = [call EXCEPT !.step = "dns", !.manager = m]
  BY DEF ManagerChosen, Detected, Choices
<1>2. m \in Managers \cup {"Disabled"} /\ (dnsManaged => m \in Managers)
  BY <1>1
<1> QED
  BY <1>1, <1>2

LEMMA Advanced ==
  ASSUME call \in Call, NEW ok \in BOOLEAN, Advance(ok), call.step \in Steps
  PROVE  /\ call' \in Call
         /\ call'.op = call.op /\ call'.cfg = call.cfg
         /\ call'.manager = call.manager
         /\ call'.ok = (call.ok /\ ok)
         /\ call'.step = After(call.op, call.step)
<1>1. After(call.op, call.step) \in Steps \cup {"returned"}
  BY DEF After, AfterSet, AfterUnset, Steps
<1> QED
  BY <1>1 DEF Advance, Call

LEMMA DnsConfigured ==
  ASSUME TypeOK, CallShape, ConfigureDns
  PROVE  /\ dns' \in [Managers -> Configs \cup {None, "partial"}]
         /\ tun' \in {tun, "partial"}
         /\ \E ok \in BOOLEAN :
              /\ Advance(ok)
              /\ call.ok /\ ok /\ dnsManaged => dns'[call.manager] = call.cfg
<1>1. CASE call.manager = "Disabled"
  <2>1. call.ok => ~dnsManaged
    BY <1>1 DEF CallShape, UnderWay, ConfigureDns, Managers
  <2> QED
    BY <1>1, <2>1 DEF ConfigureDns, TypeOK
<1>2. CASE call.manager # "Disabled"
  <2>1. call.manager \in Managers /\ call.cfg \in Configs \cup {None}
    BY <1>2 DEF TypeOK, Call
  <2>2. PICK ok \in BOOLEAN :
          /\ Advance(ok)
          /\ tun' \in {tun, "partial"}
          /\ \E v \in Outcome(dns[call.manager], call.cfg, ok) :
               dns' = [dns EXCEPT ![call.manager] = v]
    BY <1>2 DEF ConfigureDns, ResolvedDns, NetworkManagerDns, SetDns, Outcome
  <2>3. PICK v \in Outcome(dns[call.manager], call.cfg, ok) :
          dns' = [dns EXCEPT ![call.manager] = v]
    BY <2>2
  <2>4. v \in Configs \cup {None, "partial"} /\ (ok => v = call.cfg)
    BY <2>1, <2>3 DEF Outcome, TypeOK
  <2> QED
    BY <2>1, <2>2, <2>3, <2>4 DEF TypeOK
<1> QED
  BY <1>1, <1>2

\* What can be read from a socket is a sequence of answers, and so is the rest.
LEMMA AnswersAreRead ==
  ASSUME NEW r \in Seq(Reply)
  PROVE  /\ Len(r) \in Nat /\ DOMAIN r = 1..Len(r)
         /\ \A k \in DOMAIN r :
              k \in Nat /\ r[k].ok \in BOOLEAN /\ SubSeq(r, k + 1, Len(r)) \in Seq(Reply)
<1>1. Len(r) \in Nat /\ DOMAIN r = 1..Len(r) /\ \A k \in 1..Len(r) : r[k] \in Reply
  OBVIOUS
<1>2. \A k \in 1..Len(r) : r[k].ok \in BOOLEAN
  BY <1>1 DEF Reply
<1>3. ASSUME NEW k \in 1..Len(r)
      PROVE  SubSeq(r, k + 1, Len(r)) \in Seq(Reply)
  OBVIOUS
<1> QED
  BY <1>1, <1>2, <1>3

\* The answers to a batch: as many as it has messages, in their order.
LEMMA BatchIsAnswered ==
  ASSUME NEW p, NEW accepted \in BOOLEAN, NEW r \in Answers(p, accepted)
  PROVE  /\ LastSeq(p) \in Nat
         /\ r \in Seq(Reply) /\ DOMAIN r = 1..LastSeq(p)
         /\ \A k \in 1..LastSeq(p) : r[k].seq = k
         /\ accepted = \A k \in 1..LastSeq(p) : r[k].ok
         /\ DiscardStaleReplies \o r = r
<1>1. LastSeq(p) \in Nat
  BY DEF LastSeq
<1>2. PICK good \in [1..LastSeq(p) -> BOOLEAN] :
        /\ accepted = \A k \in 1..LastSeq(p) : good[k]
        /\ r = [k \in 1..LastSeq(p) |-> [seq |-> k, ok |-> good[k]]]
  BY DEF Answers
<1>3. \A k \in 1..LastSeq(p) : r[k] = [seq |-> k, ok |-> good[k]] /\ r[k] \in Reply
  BY <1>1, <1>2 DEF Reply
<1>4. r \in [1..LastSeq(p) -> Reply] /\ r \in Seq(Reply)
  BY <1>1, <1>2, <1>3
<1>5. DiscardStaleReplies \o r = r
  BY <1>4 DEF DiscardStaleReplies
<1> QED
  BY <1>1, <1>2, <1>3, <1>4, <1>5

\* A socket that is let go of takes its tables along; others keep them.
LEMMA HoldersKeep ==
  ASSUME TypeOK, nft = "absent" <=> owner = None,
         NEW holders \in SUBSET Sockets, Held(holders)
  PROVE  /\ nft' \in Policies \cup {"absent"} /\ owner' \in Sockets \cup {None}
         /\ replies' \in [Sockets -> Seq(Reply)]
         /\ nft' = "absent" <=> owner' = None
         /\ owner' # None => owner' \in holders
         /\ nft' # nft => owner \notin holders /\ nft' = "absent"
<1>1. << >> \in Seq(Reply)
  OBVIOUS
<1>2. replies' \in [Sockets -> Seq(Reply)]
  BY <1>1 DEF Held, TypeOK
<1> QED
  BY <1>2 DEF Held, TypeOK

\* A start is handed the one socket of the store, or creates one that is not there.
LEMMA SocketIsFound ==
  ASSUME TypeOK, AdoptTable
  PROVE  /\ socket' \in Sockets /\ open' \in SUBSET Sockets /\ stored' \in SUBSET Sockets
         /\ socket' \in open' /\ lapse' \in BOOLEAN
         /\ ~lapse' => stored' = {socket'} /\ open' = {socket'}
         /\ \/ stored = {socket'}
            \/ /\ socket' \notin stored
               /\ ~lapse' => \A s \in Sockets : stored # {s}
         /\ Held(open' \cup stored')
<1>1. PICK received \in Received :
        \/ \E s \in HandedOut(received) : Adopt(s)
        \/ HandedOut(received) = {} /\ CreateSocket(received)
  BY DEF AdoptTable
<1>2. received = stored \/ received = {}
  BY DEF Received
<1>3. CASE \E s \in HandedOut(received) : Adopt(s)
  <2>1. PICK s \in Sockets : received = {s} /\ Adopt(s)
    BY <1>3 DEF HandedOut
  <2> QED
    BY <1>2, <2>1 DEF Adopt, TypeOK, AdoptTable
<1>4. CASE HandedOut(received) = {} /\ CreateSocket(received)
  <2>1. PICK s \in Sockets \ stored :
          /\ socket' = s
          /\ RemoveOldAndStore(s, received)
          /\ open' \in {{s}, {s} \cup (stored \ received)}
    BY <1>4 DEF CreateSocket
  <2>2. PICK removed \in BOOLEAN, taken \in BOOLEAN :
          /\ stored' = (IF removed THEN {} ELSE stored) \cup (IF taken THEN {s} ELSE {})
          /\ lapse' = ~(received = stored /\ removed /\ taken)
    BY <2>1 DEF RemoveOldAndStore
  <2>3. \A q \in Sockets : received # {q}
    BY <1>4 DEF HandedOut
  <2>4. ~lapse' => stored' = {s} /\ open' = {s} /\ \A q \in Sockets : stored # {q}
    BY <2>1, <2>2, <2>3
  <2>5. open' \in SUBSET Sockets /\ stored' \in SUBSET Sockets /\ s \in open'
    BY <2>1, <2>2 DEF TypeOK
  <2> QED
    BY <2>1, <2>2, <2>4, <2>5 DEF AdoptTable
<1> QED
  BY <1>1, <1>3, <1>4

LEMMA Ended ==
  ASSUME Exit \/ Stop
  PROVE  /\ call' \in Call /\ call'.step = "idle" /\ call'.op = "none"
         /\ call' = Idle /\ reader' = None
         /\ dns' \in [Managers -> Configs \cup {None, "partial"}]
<1>1. call' = Idle /\ dns' = NoDns /\ reader' = None
  BY DEF Exit, Stop, Gone
<1>2. Idle \in Call /\ Idle.step = "idle" /\ Idle.op = "none"
  BY DEF Idle, Call, Managers, Steps
<1>3. NoDns \in [Managers -> Configs \cup {None, "partial"}]
  BY DEF NoDns
<1> QED
  BY <1>1, <1>2, <1>3

LEMMA TypeStep == TypeOK /\ CallShape /\ OwnerShape /\ [Next]_vars => TypeOK'
<1> SUFFICES ASSUME TypeOK, CallShape, OwnerShape, [Next]_vars PROVE TypeOK'
  OBVIOUS
<1>0. ASSUME NEW p, NEW accepted \in BOOLEAN, NEW r \in Answers(p, accepted)
      PROVE  DiscardStaleReplies \o r \in Seq(Reply)
  BY BatchIsAnswered
<1> USE DEF TypeOK, CallShape, Call, Steps, Managers, Policies, UnderWay, tables, sockets
<1>1. CASE SetOsNetworkConfig
  <2>1. PICK c \in Configs : Begin("set", c)
    BY <1>1 DEF SetOsNetworkConfig
  <2>2. call' = [Idle EXCEPT !.op = "set", !.cfg = c, !.step = "choose"]
    BY <2>1 DEF Begin
  <2>3. call' \in Call
    BY <2>2 DEF Idle
  <2>4. desired' \in Policies
    BY <2>1 DEF Begin, Policy
  <2> QED
    BY <2>1, <2>3, <2>4 DEF Begin
<1>2. CASE UnsetOsNetworkConfig
  <2>1. call' = [Idle EXCEPT !.op = "unset", !.cfg = None, !.step = "choose"]
    BY <1>2 DEF UnsetOsNetworkConfig, Begin
  <2>2. call' \in Call
    BY <2>1 DEF Idle
  <2>3. desired' \in Policies
    BY <1>2 DEF UnsetOsNetworkConfig, Begin, Policy
  <2> QED
    BY <1>2, <2>2, <2>3 DEF UnsetOsNetworkConfig, Begin
<1>3. CASE ManagerChosen
  <2>1. PICK m \in Managers \cup {"Disabled"} :
          call' = [call EXCEPT !.step = "dns", !.manager = m]
    BY <1>3, ChosenCall
  <2>2. call' \in Call
    BY <2>1
  <2> QED
    BY <1>3, <2>2 DEF ManagerChosen
<1>4. CASE NoManager
  BY <1>4 DEF NoManager
<1>5. CASE ConfigureDns
  <2>1. PICK ok \in BOOLEAN : Advance(ok)
    BY <1>5, DnsConfigured
  <2>2. call' \in Call
    BY <1>5, <2>1, Advanced DEF ConfigureDns
  <2>3. dns' \in [Managers -> Configs \cup {None, "partial"}] /\ tun' \in {tun, "partial"}
    BY <1>5, DnsConfigured
  <2> QED
    BY <1>5, <2>2, <2>3 DEF ConfigureDns
<1>6. CASE ConfigureNft
  <2> DEFINE p == Policy(call.op, call.cfg)
  <2>0. p \in Policies /\ socket \in Sockets
    BY <1>6 DEF ConfigureNft, Policy, OwnerShape
  <2>1. CASE SendBatch(p)
    <3>0. PICK accepted \in BOOLEAN : \E r \in Answers(p, accepted) :
            /\ IF accepted THEN BatchAccepted(p) ELSE BatchRejected
            /\ replies' = [replies EXCEPT ![socket] = DiscardStaleReplies \o r]
            /\ call' = [call EXCEPT !.step = "acks"]
      BY <2>1 DEF SendBatch
    <3>1. PICK r \in Answers(p, accepted) :
            /\ IF accepted THEN BatchAccepted(p) ELSE BatchRejected
            /\ replies' = [replies EXCEPT ![socket] = DiscardStaleReplies \o r]
            /\ call' = [call EXCEPT !.step = "acks"]
      BY <3>0
    <3>2. DiscardStaleReplies \o r \in Seq(Reply)
      BY <1>0, Zenon
    <3>3. replies' \in [Sockets -> Seq(Reply)]
      BY <3>1, <3>2
    <3>4. nft' \in Policies \cup {"absent"} /\ owner' \in Sockets \cup {None}
      BY <2>0, <3>1 DEF BatchAccepted, BatchRejected
    <3>5. call' \in Call
      BY <3>1
    <3> QED
      BY <1>6, <3>3, <3>4, <3>5 DEF ConfigureNft
  <2>2. CASE SendFails
    <3>1. call' \in Call
      BY <1>6, <2>2, Advanced DEF ConfigureNft, SendFails
    <3>2. << >> \in Seq(Reply) /\ replies \in [Sockets -> Seq(Reply)]
      OBVIOUS
    <3>3. replies' \in [Sockets -> Seq(Reply)]
      BY <2>2, <3>2 DEF SendFails, DiscardStaleReplies
    <3> QED
      BY <1>6, <2>2, <3>1, <3>3 DEF ConfigureNft, SendFails
  <2> QED
    BY <1>6, <2>1, <2>2 DEF ConfigureNft
<1>11. CASE CheckAcks
  <2>1. PICK ok \in BOOLEAN : Advance(ok) /\ (ReadAck \/ UNCHANGED replies)
    <3>1. ASSUME ReadAck
          PROVE  \E ok \in BOOLEAN : Advance(ok)
      <4>1. socket \in Sockets
        BY <1>11 DEF CheckAcks, OwnerShape
      <4>2. replies[socket] \in Seq(Reply)
        BY <4>1
      <4>3. \A k \in DOMAIN replies[socket] : replies[socket][k].ok \in BOOLEAN
        BY <4>2, AnswersAreRead, Zenon
      <4> QED
        BY <3>1, <4>3 DEF ReadAck
    <3> QED
      BY <1>11, <3>1 DEF CheckAcks, RecvFails
  <2>2. call' \in Call
    BY <1>11, <2>1, Advanced DEF CheckAcks
  <2>3. replies' \in [Sockets -> Seq(Reply)]
    <3>1. socket \in Sockets /\ replies[socket] \in Seq(Reply)
      BY <1>11 DEF CheckAcks, OwnerShape
    <3>2. \A k \in DOMAIN replies[socket] :
            SubSeq(replies[socket], k + 1, Len(replies[socket])) \in Seq(Reply)
      BY <3>1, AnswersAreRead, Zenon
    <3>3. CASE ReadAck
      <4>1. PICK rest \in Seq(Reply) : replies' = [replies EXCEPT ![socket] = rest]
        BY <3>2, <3>3 DEF ReadAck
      <4> QED
        BY <4>1
    <3>4. CASE UNCHANGED replies
      BY <3>4
    <3> QED
      BY <2>1, <3>3, <3>4
  <2> QED
    BY <1>11, <2>2, <2>3 DEF CheckAcks
<1>7. CASE ConfigureTun
  <2>1. PICK ok \in BOOLEAN : Advance(ok) /\ tun' \in Outcome(tun, call.cfg, ok)
    BY <1>7 DEF ConfigureTun
  <2>2. call' \in Call
    BY <1>7, <2>1, Advanced DEF ConfigureTun
  <2>3. tun' \in Configs \cup {None, "missing", "partial"}
    BY <2>1 DEF Outcome
  <2>4. reader' \in Configs \cup {None}
    BY <1>7 DEF ConfigureTun
  <2> QED
    BY <1>7, <2>2, <2>3, <2>4 DEF ConfigureTun
<1>8. CASE Start
  <2>1. Held(open' \cup stored') /\ open' \cup stored' \in SUBSET Sockets
    BY <1>8, SocketIsFound DEF Start
  <2> QED
    BY <1>8, <2>1, SocketIsFound, HoldersKeep DEF Start, CreateTun, OwnerShape
<1>9. CASE Exit \/ Stop
  <2>1. Held(stored) \/ Held({})
    BY <1>9 DEF Exit, Stop
  <2>2. /\ nft' \in Policies \cup {"absent"} /\ owner' \in Sockets \cup {None}
        /\ replies' \in [Sockets -> Seq(Reply)]
    BY <2>1, HoldersKeep DEF OwnerShape
  <2> QED
    BY <1>9, <2>2, Ended DEF Exit, Stop, Gone
<1>10. CASE UNCHANGED vars
  BY <1>10 DEF vars
<1> QED
  BY <1>1, <1>2, <1>3, <1>4, <1>5, <1>6, <1>7, <1>8, <1>9, <1>10, <1>11 DEF Next

\* The tables and the sockets stay in shape.
LEMMA OwnerStep == TypeOK /\ CallShape /\ OwnerShape /\ [Next]_vars => OwnerShape'
<1> SUFFICES ASSUME TypeOK, CallShape, OwnerShape, [Next]_vars PROVE OwnerShape'
  OBVIOUS
<1> USE DEF tables, sockets
<1>1. CASE ConfigureNft
  <2>1. socket \in open /\ UNCHANGED <<running, sockets>>
    BY <1>1 DEF ConfigureNft, OwnerShape, CallShape, UnderWay
  <2>2. Policy(call.op, call.cfg) # "absent" /\ socket # None
    BY <1>1, <2>1 DEF ConfigureNft, Policy, CallShape, TypeOK, UnderWay
  <2>3. \/ nft' = Policy(call.op, call.cfg) /\ owner' = socket
        \/ UNCHANGED <<nft, owner>>
    BY <1>1 DEF ConfigureNft, SendBatch, BatchAccepted, BatchRejected, SendFails
  <2> QED
    BY <2>1, <2>2, <2>3 DEF OwnerShape
<1>2. CASE Start
  <2> DEFINE holders == open' \cup stored'
  <2>1. Held(holders) /\ holders \in SUBSET Sockets /\ (nft = "absent" <=> owner = None)
    BY <1>2, SocketIsFound DEF Start, OwnerShape
  <2>2. /\ nft' = "absent" <=> owner' = None
        /\ owner' # None => owner' \in holders
    BY <2>1, HoldersKeep
  <2> QED
    BY <1>2, <2>2, SocketIsFound DEF Start, OwnerShape
<1>3. CASE Exit
  <2>1. Held(stored) /\ stored \in SUBSET Sockets /\ (nft = "absent" <=> owner = None)
    BY <1>3 DEF Exit, OwnerShape, TypeOK
  <2>2. /\ nft' = "absent" <=> owner' = None
        /\ owner' # None => owner' \in stored
    BY <2>1, HoldersKeep
  <2>3. ~lapse => stored = {socket} /\ socket \in Sockets
    BY <1>3 DEF Exit, OwnerShape, TypeOK
  <2> QED
    BY <1>3, <2>2, <2>3 DEF Exit, Gone, OwnerShape
<1>4. CASE Stop
  BY <1>4 DEF Stop, Gone, Held, OwnerShape
<1>5. CASE \/ SetOsNetworkConfig \/ UnsetOsNetworkConfig \/ ManagerChosen
           \/ NoManager \/ ConfigureDns \/ CheckAcks \/ ConfigureTun \/ UNCHANGED vars
  <2>1. UNCHANGED <<running, nft, owner, sockets>>
    BY <1>5 DEF SetOsNetworkConfig, UnsetOsNetworkConfig, Begin, ManagerChosen,
                NoManager, ConfigureDns, CheckAcks, ConfigureTun, vars
  <2> QED
    BY <2>1 DEF OwnerShape
<1> QED
  BY <1>1, <1>2, <1>3, <1>4, <1>5 DEF Next

\* A batch that is sent is answered, and what was answered before is not read.
LEMMA Sent ==
  ASSUME TypeOK, CallShape, OwnerShape, ConfigureNft
  PROVE  \/ SendFails
         \/ /\ call' = [call EXCEPT !.step = "acks"] /\ AnswersTell'
            /\ nft' \in {nft, Policy(call.op, call.cfg)}
<1> DEFINE p == Policy(call.op, call.cfg)
<1>1. CASE SendBatch(p)
  <2>0. PICK accepted \in BOOLEAN : \E r \in Answers(p, accepted) :
          /\ IF accepted THEN BatchAccepted(p) ELSE BatchRejected
          /\ replies' = [replies EXCEPT ![socket] = DiscardStaleReplies \o r]
          /\ call' = [call EXCEPT !.step = "acks"]
    BY <1>1 DEF SendBatch
  <2>1. PICK r \in Answers(p, accepted) :
          /\ IF accepted THEN BatchAccepted(p) ELSE BatchRejected
          /\ replies' = [replies EXCEPT ![socket] = DiscardStaleReplies \o r]
          /\ call' = [call EXCEPT !.step = "acks"]
    BY <2>0
  <2>2. UNCHANGED socket /\ socket \in Sockets
    BY DEF ConfigureNft, sockets, OwnerShape, CallShape, UnderWay, TypeOK
  <2>3. replies'[socket'] = r
    <3>1. DiscardStaleReplies \o r = r
      BY BatchIsAnswered
    <3> QED
      BY <2>1, <2>2, <3>1 DEF TypeOK
  <2>4. call'.op = call.op /\ call'.cfg = call.cfg
    BY <2>1 DEF TypeOK, Call
  <2>5. nft' = IF accepted THEN p ELSE nft
    BY <2>1 DEF BatchAccepted, BatchRejected
  <2>6. ASSUME NEW k \in DOMAIN r, r[k].seq = LastSeq(p), \A j \in 1..k : r[j].ok
        PROVE  accepted
    <3>1. /\ LastSeq(p) \in Nat /\ DOMAIN r = 1..LastSeq(p)
          /\ \A q \in 1..LastSeq(p) : r[q].seq = q
          /\ accepted = \A q \in 1..LastSeq(p) : r[q].ok
      BY BatchIsAnswered, Zenon
    <3>2. k = LastSeq(p)
      BY <2>6, <3>1
    <3> QED
      BY <2>6, <3>1, <3>2
  <2> QED
    BY <2>1, <2>3, <2>4, <2>5, <2>6 DEF AnswersTell
<1> QED
  BY <1>1 DEF ConfigureNft

\* The call goes on with Ok only after a batch that is in force.
LEMMA Checked ==
  ASSUME TypeOK, CallShape, OwnerShape, AnswersTell, CheckAcks
  PROVE  \E ok \in BOOLEAN :
           Advance(ok) /\ (ok => nft = Policy(call.op, call.cfg))
<1> DEFINE p == Policy(call.op, call.cfg)
           r == replies[socket]
<1>1. CASE ReadAck
  <2>1. PICK k \in DOMAIN r :
          /\ Decides(r[k], LastSeq(p)) /\ \A j \in 1..(k - 1) : ~Decides(r[j], LastSeq(p))
          /\ Advance(r[k].ok)
    BY <1>1 DEF ReadAck
  <2>2. socket \in Sockets /\ r \in Seq(Reply)
    BY DEF CheckAcks, OwnerShape, CallShape, UnderWay, TypeOK
  <2>3. r[k].ok \in BOOLEAN /\ k \in Nat
    BY <2>1, <2>2, AnswersAreRead, Zenon
  <2>4. ASSUME r[k].ok
        PROVE  nft = p
    <3>1. r[k].seq = LastSeq(p) /\ \A j \in 1..k : r[j].ok
      BY <2>1, <2>3, <2>4 DEF Decides
    <3> QED
      BY <3>1 DEF AnswersTell, CheckAcks
  <2> QED
    BY <2>1, <2>3, <2>4
<1>2. CASE RecvFails
  BY <1>2 DEF RecvFails
<1> QED
  BY <1>1, <1>2 DEF CheckAcks

LEMMA Step == IInv /\ [Next]_vars => IInv'
<1> SUFFICES ASSUME IInv, [Next]_vars PROVE CallShape' /\ InForceSoFar' /\ AnswersTell'
  BY TypeStep, OwnerStep DEF IInv
<1>0. TypeOK /\ CallShape /\ InForceSoFar /\ AnswersTell /\ OwnerShape
  BY DEF IInv
<1> USE DEF TypeOK, CallShape, InForceSoFar, Call, Steps, Managers, Policies, UnderWay,
            Done, tables, sockets
<1>1. CASE SetOsNetworkConfig
  <2>1. PICK c \in Configs : Begin("set", c)
    BY <1>1 DEF SetOsNetworkConfig
  <2>2. call' = [Idle EXCEPT !.op = "set", !.cfg = c, !.step = "choose"] /\ running'
    BY <2>1 DEF Begin
  <2>3. /\ call'.op = "set" /\ call'.cfg = c /\ call'.step = "choose" /\ call'.ok
        /\ desired' = c
    BY <2>1, <2>2 DEF Begin, Policy, Idle
  <2> QED
    BY <2>2, <2>3 DEF AnswersTell, Policy
<1>2. CASE UnsetOsNetworkConfig
  <2>1. call' = [Idle EXCEPT !.op = "unset", !.cfg = None, !.step = "choose"] /\ running'
    BY <1>2 DEF UnsetOsNetworkConfig, Begin
  <2>2. /\ call'.op = "unset" /\ call'.cfg = None /\ call'.step = "choose" /\ call'.ok
        /\ desired' = "off"
    BY <1>2, <2>1 DEF UnsetOsNetworkConfig, Begin, Policy, Idle
  <2> QED
    BY <2>1, <2>2 DEF AnswersTell, Policy
<1>3. CASE ManagerChosen
  <2>1. PICK m \in Managers \cup {"Disabled"} :
          /\ dnsManaged => m \in Managers
          /\ call' = [call EXCEPT !.step = "dns", !.manager = m]
    BY <1>0, <1>3, ChosenCall
  <2>2. /\ call'.op = call.op /\ call'.cfg = call.cfg /\ call'.step = "dns"
        /\ call'.ok = call.ok /\ call'.manager = m
    BY <1>0, <2>1
  <2>3. UNCHANGED <<running, dnsManaged, desired, tun, dns, nft, reader>>
    BY <1>3 DEF ManagerChosen
  <2> QED
    BY <1>0, <1>3, <2>1, <2>2, <2>3 DEF ManagerChosen, AnswersTell
<1>4. CASE NoManager
  BY <1>0, <1>4 DEF NoManager, AnswersTell
<1>5. CASE ConfigureDns
  <2>1. PICK ok \in BOOLEAN :
          /\ Advance(ok)
          /\ call.ok /\ ok /\ dnsManaged => dns'[call.manager] = call.cfg
    BY <1>0, <1>5, DnsConfigured
  <2>2. /\ call'.op = call.op /\ call'.cfg = call.cfg /\ call'.manager = call.manager
        /\ call'.ok = (call.ok /\ ok) /\ call'.step = After(call.op, "dns")
    BY <1>0, <1>5, <2>1, Advanced DEF ConfigureDns
  <2>3. UNCHANGED <<running, dnsManaged, desired>> /\ call.step = "dns"
    BY <1>5 DEF ConfigureDns
  <2>4. CallShape'
    BY <1>0, <2>2, <2>3 DEF After, AfterSet, AfterUnset
  <2>5. InForceSoFar'
    BY <1>0, <2>1, <2>2, <2>3 DEF After, AfterSet, AfterUnset
  <2>6. AnswersTell'
    BY <2>2 DEF After, AfterSet, AfterUnset, AnswersTell
  <2> QED
    BY <2>4, <2>5, <2>6
<1>6. CASE ConfigureNft
  <2>1. CASE SendFails
    BY <1>0, <1>6, <2>1 DEF ConfigureNft, SendFails, Advance, After, AfterSet, AfterUnset, AnswersTell
  <2>2. CASE ~SendFails
    <3>1. call' = [call EXCEPT !.step = "acks"] /\ AnswersTell'
      BY <1>0, <1>6, <2>2, Sent
    <3> QED
      BY <1>0, <1>6, <3>1 DEF ConfigureNft
  <2> QED
    BY <2>1, <2>2
<1>11. CASE CheckAcks
  <2>1. PICK ok \in BOOLEAN : Advance(ok) /\ (ok => nft = Policy(call.op, call.cfg))
    BY <1>0, <1>11, Checked
  <2>2. AnswersTell'
    BY <1>11, <2>1 DEF CheckAcks, Advance, After, AfterSet, AfterUnset, AnswersTell
  <2>3. CallShape'
    BY <1>0, <1>11, <2>1 DEF CheckAcks, Advance, After, AfterSet, AfterUnset
  <2>4. InForceSoFar'
    BY <1>0, <1>11, <2>1 DEF CheckAcks, Advance, After, AfterSet, AfterUnset
  <2> QED
    BY <2>2, <2>3, <2>4
<1>7. CASE ConfigureTun
  <2>1. PICK ok \in BOOLEAN : Advance(ok) /\ tun' \in Outcome(tun, call.cfg, ok)
    BY <1>7 DEF ConfigureTun
  <2>2. /\ call'.op = call.op /\ call'.cfg = call.cfg /\ call'.manager = call.manager
        /\ call'.ok = (call.ok /\ ok) /\ call'.step = After(call.op, "tun")
    BY <1>0, <1>7, <2>1, Advanced DEF ConfigureTun
  <2>3. UNCHANGED <<running, dnsManaged, desired, tables, sockets, dns>>
    BY <1>7 DEF ConfigureTun
  <2>4. call.step = "tun" /\ (ok => tun' = call.cfg)
    BY <1>7, <2>1 DEF ConfigureTun, Outcome
  <2>5. reader' = IF call.op = "set" THEN call.cfg ELSE reader
    BY <1>7 DEF ConfigureTun
  <2>6. CallShape'
    BY <1>0, <2>2, <2>3, <2>4 DEF After, AfterSet, AfterUnset
  <2>7. InForceSoFar'
    BY <1>0, <2>2, <2>3, <2>4, <2>5 DEF After, AfterSet, AfterUnset
  <2>8. AnswersTell'
    BY <2>2 DEF After, AfterSet, AfterUnset, AnswersTell
  <2> QED
    BY <2>6, <2>7, <2>8
<1>8. CASE Start
  <2>1. call.step = "idle" /\ UNCHANGED call /\ running'
    BY <1>0, <1>8 DEF Start
  <2> QED
    BY <1>0, <2>1 DEF AnswersTell
<1>9. CASE Exit \/ Stop
  BY <1>9, Ended DEF AnswersTell
<1>10. CASE UNCHANGED vars
  BY <1>0, <1>10 DEF vars, AnswersTell
<1> QED
  BY <1>1, <1>2, <1>3, <1>4, <1>5, <1>6, <1>7, <1>8, <1>9, <1>10, <1>11 DEF Next

\* The inductive invariant holds.
THEOREM Invariance == Spec => []IInv
BY Initially, Step, PTL DEF Spec

\* Every variable keeps its shape.
THEOREM TypeCorrect == Spec => []TypeOK
<1>1. IInv => TypeOK
  BY DEF IInv
<1> QED
  BY <1>1, Invariance, PTL

\* A call that returned Ok is in force in every part of the system.
THEOREM OkIsInForce == Spec => []OkMeansInForce
<1>1. IInv => OkMeansInForce
  BY DEF IInv, CallShape, InForceSoFar, OkMeansInForce, UnderWay, Done
<1> QED
  BY <1>1, Invariance, PTL

-----------------------------------------------------------------------------
\* Only a deliberate unset or a stop removes the kill switch, unless a message
\* between the service and the fd store failed at this start or the last one.
THEOREM KillSwitchStays == Spec => KillSwitchHeld
<1> DEFINE Permitted == Deliberate \/ Stopped \/ EndsUnstored \/ StartsWithout
<1>1. IInv /\ [Next]_vars => [KillSwitchRemoved => Permitted]_vars
  <2> SUFFICES ASSUME IInv, Next, KillSwitchRemoved PROVE Permitted
    BY DEF vars
  <2>0. TypeOK /\ CallShape /\ OwnerShape /\ nft \in Configs /\ nft' \notin Configs
    BY DEF IInv, KillSwitchRemoved
  <2>a. owner \in open \cup stored
    BY <2>0 DEF OwnerShape
  <2> USE DEF tables, sockets
  <2>1. CASE ConfigureNft
    <3>1. call.op = "set" => Policy(call.op, call.cfg) \in Configs
      BY <2>0 DEF Policy, CallShape
    <3>2. nft' \in {nft, Policy(call.op, call.cfg)}
      BY <2>0, <2>1, Sent DEF SendFails
    <3>3. call.op = "unset" /\ call.step = "nft"
      BY <2>0, <2>1, <3>1, <3>2 DEF ConfigureNft, CallShape, UnderWay
    <3> QED
      BY <3>3 DEF Deliberate
  <2>2. CASE Start
    <3>1. owner \in stored /\ owner \in Sockets
      BY <2>0, <2>2, <2>a DEF Start, OwnerShape, TypeOK
    <3>2. Held(open' \cup stored')
      BY <2>0, <2>2, SocketIsFound DEF Start
    <3>3. owner \notin open' \cup stored'
      BY <2>0, <3>2 DEF Held
    <3>4. stored # {socket'}
      BY <2>0, <2>2, <3>1, <3>3, SocketIsFound DEF Start
    <3>5. socket' \notin stored /\ (~lapse' => \A s \in Sockets : stored # {s})
      BY <2>0, <2>2, <3>4, SocketIsFound DEF Start
    <3>6. lapse \/ lapse'
      BY <2>0, <2>2, <3>1, <3>5 DEF Start, OwnerShape
    <3> QED
      BY <2>2, <3>5, <3>6 DEF StartsWithout, Start
  <2>3. CASE Exit
    <3>1. owner \notin stored
      BY <2>0, <2>3 DEF Exit, Held
    <3>2. lapse
      BY <2>0, <2>3, <2>a, <3>1 DEF Exit, OwnerShape
    <3> QED
      BY <2>3, <3>1, <3>2 DEF EndsUnstored, Exit, Gone
  <2>4. CASE Stop
    <3>1. CASE stored = {}
      <4>1. lapse
        BY <2>0, <2>4, <3>1 DEF Stop, OwnerShape
      <4> QED
        BY <2>4, <3>1, <4>1 DEF EndsUnstored, Stop, Gone
    <3>2. CASE stored # {}
      BY <2>4, <3>2 DEF Stopped, Stop, Gone
    <3> QED
      BY <3>1, <3>2
  <2>5. CASE \/ SetOsNetworkConfig \/ UnsetOsNetworkConfig \/ ManagerChosen
             \/ NoManager \/ ConfigureDns \/ CheckAcks \/ ConfigureTun
    BY <2>0, <2>5 DEF SetOsNetworkConfig, UnsetOsNetworkConfig, Begin, ManagerChosen,
                NoManager, ConfigureDns, CheckAcks, ConfigureTun
  <2> QED
    BY <2>1, <2>2, <2>3, <2>4, <2>5 DEF Next
<1> QED
  BY <1>1, Invariance, PTL DEF Spec, KillSwitchHeld

-----------------------------------------------------------------------------
(* The calls implement OsCalls                                             *)

\* The call as the tunnel sees it.
Seen == [op |-> call.op, arg |-> call.cfg,
         outcome |-> CASE call.step = "idle"                  -> "idle"
                       [] call.step = "returned" /\ call.ok   -> "ok"
                       [] call.step = "returned" /\ ~call.ok  -> "failed"
                       [] OTHER                               -> "pending"]

\* A step that leaves the call pending, or ends it, does what was asked for.
LEMMA CallStep ==
  ASSUME IInv, IInv', call.step \in Steps, call'.step \in Steps \cup {"returned"},
         call'.op = call.op, call'.cfg = call.cfg,
         call'.step = "returned" /\ call'.ok => 
           /\ (nft' \in Configs) = (call.op = "set")
           /\ call.op = "set" => reader' = call.cfg,
         \/ UNCHANGED nft
         \/ call.op = "set" /\ nft' \in {nft, call.cfg}
         \/ call.op = "unset" /\ nft' \in {nft, "off"},
         \/ UNCHANGED reader
         \/ call.op = "set" /\ reader' = call.cfg
  PROVE  Calls!Next
<1> USE DEF Steps
<1>1. Seen.outcome = "pending" /\ Seen.op = call.op /\ Seen.arg = call.cfg
  BY DEF Seen
<1>2. call.op \in {"set", "unset"} /\ (call.op = "set" => call.cfg \in Configs)
  BY DEF IInv, CallShape, UnderWay
<1>3. Calls!Effect
  <2>1. CASE call.op = "set"
    <3>1. (nft' \in Configs) = (nft \in Configs) \/ (nft' \in Configs) = TRUE
      BY <2>1, <1>2
    <3>2. reader' = reader \/ reader' = call.cfg
      BY <2>1
    <3> QED
      BY <2>1, <3>1, <3>2 DEF Calls!Effect
  <2>2. CASE call.op = "unset"
    <3>1. (nft' \in Configs) = (nft \in Configs) \/ (nft' \in Configs) = FALSE
      BY <2>2, ConfigsAreOpaque
    <3>2. reader' = reader
      BY <2>2
    <3> QED
      BY <2>2, <3>1, <3>2 DEF Calls!Effect
  <2> QED
    BY <1>2, <2>1, <2>2
<1>4. CASE call'.step # "returned"
  <2>1. UNCHANGED Seen
    BY <1>4, <1>1 DEF Seen
  <2> QED
    BY <1>1, <1>3, <2>1 DEF Seen, Calls!Next, Calls!Progress
<1>5. CASE call'.step = "returned" /\ call'.ok
  <2>1. Seen' = [Seen EXCEPT !.outcome = "ok"]
    BY <1>5 DEF Seen
  <2> QED
    BY <1>1, <1>3, <1>5, <2>1 DEF Seen, Calls!Next, Calls!Succeed
<1>6. CASE call'.step = "returned" /\ ~call'.ok
  <2>1. Seen' = [Seen EXCEPT !.outcome = "failed"]
    BY <1>6 DEF Seen
  <2> QED
    BY <1>1, <1>3, <1>6, <2>1 DEF Seen, Calls!Next, Calls!Fail
<1> QED
  BY <1>4, <1>5, <1>6

LEMMA BeginStep ==
  ASSUME IInv, NEW op \in {"set", "unset"}, NEW c,
         op = "set" => c \in Configs, op = "unset" => c = None, Begin(op, c)
  PROVE  Calls!Begin
<1>1. call'.op = op /\ call'.cfg = c /\ call'.step = "choose"
  BY DEF Begin, Idle
<1>2. Seen.outcome # "pending"
  BY DEF Begin, Seen, IInv, TypeOK, Call
<1>3. Seen' = [op |-> op, arg |-> c, outcome |-> "pending"]
  BY <1>1 DEF Seen
<1> QED
  BY <1>2, <1>3 DEF Calls!Begin, Seen, Begin, tables

\* The process is not there, or no longer, and the tables may have gone.
LEMMA Uncaptured ==
  ASSUME call' = Idle, reader' = None, nft' \in {nft, "absent"}
  PROVE  Calls!End
<1>1. Seen' = [op |-> "none", arg |-> None, outcome |-> "idle"]
  BY DEF Seen, Idle
<1>2. (nft' \in Configs) = (nft \in Configs) \/ (nft' \in Configs) = FALSE
  BY ConfigsAreOpaque
<1> QED
  BY <1>1, <1>2 DEF Calls!End, Calls!Idle, Seen

LEMMA EndStep == IInv /\ (Exit \/ Stop) => Calls!End
<1> SUFFICES ASSUME IInv, Exit \/ Stop PROVE Calls!End
  OBVIOUS
<1>1. call' = Idle /\ reader' = None /\ nft' \in {nft, "absent"}
  BY DEF Exit, Stop, Gone, Held
<1> QED
  BY <1>1, Uncaptured

LEMMA CallsStep == IInv /\ IInv' /\ [Next]_vars => [Calls!Next]_(Calls!vars)
<1> SUFFICES ASSUME IInv, IInv', [Next]_vars PROVE [Calls!Next]_(Calls!vars)
  OBVIOUS
<1> USE DEF Steps, tables
<1>0. call \in Call
  BY DEF IInv, TypeOK
<1>1. CASE SetOsNetworkConfig \/ UnsetOsNetworkConfig
  BY <1>1, BeginStep DEF SetOsNetworkConfig, UnsetOsNetworkConfig, Calls!Next
<1>2. CASE ManagerChosen
  BY <1>2, <1>0, ChosenCall, CallStep DEF ManagerChosen, Call
<1>3. CASE NoManager
  BY <1>3, <1>0, CallStep DEF NoManager, Call
<1>4. CASE ConfigureDns
  <2>1. PICK ok \in BOOLEAN : Advance(ok)
    BY <1>4, DnsConfigured DEF IInv
  <2> QED
    BY <1>4, <1>0, <2>1, Advanced, CallStep
       DEF ConfigureDns, After, AfterSet, AfterUnset, IInv, CallShape, UnderWay
<1>5. CASE ConfigureNft
  <2>1. call' \in Call /\ call'.op = call.op /\ call'.cfg = call.cfg /\ UNCHANGED reader
    BY <1>5, <1>0, Advanced DEF ConfigureNft, SendBatch, SendFails, Call
  <2>2. CASE SendFails
    <3>1. call'.ok = FALSE /\ call'.step \in Steps \cup {"returned"} /\ UNCHANGED nft
      BY <1>5, <1>0, <2>2, Advanced
         DEF ConfigureNft, SendFails, After, AfterSet, AfterUnset
    <3> QED
      BY <1>5, <2>1, <3>1, CallStep DEF ConfigureNft
  <2>3. CASE ~SendFails
    <3>1. /\ call' = [call EXCEPT !.step = "acks"]
          /\ nft' \in {nft, Policy(call.op, call.cfg)}
      BY <1>5, <2>3, Sent DEF IInv
    <3>2. call'.step = "acks"
      BY <1>0, <3>1 DEF Call
    <3> QED
      BY <1>5, <2>1, <3>1, <3>2, CallStep
         DEF ConfigureNft, Policy, IInv, CallShape, UnderWay
  <2> QED
    BY <2>2, <2>3
<1>10. CASE CheckAcks
  <2>1. PICK ok \in BOOLEAN : Advance(ok) /\ (ok => nft = Policy(call.op, call.cfg))
    BY <1>10, Checked DEF IInv
  <2>2. call'.ok = (call.ok /\ ok) /\ call'.step = After(call.op, call.step)
        /\ call'.op = call.op /\ call'.cfg = call.cfg
    BY <1>10, <1>0, <2>1, Advanced DEF CheckAcks
  <2>3. call.op \in {"set", "unset"}
    BY <1>10 DEF CheckAcks, IInv, CallShape, UnderWay
  <2>4. call'.step = "returned" /\ call'.ok => nft = "off" /\ call.op = "unset"
    BY <1>10, <2>1, <2>2, <2>3 DEF CheckAcks, Policy, After, AfterSet, AfterUnset
  <2>5. call'.step \in Steps \cup {"returned"} /\ UNCHANGED <<nft, reader>>
    BY <1>10, <2>2, <2>3 DEF CheckAcks, After, AfterSet, AfterUnset
  <2> QED
    BY <1>10, <2>2, <2>4, <2>5, CallStep DEF CheckAcks
<1>6. CASE ConfigureTun
  <2>1. PICK ok \in BOOLEAN : Advance(ok)
    BY <1>6 DEF ConfigureTun
  <2>2. call'.ok = (call.ok /\ ok) /\ call'.step = After(call.op, call.step)
        /\ call'.op = call.op /\ call'.cfg = call.cfg
    BY <1>6, <1>0, <2>1, Advanced DEF ConfigureTun
  <2>3. call'.step = "returned" /\ call'.ok => nft' = Policy(call.op, call.cfg) /\ call.op = "set"
    BY <1>6, <2>2 DEF ConfigureTun, After, AfterSet, AfterUnset, IInv, CallShape, InForceSoFar, UnderWay, Done
  <2> QED
    BY <1>6, <1>0, <2>2, <2>3, CallStep
       DEF ConfigureTun, Policy, After, AfterSet, AfterUnset, IInv, CallShape, UnderWay
<1>7. CASE Start
  <2>1. call = Idle /\ reader = None /\ UNCHANGED <<call, reader>>
    BY <1>7 DEF Start, IInv, CallShape
  <2>2. nft' \in {nft, "absent"}
    BY <1>7 DEF Start, AdoptTable, Held
  <2> QED
    BY <2>1, <2>2, Uncaptured DEF Calls!Next
<1>8. CASE Exit \/ Stop
  BY <1>8, EndStep DEF Calls!Next
<1>9. CASE UNCHANGED vars
  BY <1>9 DEF vars, Calls!vars, tables
<1> QED
  BY <1>1, <1>2, <1>3, <1>4, <1>5, <1>6, <1>7, <1>8, <1>9, <1>10 DEF Next

\* The step-by-step calls of the Linux service do what the tunnel relies on.
THEOREM CallsImplemented == Spec => ImplementsCalls
<1>1. Init => Calls!Init
  BY DEF Init, Calls!Init, Calls!Idle, Idle
<1> QED
  BY <1>1, Invariance, CallsStep, PTL DEF Spec, ImplementsCalls, Calls!Spec

-----------------------------------------------------------------------------
(* StatusWatch: its inductive invariant                                    *)

Statuses == [version : Versions \cup {NoVersion}, vpn : Phases]

Stages ==
  {"idle", "accepted", "sent", "running", "answered", "unreachable", "denied",
   "mismatch", "broken", "asleep"}

Kinds == {"Initializing", "Degraded", "Healthy"}

WatchTypes ==
  /\ tunnel \in Phases
  /\ status \in Statuses
  /\ poller \in [at : Stages, known : Versions \cup {NoVersion}, reply : Statuses]
  /\ gui.kind \in Kinds
  /\ gui.kind = "Healthy" => gui.status \in Statuses

\* Only the status of a service that is not there has no version.
UnversionedIsEmpty == \A s \in Copies : s.version = NoVersion => s = NoStatus

\* The version that the poller asks to be left is that of the front end's copy:
\* no version outlives the copies that it came with.
KnownIsShown == gui.kind = "Healthy" => gui.status.version = poller.known

WatchInv == WatchTypes /\ UnversionedIsEmpty /\ KnownIsShown /\ VersionsIdentify

USE PhasesAssumption

LEMMA NothingIsKnown ==
  /\ NoStatus \in Statuses
  /\ NoStatus.version = NoVersion
  /\ IdlePoller \in [at : Stages, known : Versions \cup {NoVersion}, reply : Statuses]
  /\ IdlePoller.reply = NoStatus /\ IdlePoller.known = NoVersion
<1>1. NoStatus \in Statuses /\ NoStatus.version = NoVersion
  BY DEF NoStatus, Statuses
<1>2. "idle" \in Stages
  BY DEF Stages
<1> QED
  BY <1>1, <1>2 DEF IdlePoller

\* There is a version that no copy has.
LEMMA NewVersionIsNew ==
  ASSUME WatchTypes, KnownIsShown
  PROVE  /\ NewVersion \in Versions
         /\ NewVersion # NoVersion
         /\ \A s \in Copies : NewVersion # s.version
<1> DEFINE Fresh(v) == v # poller.known /\ \A s \in Copies : v # s.version
<1>1. /\ poller.known \in Versions \cup {NoVersion}
      /\ status.version \in Versions \cup {NoVersion}
      /\ poller.reply.version \in Versions \cup {NoVersion}
  BY DEF WatchTypes, Statuses
<1>2. PICK v \in Versions : v \notin {poller.known, status.version, poller.reply.version}
  <2>1. Versions \ {poller.known, status.version, poller.reply.version} # {}
    BY <1>1, VersionsAssumption
  <2> QED
    BY <2>1
<1>3. Fresh(v)
  BY <1>2 DEF Copies, KnownIsShown
<1>4. NewVersion \in Versions /\ Fresh(NewVersion)
  BY <1>2, <1>3 DEF NewVersion
<1> QED
  BY <1>4, VersionsAssumption

\* What becomes of the copies: a step leaves some of them and adds one at most,
\* which is empty or new.
LEMMA CopiesAreKept ==
  ASSUME UnversionedIsEmpty, VersionsIdentify, Copies' \subseteq Copies \cup {NoStatus}
  PROVE  UnversionedIsEmpty' /\ VersionsIdentify'
BY NothingIsKnown DEF UnversionedIsEmpty, VersionsIdentify

LEMMA CopyIsAdded ==
  ASSUME UnversionedIsEmpty, VersionsIdentify,
         NEW n, n.version # NoVersion, \A s \in Copies : n.version # s.version,
         Copies' \subseteq Copies \cup {n}
  PROVE  UnversionedIsEmpty' /\ VersionsIdentify'
BY DEF UnversionedIsEmpty, VersionsIdentify

\* A status is published under a new version.
LEMMA Published ==
  ASSUME WatchInv, NEW p \in Phases,
         status' = [version |-> NewVersion, vpn |-> p],
         UNCHANGED <<poller, gui>>, tunnel' \in Phases
  PROVE  WatchInv'
<1>1. /\ status' \in Statuses
      /\ status'.version # NoVersion
      /\ \A s \in Copies : status'.version # s.version
  BY NewVersionIsNew DEF WatchInv, Statuses
<1>2. Copies' \subseteq Copies \cup {status'}
  BY DEF Copies
<1>3. UnversionedIsEmpty' /\ VersionsIdentify'
  BY <1>1, <1>2, CopyIsAdded DEF WatchInv
<1>4. WatchTypes' /\ KnownIsShown'
  BY <1>1 DEF WatchInv, WatchTypes, KnownIsShown
<1> QED
  BY <1>3, <1>4 DEF WatchInv

\* The connection of the poller goes on.
LEMMA PollGoesOn ==
  ASSUME WatchInv, NEW at \in Stages, Polls(at),
         UNCHANGED gui, tunnel' \in Phases, status' \in {status, NoStatus}
  PROVE  WatchInv'
<1>1. /\ poller' \in [at : Stages, known : Versions \cup {NoVersion}, reply : Statuses]
      /\ poller'.reply = poller.reply /\ poller'.known = poller.known
  BY DEF Polls, WatchInv, WatchTypes
<1>2. Copies' \subseteq Copies \cup {NoStatus}
  BY <1>1 DEF Copies
<1>3. UnversionedIsEmpty' /\ VersionsIdentify'
  BY <1>2, CopiesAreKept DEF WatchInv
<1>4. status' \in Statuses
  BY NothingIsKnown DEF WatchInv, WatchTypes
<1>5. WatchTypes' /\ KnownIsShown'
  BY <1>1, <1>4 DEF WatchInv, WatchTypes, KnownIsShown
<1> QED
  BY <1>3, <1>5 DEF WatchInv

\* The front end has no status, or that of the answer it takes.
LEMMA FrontEndIsTold ==
  ASSUME WatchInv, UNCHANGED <<tunnel, status>>,
         poller' \in [at : Stages, known : Versions \cup {NoVersion}, reply : Statuses],
         poller'.reply = NoStatus,
         \/ gui'.kind \in {"Initializing", "Degraded"}
         \/ gui' = Healthy(poller.reply) /\ poller'.known = poller.reply.version
  PROVE  WatchInv'
<1>1. CASE gui'.kind \in {"Initializing", "Degraded"}
  <2>1. gui'.kind # "Healthy" /\ gui'.kind \in Kinds
    BY <1>1 DEF Kinds
  <2>2. Copies' \subseteq Copies \cup {NoStatus}
    BY <2>1 DEF Copies
  <2>3. UnversionedIsEmpty' /\ VersionsIdentify'
    BY <2>2, CopiesAreKept DEF WatchInv
  <2>4. WatchTypes' /\ KnownIsShown'
    BY <2>1 DEF WatchInv, WatchTypes, KnownIsShown
  <2> QED
    BY <2>3, <2>4 DEF WatchInv
<1>2. CASE gui' = Healthy(poller.reply) /\ poller'.known = poller.reply.version
  <2>1. gui'.kind = "Healthy" /\ gui'.kind \in Kinds /\ gui'.status = poller.reply
    BY <1>2 DEF Healthy, Kinds
  <2>2. Copies' \subseteq Copies \cup {NoStatus}
    BY <2>1 DEF Copies
  <2>3. UnversionedIsEmpty' /\ VersionsIdentify'
    BY <2>2, CopiesAreKept DEF WatchInv
  <2>4. WatchTypes' /\ KnownIsShown'
    BY <1>2, <2>1 DEF WatchInv, WatchTypes, KnownIsShown
  <2> QED
    BY <2>3, <2>4 DEF WatchInv
<1> QED
  BY <1>1, <1>2

LEMMA NothingIsWatched ==
  ASSUME WatchInv, UNCHANGED <<status, poller, gui>>, tunnel' \in Phases
  PROVE  WatchInv'
BY DEF WatchInv, WatchTypes, KnownIsShown, UnversionedIsEmpty, VersionsIdentify, Copies

LEMMA WatchBegins == WatchInit => WatchInv
<1> SUFFICES ASSUME WatchInit PROVE WatchInv
  OBVIOUS
<1>1. status = NoStatus /\ poller = IdlePoller /\ gui.kind = "Initializing"
  BY DEF WatchInit, Initializing
<1>2. Copies = {NoStatus}
  BY <1>1, NothingIsKnown DEF Copies
<1>3. WatchTypes /\ KnownIsShown
  BY <1>1, NothingIsKnown DEF WatchInit, WatchTypes, KnownIsShown, Kinds
<1> QED
  BY <1>2, <1>3 DEF WatchInv, UnversionedIsEmpty, VersionsIdentify

\* The steps of a poll.
LEMMA PollerStep ==
  ASSUME WatchInv, Poller
  PROVE  WatchInv'
<1> USE DEF serviceVars, hostVars, viewVars
<1>0. tunnel \in Phases
  BY DEF WatchInv, WatchTypes
<1>1. ASSUME NEW at \in Stages, Polls(at), UNCHANGED <<serviceVars, hostVars, viewVars>>
      PROVE  WatchInv'
  BY <1>0, <1>1, PollGoesOn
<1>2. CASE PollerConnects
  <2>1. PICK at \in Stages : Polls(at)
    BY <1>2 DEF PollerConnects, Refused, Stages
  <2> QED
    BY <1>1, <1>2, <2>1 DEF PollerConnects
<1>3. CASE HeaderWritten
  <2>1. AfterHeader(Header) \in Stages
    BY DEF AfterHeader, Header, Stages
  <2> QED
    BY <1>1, <1>3, <2>1 DEF HeaderWritten
<1>4. CASE Taken
  BY <1>1, <1>4 DEF Taken, Stages
<1>5. CASE GetStatus
  <2>1. /\ poller' \in [at : Stages, known : Versions \cup {NoVersion}, reply : Statuses]
        /\ poller'.reply = status /\ poller'.known = poller.known
    BY <1>5 DEF GetStatus, WatchInv, WatchTypes, Stages
  <2>2. UNCHANGED <<tunnel, status, gui>>
    BY <1>5 DEF GetStatus
  <2>3. Copies' \subseteq Copies
    BY <2>1, <2>2 DEF Copies
  <2>4. UnversionedIsEmpty' /\ VersionsIdentify'
    BY <2>3, CopiesAreKept DEF WatchInv
  <2>5. WatchTypes' /\ KnownIsShown'
    BY <2>1, <2>2 DEF WatchInv, WatchTypes, KnownIsShown
  <2> QED
    BY <2>4, <2>5 DEF WatchInv
<1>6. CASE Receive
  <2>1. poller.reply \in Statuses
    BY DEF WatchInv, WatchTypes
  <2>2. /\ poller' \in [at : Stages, known : Versions \cup {NoVersion}, reply : Statuses]
        /\ poller'.reply = NoStatus /\ poller'.known = poller.reply.version
    BY <1>6, <2>1, NothingIsKnown DEF Receive, Statuses, IdlePoller
  <2>3. gui' = Healthy(poller.reply) /\ UNCHANGED <<tunnel, status>>
    BY <1>6 DEF Receive, SetServiceStatus
  <2> QED
    BY <2>2, <2>3, FrontEndIsTold
<1>7. CASE PollerFails
  <2>1. /\ poller' \in [at : Stages, known : Versions \cup {NoVersion}, reply : Statuses]
        /\ poller'.reply = NoStatus
    BY <1>7, NothingIsKnown DEF PollerFails, Forget, IdlePoller, Stages
  <2>2. gui'.kind = "Degraded" /\ UNCHANGED <<tunnel, status>>
    BY <1>7 DEF PollerFails, SetServiceStatus, Degraded
  <2> QED
    BY <2>1, <2>2, FrontEndIsTold
<1>8. CASE PollerWakes
  BY <1>1, <1>8 DEF PollerWakes, Stages
<1> QED
  BY <1>2, <1>3, <1>4, <1>5, <1>6, <1>7, <1>8 DEF Poller

\* What happens to the service and to its users.
LEMMA EnvironmentStep ==
  ASSUME WatchInv, Environment
  PROVE  WatchInv'
<1> USE DEF serviceVars, hostVars, viewVars, frontVars
<1>0. tunnel \in Phases
  BY DEF WatchInv, WatchTypes
<1>1. CASE ServiceStarts
  BY <1>0, <1>1, Published DEF ServiceStarts
<1>2. ASSUME NEW to, Ends(to)
      PROVE  WatchInv'
  <2>1. PICK at \in Stages : Polls(at)
    BY <1>2 DEF Ends, BreakConnection, Stages, WatchInv, WatchTypes
  <2>2. UNCHANGED gui /\ tunnel' \in Phases /\ status' = NoStatus
    BY <1>2 DEF Ends
  <2> QED
    BY <2>1, <2>2, PollGoesOn
<1>3. CASE Restart \/ ServiceStops \/ Remove \/ Upgrade
  BY <1>2, <1>3 DEF Restart, ServiceStops, Remove, Upgrade
<1>4. CASE BusChanges \/ AccessChanges \/ TunnelChanges \/ ClientStateChanges
  <2>1. UNCHANGED <<status, poller, gui>> /\ tunnel' \in Phases
    BY <1>0, <1>4 DEF BusChanges, AccessChanges, TunnelChanges, ClientStateChanges
  <2> QED
    BY <2>1, NothingIsWatched
<1>5. CASE RestartApp \/ LogIn
  <2>1. NewFrontEnd
    BY <1>5 DEF RestartApp, LogIn
  <2>2. poller' = IdlePoller /\ gui'.kind = "Initializing" /\ UNCHANGED <<tunnel, status>>
    BY <2>1 DEF NewFrontEnd, Initializing
  <2> QED
    BY <2>2, FrontEndIsTold, NothingIsKnown
<1> QED
  BY <1>1, <1>3, <1>4, <1>5 DEF Environment

LEMMA WatchStep == WatchInv /\ [WatchNext]_watchVars => WatchInv'
<1> SUFFICES ASSUME WatchInv, [WatchNext]_watchVars PROVE WatchInv'
  OBVIOUS
<1> USE DEF serviceVars, hostVars, viewVars, frontVars
<1>0. tunnel \in Phases
  BY DEF WatchInv, WatchTypes
<1>1. CASE Propagate
  <2>1. CASE status.vpn = tunnel
    BY <1>0, <1>1, <2>1, NothingIsWatched DEF Propagate
  <2>2. CASE status.vpn # tunnel
    BY <1>0, <1>1, <2>2, Published DEF Propagate, NewStatus
  <2> QED
    BY <2>1, <2>2
<1>2. CASE Show
  BY <1>0, <1>2, NothingIsWatched DEF Show
<1>3. CASE UNCHANGED watchVars
  BY <1>0, <1>3, NothingIsWatched DEF watchVars
<1> QED
  BY <1>1, <1>2, <1>3, PollerStep, EnvironmentStep DEF WatchNext

\* A version identifies a status, wherever its copies are and whatever the
\* service, the connection and the front end go through: a client that names
\* the version it knows is answered as soon as there is something else.
THEOREM VersionsAreIdentifiers == WatchSpec => []VersionsIdentify
<1>1. WatchInv => VersionsIdentify
  BY DEF WatchInv
<1> QED
  BY <1>1, WatchBegins, WatchStep, PTL DEF WatchSpec
=============================================================================
