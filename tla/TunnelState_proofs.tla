------------------------- MODULE TunnelState_proofs -------------------------
(***************************************************************************)
(* Proofs about the reconciliation loop, for every set of arguments,       *)
(* interfaces, settings and connections.                                   *)
(***************************************************************************)
EXTENDS TunnelState, TLAPS

-----------------------------------------------------------------------------
(* Lemmas about the operations on the published state                      *)

\* The reported traffic is a natural number.
LEMMA StatsAreNatural ==
  ASSUME NEW t \in Tunnel, NEW cs \in [Conns -> Conn],
         t.kind = "Connected" => t.conn # None
  PROVE  TrafficStats(t, cs) \in Nat
BY DEF TrafficStats, Tunnel, Conn

\* set_connecting with wanted arguments yields a connecting tunnel without a
\* connection that reports the same traffic.
LEMMA ConnectingResult ==
  ASSUME NEW t \in Tunnel, NEW cs \in [Conns -> Conn], NEW s \in TargetState,
         NEW reason \in BOOLEAN,
         (t.kind = "Connected") <=> (t.conn # None)
  PROVE  LET n == SetConnecting(t, cs, s, reason)
         IN  /\ n \in Tunnel
             /\ n.kind = "Connecting"
             /\ n.conn = None
             /\ TrafficStats(n, cs) = TrafficStats(t, cs)
<1>1. TrafficStats(t, cs) \in Nat
  BY StatsAreNatural
<1>2. CASE t.kind = "Connecting"
  BY <1>1, <1>2 DEF SetConnecting, TrafficStats, Tunnel, TargetState
<1>3. CASE t.kind # "Connecting"
  BY <1>1, <1>3 DEF SetConnecting, TrafficStats, Tunnel, TargetState
<1> QED BY <1>2, <1>3

\* set_connect_error changes nothing but the error.
LEMMA ErrorResult ==
  ASSUME NEW t \in Tunnel, NEW e \in ConnectErrors
  PROVE  LET n == SetConnectError(t, e)
         IN  /\ n \in Tunnel
             /\ n.kind = t.kind /\ n.conn = t.conn /\ n.args = t.args
             /\ n.iface = t.iface /\ n.offset = t.offset
BY DEF SetConnectError, Tunnel

-----------------------------------------------------------------------------
(* The inductive invariant                                                 *)

LEMMA InitInvariant == Init => IInv
<1> SUFFICES ASSUME Init PROVE IInv
  OBVIOUS
<1>1. tunnel \in Tunnel /\ tunnel.kind = "Disconnected" /\ tunnel.conn = None
  BY DEF Init, Disconnected, Tunnel
<1>2. conns \in [Conns -> Conn]
  BY DEF Init, Gone, Conn
<1>3. os \in OsConfig
  BY DEF Init, OsConfig
<1>4. TypeOK
  BY <1>1, <1>2, <1>3 DEF Init, TypeOK, PCs
<1> QED
  BY <1>1, <1>4 DEF Init, IInv, PhaseMatchesAwait, ConnectedIsRouted, ConnectedAsOpened,
     AttemptIsCaptured, ForwardingUnderSnapshot

\* The start of an iteration: what is published and what is held afterwards.
LEMMA BeginResult ==
  ASSUME IInv, BeginIteration
  PROVE  /\ TypeOK'
         /\ pc' \in {"set_dummy", "set_real", "wait_interface", "unset"}
         /\ candidate' = tunnel'.conn
         /\ tunnel'.kind = "Connected" => tunnel' = tunnel /\ conns' = conns /\ pc' = "set_real"
         /\ tunnel'.kind # "Connected" => tunnel'.conn = None
         /\ pc' = "set_real" => /\ tunnel'.kind = "Connected"
                                /\ MatchesTarget(tunnel, target)
                                /\ target.args # None /\ target.iface # None
         /\ pc' = "set_dummy" => tunnel'.kind = "Connecting" /\ target.args # None /\ target.iface # None
         /\ pc' = "wait_interface" => tunnel'.kind = "Connecting"
         /\ pc' = "unset" => tunnel'.kind = "Disconnected" /\ target.args = None
<1> DEFINE stale == ~MatchesTarget(tunnel, target) \/ disconnectReason
           moved == CASE ~stale -> tunnel
                      [] stale /\ target.args = None -> Disconnected
                      [] OTHER -> SetConnecting(tunnel, conns, target, disconnectReason)
<1>1. /\ pc' = NextAwait(target, moved)
      /\ tunnel' = IF pc' = "wait_interface" THEN SetConnectError(moved, "NoInternet") ELSE moved
      /\ candidate' = moved.conn
      /\ conns' = IF moved.kind = "Connected" THEN conns ELSE Drop(conns, tunnel.conn)
  BY DEF BeginIteration
<1>2. (tunnel.kind = "Connected") <=> (tunnel.conn # None)
  BY DEF IInv, PhaseMatchesAwait
<1>3. moved \in Tunnel /\ (moved.kind = "Connected" => moved = tunnel /\ ~stale)
      /\ (moved.kind = "Connected" <=> moved.conn # None)
      /\ (moved.kind = "Disconnected" => target.args = None)
      /\ (target.args = None => moved.kind = "Disconnected")
      /\ (target.iface = None => moved.kind # "Connected")
  <2>1. CASE ~stale
    <3>1. moved = tunnel  BY <2>1
    <3>2. MatchesTarget(tunnel, target)  BY <2>1
    <3>3. (tunnel.kind = "Disconnected" => target.args = None)
          /\ (target.args = None => tunnel.kind = "Disconnected")
          /\ (target.iface = None => tunnel.kind # "Connected")
      BY <3>2 DEF MatchesTarget, IInv, PhaseMatchesAwait
    <3> QED BY <3>1, <3>3, <2>1, <1>2 DEF IInv, TypeOK
  <2>2. CASE stale /\ target.args = None
    <3>1. moved = Disconnected  BY <2>2
    <3> QED BY <3>1, <2>2 DEF Disconnected, Tunnel
  <2>3. CASE stale /\ target.args # None
    <3>1. moved = SetConnecting(tunnel, conns, target, disconnectReason)  BY <2>3
    <3> QED BY <3>1, <2>3, <1>2, ConnectingResult DEF IInv, TypeOK
  <2> QED BY <2>1, <2>2, <2>3
<1> HIDE DEF moved, stale
<1>4. tunnel' \in Tunnel /\ tunnel'.kind = moved.kind /\ tunnel'.conn = moved.conn
      /\ (pc' # "wait_interface" => tunnel' = moved)
  BY <1>1, <1>3, ErrorResult DEF ConnectErrors
<1>5. conns' \in [Conns -> Conn]
  BY <1>1 DEF Drop, Gone, Conn, IInv, TypeOK
<1>6. candidate' \in Conns \cup {None}
  BY <1>1, <1>3 DEF Tunnel
<1>7. TypeOK'
  <2>1. pc' \in PCs
    BY <1>1 DEF NextAwait, PCs
  <2>2. /\ target' \in TargetState /\ snap' \in TargetState /\ os' \in OsConfig
        /\ disconnectReason' \in BOOLEAN /\ keyDue' \in BOOLEAN /\ selection' \in BOOLEAN
    BY DEF BeginIteration, RotatesKey, IInv, TypeOK
  <2> QED BY <2>1, <2>2, <1>4, <1>5, <1>6 DEF TypeOK
<1>8. /\ (target.args = None) => pc' = "unset"
      /\ (target.args # None /\ target.iface = None) => pc' = "wait_interface"
      /\ (target.args # None /\ target.iface # None /\ moved.kind = "Connected") => pc' = "set_real"
      /\ (target.args # None /\ target.iface # None /\ moved.kind # "Connected") => pc' = "set_dummy"
  BY <1>1 DEF NextAwait
<1>9. moved.kind \in {"Disconnected", "Connecting", "Connected"}
  BY <1>3 DEF Tunnel
<1>10. moved.kind = "Connected" => MatchesTarget(tunnel, target)
  BY <1>3 DEF stale
<1> QED BY <1>1, <1>3, <1>4, <1>7, <1>8, <1>9, <1>10

\* An iteration starts from and leads to a consistent state.
LEMMA BeginPreserves == IInv /\ BeginIteration => IInv'
<1> SUFFICES ASSUME IInv, BeginIteration PROVE IInv'
  OBVIOUS
<1>1. /\ TypeOK'
      /\ candidate' = tunnel'.conn
      /\ tunnel'.kind = "Connected" => tunnel' = tunnel /\ conns' = conns /\ pc' = "set_real"
      /\ tunnel'.kind # "Connected" => tunnel'.conn = None
      /\ pc' \in {"set_dummy", "set_real", "wait_interface", "unset"}
      /\ pc' = "set_real" => /\ tunnel'.kind = "Connected"
                             /\ MatchesTarget(tunnel, target)
                             /\ target.args # None /\ target.iface # None
      /\ pc' = "set_dummy" => tunnel'.kind = "Connecting" /\ target.args # None /\ target.iface # None
      /\ pc' = "wait_interface" => tunnel'.kind = "Connecting"
      /\ pc' = "unset" => tunnel'.kind = "Disconnected" /\ target.args = None
  BY BeginResult
<1>2. snap' = target /\ os' = os
  BY DEF BeginIteration
<1>3. PhaseMatchesAwait'
  BY <1>1, <1>2 DEF PhaseMatchesAwait, MatchesTarget, IInv, ConnectedAsOpened
<1>4. ConnectedIsRouted' /\ ConnectedAsOpened'
  BY <1>1, <1>2 DEF IInv, ConnectedIsRouted, ConnectedAsOpened
<1>5. AttemptIsCaptured' /\ ForwardingUnderSnapshot'
  BY <1>1 DEF AttemptIsCaptured, ForwardingUnderSnapshot
<1> QED
  BY <1>1, <1>3, <1>4, <1>5 DEF IInv

\* What a failing set_os_network_config leaves behind.
LEMMA PartlyConfiguredResult ==
  ASSUME IInv, NEW c \in Conns \cup {None}, PartlyConfigured(c)
  PROVE  /\ os' \in OsConfig
         /\ os.capture => os'.capture
         /\ os'.conn \in {os.conn, c}
<1>1. os \in OsConfig /\ snap \in TargetState
  BY DEF IInv, TypeOK
<1> QED
  BY <1>1 DEF PartlyConfigured, OsConfig, TargetState

\* Every step of the loop after the first await keeps the invariant.
LEMMA LoopPreserves == IInv /\ Loop => IInv'
<1> SUFFICES ASSUME IInv, Loop PROVE IInv'
  OBVIOUS
<1> USE DEF IInv
<1>1. CASE BeginIteration
  BY <1>1, BeginPreserves
<1>2. CASE DummyConfigSet
  <2>1. os' \in OsConfig
    BY <1>2 DEF DummyConfigSet, OsConfig, TypeOK, TargetState
  <2>2. TypeOK'
    BY <1>2, <2>1 DEF DummyConfigSet, TypeOK, PCs
  <2> QED
    BY <1>2, <2>2 DEF DummyConfigSet, PhaseMatchesAwait, ConnectedIsRouted, ConnectedAsOpened,
       AttemptIsCaptured, ForwardingUnderSnapshot
<1>3. CASE DummyConfigFails
  <2>1. os' \in OsConfig
    BY <1>3, PartlyConfiguredResult DEF DummyConfigFails
  <2>2. tunnel' \in Tunnel /\ tunnel'.kind = tunnel.kind /\ tunnel'.conn = tunnel.conn
    BY <1>3, ErrorResult DEF DummyConfigFails, ConnectErrors, TypeOK
  <2>3. TypeOK'
    BY <1>3, <2>1, <2>2 DEF DummyConfigFails, TypeOK, PCs
  <2> QED
    BY <1>3, <2>2, <2>3 DEF DummyConfigFails, PhaseMatchesAwait, ConnectedIsRouted, ConnectedAsOpened,
       AttemptIsCaptured, ForwardingUnderSnapshot
<1>4. CASE \E c \in Conns : ConnectSucceeds(c)
  <2> PICK c \in Conns : ConnectSucceeds(c)
    BY <1>4
  <2>1. conns' \in [Conns -> Conn] /\ conns'[c].args = snap.args /\ conns'[c].iface = snap.iface
    BY DEF ConnectSucceeds, TypeOK, Conn, TargetState
  <2>2. c # None
    BY NoneAssumption
  <2>3. TypeOK'
    BY <2>1 DEF ConnectSucceeds, TypeOK, PCs
  <2> QED
    BY <2>1, <2>2, <2>3 DEF ConnectSucceeds, PhaseMatchesAwait, ConnectedIsRouted, ConnectedAsOpened,
       AttemptIsCaptured, ForwardingUnderSnapshot
<1>5. CASE ConnectFails
  <2>1. tunnel' \in Tunnel /\ tunnel'.kind = tunnel.kind /\ tunnel'.conn = tunnel.conn
    BY <1>5, ErrorResult DEF ConnectFails, ConnectErrors, TypeOK
  <2>2. TypeOK'
    BY <1>5, <2>1 DEF ConnectFails, TypeOK, PCs
  <2> QED
    BY <1>5, <2>1, <2>2 DEF ConnectFails, PhaseMatchesAwait, ConnectedIsRouted, ConnectedAsOpened,
       AttemptIsCaptured, ForwardingUnderSnapshot
<1>6. CASE ConnectCancelled
  BY <1>6 DEF ConnectCancelled, TypeOK, PCs, PhaseMatchesAwait, ConnectedIsRouted, ConnectedAsOpened,
     AttemptIsCaptured, ForwardingUnderSnapshot
<1>7. CASE RealConfigSet
  <2>1. candidate \in Conns /\ snap.args # None /\ snap.iface # None
        /\ conns[candidate].args = snap.args /\ conns[candidate].iface = snap.iface
    BY <1>7 DEF RealConfigSet, PhaseMatchesAwait, TypeOK
  <2>2. os' \in OsConfig /\ os'.capture /\ os'.conn = candidate /\ os'.opts = snap.opts
    BY <1>7, <2>1 DEF RealConfigSet, OsConfig, TypeOK, TargetState
  <2>3. TrafficStats(tunnel, conns) \in Nat
    BY StatsAreNatural DEF TypeOK, PhaseMatchesAwait
  <2>4. tunnel' \in Tunnel /\ tunnel'.kind = "Connected" /\ tunnel'.conn = candidate
        /\ tunnel'.args = snap.args /\ tunnel'.iface = snap.iface
    BY <1>7, <2>1, <2>3 DEF RealConfigSet, SetConnected, Tunnel, TypeOK, TargetState
  <2>5. TypeOK'
    BY <1>7, <2>2, <2>4 DEF RealConfigSet, TypeOK, PCs
  <2> QED
    BY <1>7, <2>1, <2>2, <2>4, <2>5, NoneAssumption DEF RealConfigSet, PhaseMatchesAwait,
       ConnectedIsRouted, ConnectedAsOpened, AttemptIsCaptured, ForwardingUnderSnapshot, MatchesTarget
<1>8. CASE RealConfigFails
  <2>1. os' \in OsConfig /\ (os.capture => os'.capture) /\ os'.conn \in {os.conn, candidate}
    BY <1>8, PartlyConfiguredResult DEF RealConfigFails, TypeOK
  <2>2. /\ tunnel' \in Tunnel /\ tunnel'.kind = tunnel.kind /\ tunnel'.conn = tunnel.conn
        /\ tunnel'.args = tunnel.args /\ tunnel'.iface = tunnel.iface
    BY <1>8, ErrorResult DEF RealConfigFails, ConnectErrors, TypeOK
  <2>3. conns' \in [Conns -> Conn]
    BY <1>8 DEF RealConfigFails, Drop, Gone, Conn, TypeOK
  <2>4. tunnel.kind = "Connected" => tunnel.conn = candidate /\ conns' = conns
    BY <1>8 DEF RealConfigFails, PhaseMatchesAwait
  <2>5. TypeOK'
    BY <1>8, <2>1, <2>2, <2>3 DEF RealConfigFails, TypeOK, PCs
  <2> QED
    BY <1>8, <2>1, <2>2, <2>4, <2>5 DEF RealConfigFails, PhaseMatchesAwait,
       ConnectedIsRouted, ConnectedAsOpened, AttemptIsCaptured, ForwardingUnderSnapshot
<1>9. CASE TunnelFails
  BY <1>9 DEF TunnelFails, TypeOK, PCs, PhaseMatchesAwait, ConnectedIsRouted, ConnectedAsOpened,
     AttemptIsCaptured, ForwardingUnderSnapshot
<1>10. CASE TargetChanged
  BY <1>10 DEF TargetChanged, TypeOK, PCs, PhaseMatchesAwait, ConnectedIsRouted, ConnectedAsOpened,
     AttemptIsCaptured, ForwardingUnderSnapshot
<1>11. CASE ConfigUnset
  <2>1. os' \in OsConfig
    BY <1>11 DEF ConfigUnset, OsConfig, TypeOK
  <2> QED
    BY <1>11, <2>1 DEF ConfigUnset, TypeOK, PCs, PhaseMatchesAwait, ConnectedIsRouted,
       ConnectedAsOpened, AttemptIsCaptured, ForwardingUnderSnapshot
<1>12. CASE UnsetFails
  <2>1. os' \in OsConfig
    BY <1>12 DEF UnsetFails, OsConfig, TypeOK
  <2> QED
    BY <1>12, <2>1 DEF UnsetFails, TypeOK, PCs, PhaseMatchesAwait, ConnectedIsRouted,
       ConnectedAsOpened, AttemptIsCaptured, ForwardingUnderSnapshot
<1> QED
  BY <1>1, <1>2, <1>3, <1>4, <1>5, <1>6, <1>7, <1>8, <1>9, <1>10, <1>11, <1>12 DEF Loop

\* Nothing the environment does to the target, a connection or the key
\* disturbs the invariant.
LEMMA EnvironmentPreserves == IInv /\ Environment => IInv'
<1> SUFFICES ASSUME IInv, Environment PROVE IInv'
  OBVIOUS
<1> USE DEF IInv
<1>1. CASE \E t \in TargetState : Retarget(t)
  BY <1>1 DEF Retarget, TypeOK, PhaseMatchesAwait, ConnectedIsRouted, ConnectedAsOpened,
     AttemptIsCaptured, ForwardingUnderSnapshot
<1>2. CASE UserSetsTarget \/ InterfaceChanges \/ OptionsChange \/ AccountChanges
  <2>1. /\ \A a \in TunnelArgs \cup {None} : [target EXCEPT !.args = a] \in TargetState
        /\ \A i \in Interfaces \cup {None} : [target EXCEPT !.iface = i] \in TargetState
        /\ \A o \in Options : [target EXCEPT !.opts = o] \in TargetState
    BY DEF TypeOK, TargetState
  <2>2. [target EXCEPT !.args = None, !.opts = DefaultOptions] \in TargetState
    BY OptionsAssumption DEF TypeOK, TargetState
  <2> QED
    BY <1>1, <1>2, <2>1, <2>2 DEF UserSetsTarget, InterfaceChanges, OptionsChange, AccountChanges
<1>3. CASE \E c \in Conns : ConnBreaks(c) \/ Carry(c)
  <2> PICK c \in Conns : ConnBreaks(c) \/ Carry(c)
    BY <1>3
  <2>1. /\ conns' \in [Conns -> Conn]
        /\ \A d \in Conns : conns'[d].args = conns[d].args /\ conns'[d].iface = conns[d].iface
    <3>1. conns[c] \in Conn
      BY DEF TypeOK
    <3>2. CASE ConnBreaks(c)
      <4>1. [conns[c] EXCEPT !.up = FALSE] \in Conn
        BY <3>1 DEF Conn
      <4> QED  BY <3>2, <4>1 DEF ConnBreaks, TypeOK, Conn
    <3>3. CASE Carry(c)
      <4>1. [conns[c] EXCEPT !.bytes = @ + 1] \in Conn
        BY <3>1 DEF Conn
      <4> QED  BY <3>3, <4>1 DEF Carry, TypeOK, Conn
    <3> QED  BY <3>2, <3>3
  <2>2. UNCHANGED <<target, snap, pc, tunnel, candidate, disconnectReason, selection, keyDue, os>>
    BY DEF ConnBreaks, Carry
  <2>3. TypeOK'
    BY <2>1, <2>2 DEF TypeOK
  <2>4. PhaseMatchesAwait'
    BY <2>1, <2>2 DEF PhaseMatchesAwait, TypeOK
  <2>5. ConnectedAsOpened'
    BY <2>1, <2>2 DEF ConnectedAsOpened, TypeOK, Tunnel, PhaseMatchesAwait
  <2> QED
    BY <2>2, <2>3, <2>4, <2>5 DEF ConnectedIsRouted, AttemptIsCaptured, ForwardingUnderSnapshot, MatchesTarget
<1>4. CASE KeyExpires
  BY <1>4 DEF KeyExpires, TypeOK, PhaseMatchesAwait, ConnectedIsRouted, ConnectedAsOpened,
     AttemptIsCaptured, ForwardingUnderSnapshot
<1> QED
  BY <1>2, <1>3, <1>4 DEF Environment

LEMMA StutterPreserves == IInv /\ UNCHANGED vars => IInv'
BY DEF vars, IInv, TypeOK, PhaseMatchesAwait, ConnectedIsRouted, ConnectedAsOpened,
   AttemptIsCaptured, ForwardingUnderSnapshot, MatchesTarget

\* The strengthened invariant holds in every reachable state.
THEOREM Invariance == Spec => []IInv
<1>1. IInv /\ [Next]_vars => IInv'
  BY LoopPreserves, EnvironmentPreserves, StutterPreserves DEF Next
<1> QED
  BY InitInvariant, <1>1, PTL DEF Spec

\* Every variable keeps the shape of the Rust type it stands for.
THEOREM TypeCorrect == Spec => []TypeOK
<1>1. IInv => TypeOK
  BY DEF IInv
<1> QED
  BY Invariance, <1>1, PTL

\* "Connected" is only shown while the OS sends traffic into the published
\* connection, which was opened for the published arguments and interface.
THEOREM PublishedTunnelIsSound == Spec => []ConnectedIsSound
<1>1. IInv => ConnectedIsSound
  BY DEF IInv, ConnectedIsSound
<1> QED
  BY Invariance, <1>1, PTL

\* Relays and the API are contacted only while user traffic is captured.
THEOREM AttemptsAreCaptured == Spec => []AttemptIsCaptured
<1>1. IInv => AttemptIsCaptured
  BY DEF IInv
<1> QED
  BY Invariance, <1>1, PTL

-----------------------------------------------------------------------------
(* Action properties                                                       *)

\* The loop sleeps until something changes.
Resting == pc \in {"forward", "wait_disconnected"} /\ target = snap

\* The safety half of Converges: the loop goes to sleep, and stays asleep, only
\* with the target reached or with no interface to reach it over, whatever
\* failed, was cancelled or changed on the way.
RestsAtTarget ==
  /\ Resting => Reached(target)
  /\ pc = "wait_interface" /\ target = snap =>
       /\ target.args # None /\ target.iface = None
       /\ tunnel.kind = "Connecting"

RestInv ==
  /\ pc = "wait_disconnected" => ~os.capture
  /\ pc = "wait_interface" => snap.args # None /\ snap.iface = None

\* The loop never settles for anything but its target.
THEOREM SleepMeansReached == Spec => []RestsAtTarget
<1>1. Init => RestInv
  BY DEF Init, RestInv
<1>2. RestInv /\ [Next]_vars => RestInv'
  <2> SUFFICES ASSUME RestInv, [Next]_vars PROVE RestInv'
    OBVIOUS
  <2>1. CASE BeginIteration
    BY <2>1 DEF BeginIteration, NextAwait, RestInv
  <2>2. CASE ConfigUnset
    BY <2>2 DEF ConfigUnset, RestInv
  <2>3. CASE ~BeginIteration /\ ~ConfigUnset
    <3>1. pc' \in {"wait_disconnected", "wait_interface"} => UNCHANGED <<pc, os, snap>>
      BY <2>3 DEF Next, Loop, Environment, DummyConfigSet, DummyConfigFails, ConnectSucceeds,
         ConnectFails, ConnectCancelled, RealConfigSet, RealConfigFails, TunnelFails,
         TargetChanged, UnsetFails, UserSetsTarget, InterfaceChanges, OptionsChange,
         AccountChanges, Retarget, ConnBreaks, Carry, KeyExpires, vars
    <3> QED
      BY <3>1 DEF RestInv
  <2> QED
    BY <2>1, <2>2, <2>3
<1>3. IInv /\ RestInv => RestsAtTarget
  <2> SUFFICES ASSUME IInv, RestInv PROVE RestsAtTarget
    OBVIOUS
  <2>1. ASSUME pc = "forward", target = snap PROVE Reached(target)
    <3>1. /\ snap.args # None /\ tunnel.kind = "Connected"
          /\ os.opts = snap.opts /\ MatchesTarget(tunnel, snap)
      BY <2>1 DEF IInv, PhaseMatchesAwait, ForwardingUnderSnapshot
    <3> QED
      BY <2>1, <3>1 DEF Reached
  <2>2. ASSUME pc = "wait_disconnected", target = snap PROVE Reached(target)
    BY <2>2 DEF IInv, PhaseMatchesAwait, RestInv, Reached
  <2>3. ASSUME pc = "wait_interface" PROVE tunnel.kind = "Connecting"
    BY <2>3 DEF IInv, PhaseMatchesAwait
  <2> QED
    BY <2>1, <2>2, <2>3 DEF RestsAtTarget, Resting, RestInv
<1> QED
  BY Invariance, <1>1, <1>2, <1>3, PTL DEF Spec

\* The loop never swaps connections behind a published "Connected".
THEOREM NoSwap == Spec => SameTunnelWhileConnected
<1> DEFINE A == tunnel.kind = "Connected" /\ tunnel'.kind = "Connected" =>
                  /\ tunnel'.conn = tunnel.conn
                  /\ tunnel'.args = tunnel.args
                  /\ tunnel'.iface = tunnel.iface
<1>1. ASSUME IInv, Next PROVE A
  <2>1. CASE BeginIteration
    BY <1>1, <2>1, BeginResult
  <2>2. CASE DummyConfigFails \/ ConnectFails \/ RealConfigFails
    <3>1. \E e \in ConnectErrors : tunnel' = SetConnectError(tunnel, e)
      BY <2>2 DEF DummyConfigFails, ConnectFails, RealConfigFails, ConnectErrors
    <3> QED  BY <1>1, <3>1, ErrorResult DEF IInv, TypeOK
  <2>3. CASE RealConfigSet
    BY <1>1, <2>3 DEF RealConfigSet, SetConnected, IInv, PhaseMatchesAwait, ConnectedAsOpened
  <2>4. CASE UNCHANGED tunnel
    BY <2>4
  <2> QED
    BY <1>1, <2>1, <2>2, <2>3, <2>4 DEF Next, Loop, Environment, DummyConfigSet, ConnectSucceeds,
       ConnectCancelled, TunnelFails, TargetChanged, ConfigUnset, UnsetFails, UserSetsTarget,
       InterfaceChanges, OptionsChange, AccountChanges, Retarget, ConnBreaks, Carry, KeyExpires
<1>2. IInv /\ [Next]_vars => [A]_vars
  BY <1>1
<1> QED
  BY Invariance, <1>2, PTL DEF Spec, SameTunnelWhileConnected

\* Traffic is released only while "Disconnected" is published, by an iteration
\* whose target was not to be connected.
THEOREM ReleaseIsDeliberate == Spec => ReleaseOnlyWhenDisconnected
<1> DEFINE A == os.capture /\ ~os'.capture => tunnel.kind = "Disconnected" /\ snap.args = None
<1>1. ASSUME IInv, Next PROVE A
  <2>1. CASE DummyConfigSet \/ RealConfigSet
    BY <2>1 DEF DummyConfigSet, RealConfigSet
  <2>2. CASE DummyConfigFails
    BY <1>1, <2>2, PartlyConfiguredResult DEF DummyConfigFails
  <2>3. CASE RealConfigFails
    BY <1>1, <2>3, PartlyConfiguredResult DEF RealConfigFails, IInv, TypeOK
  <2>4. CASE ConfigUnset \/ UnsetFails
    BY <1>1, <2>4 DEF ConfigUnset, UnsetFails, IInv, PhaseMatchesAwait
  <2>5. CASE UNCHANGED os
    BY <2>5
  <2> QED
    BY <1>1, <2>1, <2>2, <2>3, <2>4, <2>5 DEF Next, Loop, Environment, BeginIteration, ConnectSucceeds,
       ConnectFails, ConnectCancelled, TunnelFails, TargetChanged, UserSetsTarget, InterfaceChanges,
       OptionsChange, AccountChanges, Retarget, ConnBreaks, Carry, KeyExpires
<1>2. IInv /\ [Next]_vars => [A]_vars
  BY <1>1
<1> QED
  BY Invariance, <1>2, PTL DEF Spec, ReleaseOnlyWhenDisconnected

\* Within a session the reported traffic never decreases, and counts what the
\* published connection carries exactly once.
THEOREM StatsNeverDecrease == Spec => StatsAreMonotone
<1> DEFINE A == tunnel.kind # "Disconnected" /\ tunnel'.kind # "Disconnected" =>
                  /\ TrafficStats(tunnel', conns') >= TrafficStats(tunnel, conns)
                  /\ tunnel.kind = "Connected" /\ tunnel'.kind = "Connected" =>
                       TrafficStats(tunnel', conns') - TrafficStats(tunnel, conns)
                         = conns'[tunnel.conn].bytes - conns[tunnel.conn].bytes
<1>0. ASSUME IInv PROVE /\ TrafficStats(tunnel, conns) \in Nat
                        /\ tunnel.offset \in Nat
                        /\ tunnel.kind = "Connected" => tunnel.conn \in Conns
                        /\ \A c \in Conns : conns[c].bytes \in Nat
  BY <1>0, StatsAreNatural DEF IInv, TypeOK, PhaseMatchesAwait, Tunnel, Conn
<1>1. ASSUME IInv, Next PROVE A
  <2>1. CASE UNCHANGED <<tunnel, conns>>
    BY <1>0, <1>1, <2>1 DEF TrafficStats
  <2>2. CASE BeginIteration
    <3>1. CASE tunnel'.kind = "Connected"
      BY <1>0, <1>1, <2>2, <3>1, BeginResult
    <3>2. CASE tunnel.kind # "Disconnected" /\ tunnel'.kind = "Connecting"
      <4>1. tunnel'.offset = TrafficStats(tunnel, conns)
        <5> DEFINE stale == ~MatchesTarget(tunnel, target) \/ disconnectReason
                   moved == CASE ~stale -> tunnel
                              [] stale /\ target.args = None -> Disconnected
                              [] OTHER -> SetConnecting(tunnel, conns, target, disconnectReason)
        <5>1. tunnel' = moved \/ tunnel' = SetConnectError(moved, "NoInternet")
          BY <2>2 DEF BeginIteration
        <5>2. tunnel'.kind = moved.kind /\ tunnel'.offset = moved.offset
          <6>1. moved \in Tunnel
            BY <1>1, ConnectingResult DEF IInv, TypeOK, PhaseMatchesAwait, Disconnected, Tunnel
          <6> QED  BY <5>1, <6>1, ErrorResult DEF ConnectErrors
        <5>3. CASE ~stale
          BY <3>2, <5>2, <5>3 DEF TrafficStats
        <5>4. CASE stale /\ target.args = None
          BY <3>2, <5>2, <5>4 DEF Disconnected
        <5>5. CASE stale /\ target.args # None
          <6>1. moved = SetConnecting(tunnel, conns, target, disconnectReason)
            BY <5>5
          <6>2. TrafficStats(moved, conns) = TrafficStats(tunnel, conns) /\ moved.kind = "Connecting"
            BY <1>1, <6>1, ConnectingResult DEF IInv, TypeOK, PhaseMatchesAwait
          <6> QED  BY <5>2, <6>2 DEF TrafficStats
        <5> QED  BY <5>3, <5>4, <5>5
      <4> QED  BY <1>0, <1>1, <3>2, <4>1 DEF TrafficStats
    <3>3. tunnel' \in Tunnel
      BY <1>1, <2>2, BeginResult DEF TypeOK
    <3> QED  BY <3>1, <3>2, <3>3 DEF Tunnel
  <2>3. CASE DummyConfigFails \/ ConnectFails \/ RealConfigFails
    <3>1. \E e \in ConnectErrors : tunnel' = SetConnectError(tunnel, e)
      BY <2>3 DEF DummyConfigFails, ConnectFails, RealConfigFails, ConnectErrors
    <3>2. tunnel'.kind = tunnel.kind /\ tunnel'.conn = tunnel.conn /\ tunnel'.offset = tunnel.offset
      BY <1>1, <3>1, ErrorResult DEF IInv, TypeOK
    <3>3. tunnel.kind = "Connected" => conns' = conns
      BY <1>1, <2>3 DEF DummyConfigFails, ConnectFails, RealConfigFails, IInv, PhaseMatchesAwait
    <3> QED  BY <1>0, <1>1, <3>2, <3>3 DEF TrafficStats
  <2>4. CASE \E c \in Conns : ConnectSucceeds(c)
    BY <1>0, <1>1, <2>4 DEF ConnectSucceeds, TrafficStats, IInv, PhaseMatchesAwait
  <2>5. CASE RealConfigSet
    <3>1. candidate \in Conns /\ conns' = conns
      BY <1>1, <2>5 DEF RealConfigSet, IInv, TypeOK, PhaseMatchesAwait
    <3>2. CASE tunnel.kind = "Connected"
      BY <1>0, <1>1, <2>5, <3>1, <3>2 DEF RealConfigSet, SetConnected, TrafficStats, IInv, PhaseMatchesAwait
    <3>3. CASE tunnel.kind # "Connected"
      <4>1. TrafficStats(tunnel', conns') = TrafficStats(tunnel, conns) + conns[candidate].bytes
        BY <2>5, <3>1, <3>3 DEF RealConfigSet, SetConnected, TrafficStats
      <4> QED  BY <1>0, <1>1, <3>1, <3>3, <4>1
    <3> QED  BY <3>2, <3>3
  <2>6. CASE \E c \in Conns : ConnBreaks(c) \/ Carry(c)
    <3> PICK c \in Conns : ConnBreaks(c) \/ Carry(c)
      BY <2>6
    <3>1. \A d \in Conns : conns'[d].bytes >= conns[d].bytes /\ conns'[d].bytes \in Nat
      <4>1. conns \in [Conns -> Conn]
        BY <1>1 DEF IInv, TypeOK
      <4>2. CASE ConnBreaks(c)
        <5>1. \A d \in Conns : conns'[d].bytes = conns[d].bytes
          BY <4>1, <4>2 DEF ConnBreaks, Conn
        <5> QED  BY <1>0, <1>1, <5>1
      <4>3. CASE Carry(c)
        <5>1. \A d \in Conns : conns'[d].bytes = IF d = c THEN conns[d].bytes + 1 ELSE conns[d].bytes
          BY <4>1, <4>3 DEF Carry, Conn
        <5> QED  BY <1>0, <1>1, <5>1
      <4> QED  BY <4>2, <4>3
    <3>2. tunnel' = tunnel
      BY DEF ConnBreaks, Carry
    <3> QED  BY <1>0, <1>1, <3>1, <3>2 DEF TrafficStats
  <2> QED
    BY <1>1, <2>1, <2>2, <2>3, <2>4, <2>5, <2>6 DEF Next, Loop, Environment, DummyConfigSet,
       ConnectCancelled, TunnelFails, TargetChanged, ConfigUnset, UnsetFails, UserSetsTarget,
       InterfaceChanges, OptionsChange, AccountChanges, Retarget, KeyExpires
<1>2. IInv /\ UNCHANGED vars => A
  BY <1>0 DEF vars, TrafficStats
<1>3. IInv /\ [Next]_vars => [A]_vars
  BY <1>1
<1> QED
  BY Invariance, <1>3, PTL DEF Spec, StatsAreMonotone

-----------------------------------------------------------------------------
(* Refinement                                                              *)

\* The loop implements the promise: every step is one of its steps.
THEOREM Implementation == Spec => ImplementsPromise
<1>1. Init => Promise!Init
  BY DEF Init, Promise!Init, Disconnected
<1>2. ASSUME IInv, Next PROVE [Promise!Next]_(Promise!vars)
  <2> USE <1>2
  <2>1. CASE UNCHANGED <<tunnel, os>>
    BY <2>1 DEF Promise!vars
  <2>2. CASE BeginIteration
    <3>1. os' = os /\ tunnel' \in Tunnel
      BY <2>2, BeginResult DEF BeginIteration, RotatesKey, TypeOK
    <3>2. CASE tunnel'.kind = "Connected"
      BY <2>2, <3>1, <3>2, BeginResult DEF Promise!vars
    <3>3. CASE tunnel'.kind = "Connecting"
      BY <2>2, <3>1, <3>3, BeginResult DEF Promise!Next, Promise!Announce
    <3>4. CASE tunnel'.kind = "Disconnected"
      BY <2>2, <3>1, <3>4, BeginResult DEF Promise!Next, Promise!GiveUp
    <3> QED  BY <3>1, <3>2, <3>3, <3>4 DEF Tunnel
  <2>3. CASE DummyConfigSet
    BY <2>3 DEF DummyConfigSet, IInv, PhaseMatchesAwait, Promise!Next, Promise!Prepare
  <2>4. CASE DummyConfigFails \/ ConnectFails \/ RealConfigFails
    <3>1. \E e \in ConnectErrors : tunnel' = SetConnectError(tunnel, e)
      BY <2>4 DEF DummyConfigFails, ConnectFails, RealConfigFails, ConnectErrors
    <3>2. tunnel'.kind = tunnel.kind /\ tunnel'.conn = tunnel.conn
      BY <3>1, ErrorResult DEF IInv, TypeOK
    <3>3. os \in OsConfig /\ candidate \in Conns \cup {None}
      BY DEF IInv, TypeOK
    <3>4. CASE DummyConfigFails
      BY <3>2, <3>3, <3>4 DEF DummyConfigFails, PartlyConfigured, OsConfig, IInv, PhaseMatchesAwait,
         Promise!Next, Promise!Prepare
    <3>5. CASE ConnectFails
      BY <3>2, <3>5 DEF ConnectFails, Promise!vars
    <3>6. CASE RealConfigFails
      <4>1. os'.capture \in {os.capture, TRUE} /\ os'.conn \in {os.conn, candidate}
        BY <3>6 DEF RealConfigFails, PartlyConfigured
      <4>2. CASE tunnel.kind = "Connecting"
        BY <3>2, <3>3, <4>1, <4>2 DEF OsConfig, Promise!Next, Promise!Prepare
      <4>3. CASE tunnel.kind = "Connected"
        <5>1. tunnel.conn = candidate /\ os.conn = candidate /\ os.capture
          BY <3>6, <4>3 DEF RealConfigFails, IInv, PhaseMatchesAwait, ConnectedIsRouted
        <5>2. os'.conn = os.conn /\ os'.capture = os.capture
          BY <3>3, <4>1, <5>1 DEF OsConfig
        <5> QED  BY <3>2, <5>2 DEF Promise!vars
      <4>4. tunnel.kind \in {"Connecting", "Connected"}
        BY <3>6, NoneAssumption DEF RealConfigFails, IInv, PhaseMatchesAwait, TypeOK
      <4> QED  BY <4>2, <4>3, <4>4
    <3> QED  BY <2>4, <3>4, <3>5, <3>6
  <2>5. CASE RealConfigSet
    <3>1. /\ candidate \in Conns
          /\ tunnel.kind = "Connecting" \/ (tunnel.kind = "Connected" /\ tunnel.conn = candidate)
      <4>1. candidate # None /\ candidate \in Conns /\ (tunnel.kind = "Connecting" \/ tunnel.conn = candidate)
        BY <2>5 DEF RealConfigSet, IInv, PhaseMatchesAwait, TypeOK
      <4> QED  BY <4>1 DEF IInv, PhaseMatchesAwait
    <3>2. tunnel'.kind = "Connected" /\ tunnel'.conn = candidate /\ os'.capture = TRUE /\ os'.conn = candidate
      BY <2>5 DEF RealConfigSet, SetConnected
    <3>3. CASE tunnel.kind = "Connecting"
      BY <3>1, <3>2, <3>3 DEF Promise!Next, Promise!Open
    <3>4. CASE tunnel.kind = "Connected" /\ tunnel.conn = candidate
      BY <3>2, <3>4 DEF IInv, ConnectedIsRouted, TypeOK, OsConfig, Promise!vars
    <3> QED  BY <3>1, <3>3, <3>4
  <2>6. CASE ConfigUnset \/ UnsetFails
    BY <2>6 DEF ConfigUnset, UnsetFails, IInv, PhaseMatchesAwait, TypeOK, OsConfig, Promise!Next, Promise!Release
  <2> QED
    BY <2>1, <2>2, <2>3, <2>4, <2>5, <2>6 DEF Next, Loop, Environment, ConnectSucceeds, ConnectCancelled,
       TunnelFails, TargetChanged, UserSetsTarget, InterfaceChanges, OptionsChange, AccountChanges,
       Retarget, ConnBreaks, Carry, KeyExpires
<1>3. UNCHANGED vars => UNCHANGED (Promise!vars)
  BY DEF vars, Promise!vars
<1>4. IInv /\ [Next]_vars => [Promise!Next]_(Promise!vars)
  BY <1>2, <1>3
<1> QED
  BY Invariance, <1>1, <1>4, PTL DEF Spec, ImplementsPromise, Promise!Spec

=============================================================================
