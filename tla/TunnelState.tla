---------------------------- MODULE TunnelState ----------------------------
(***************************************************************************)
(* The reconciliation loop that owns the tunnel                            *)
(* (rustlib/src/tunnel_state.rs, TunnelState::maintain).                   *)
(*                                                                         *)
(* The loop compares the target state, which users, the network monitor    *)
(* and settings change at any time, with the published tunnel state, and   *)
(* drives the operating system's network configuration and the relay       *)
(* connection until they agree.  Every await of the loop is a value of pc, *)
(* so that target changes, tunnel failures and failing calls interleave    *)
(* with it; what the loop does between two awaits is one action.           *)
(***************************************************************************)
EXTENDS Naturals

CONSTANTS
  TunnelArgs,   \* what a user may ask to connect to
  Interfaces,   \* network interfaces that may be preferred
  Options,      \* DNS and bypass settings that reach the OS configuration
  DefaultOptions, \* the settings of Config::default()
  Conns,        \* identities of relay connections (reused once dropped)
  None,         \* absence of any of the above
  MaxBytes      \* bound on the bytes one session carries

ASSUME NoneAssumption == None \notin TunnelArgs \cup Interfaces \cup Conns
ASSUME OptionsAssumption == DefaultOptions \in Options
ASSUME MaxBytesAssumption == MaxBytes \in Nat

VARIABLES
  target,           \* ClientState::target_state() as of now
  snap,             \* target_state, read at the start of the iteration
  pc,               \* the await the loop is suspended at
  tunnel,           \* the published TunnelState
  candidate,        \* the loop's local `connected`: a connection it holds
  disconnectReason, \* the loop's local disconnect_reason.is_some()
  selection,        \* exclusions are recorded in the ExitSelectionState
  keyDue,           \* the WireGuard key is older than its maximal age
  conns,            \* the connections behind the Arcs
  os                \* the network configuration in force in the OS

vars == <<target, snap, pc, tunnel, candidate, disconnectReason, selection,
          keyDue, conns, os>>

-----------------------------------------------------------------------------
TargetState == [args: TunnelArgs \cup {None},
                iface: Interfaces \cup {None},
                opts: Options]

ConnectErrors == {"SetOsNetworkConfig", "ConnectFailed", "NoInternet"}

Tunnel == [kind: {"Disconnected", "Connecting", "Connected"},
           args: TunnelArgs \cup {None},
           iface: Interfaces \cup {None},
           conn: Conns \cup {None},
           error: ConnectErrors \cup {None},
           reconnecting: BOOLEAN,
           offset: Nat]

Conn == [up: BOOLEAN, args: TunnelArgs \cup {None},
         iface: Interfaces \cup {None}, bytes: Nat]

OsConfig == [capture: BOOLEAN, conn: Conns \cup {None}, opts: Options]

PCs == {"debounce", "set_dummy", "connect", "set_real", "forward",
        "unset", "wait_disconnected", "wait_interface"}

Disconnected == [kind |-> "Disconnected", args |-> None, iface |-> None,
                 conn |-> None, error |-> None, reconnecting |-> FALSE,
                 offset |-> 0]

Gone == [up |-> FALSE, args |-> None, iface |-> None, bytes |-> 0]

\* Operators whose name begins with "Bad" are faulty variants of the operator
\* that follows them; only the sensitivity checks of PROJECT.json use them.

\* TunnelState::traffic_stats: bytes of the session, the current connection's
\* added to what earlier ones of the session carried.
TrafficStats(t, cs) ==
  IF t.kind = "Connected" THEN t.offset + cs[t.conn].bytes ELSE t.offset

\* TunnelState::matches_target
MatchesTarget(t, s) ==
  \/ t.kind = "Disconnected" /\ s.args = None
  \/ t.kind = "Connected" /\ t.args = s.args /\ t.iface = s.iface

\* TunnelState::set_connecting: a tunnel that is already connecting keeps
\* everything but its arguments.
SetConnecting(t, cs, s, reason) ==
  IF t.kind = "Connecting"
  THEN [t EXCEPT !.args = s.args]
  ELSE [kind |-> "Connecting", args |-> s.args, iface |-> s.iface,
        conn |-> None, error |-> None, reconnecting |-> reason,
        offset |-> TrafficStats(t, cs)]

\* The bytes of a connection that is published again count twice.
BadSetConnected(t, cs, s, c) ==
  [kind |-> "Connected", args |-> s.args, iface |-> s.iface, conn |-> c,
   error |-> None, reconnecting |-> FALSE, offset |-> TrafficStats(t, cs)]

\* TunnelState::set_connected: re-publishing the same connection keeps the
\* offset, its bytes must not be counted twice.
SetConnected(t, cs, s, c) ==
  [kind |-> "Connected", args |-> s.args, iface |-> s.iface, conn |-> c,
   error |-> None, reconnecting |-> FALSE,
   offset |-> IF t.kind = "Connected" /\ t.conn = c
              THEN t.offset ELSE TrafficStats(t, cs)]

\* TunnelState::set_connect_error: only a connecting tunnel has an error.
SetConnectError(t, e) ==
  IF t.kind = "Connecting" THEN [t EXCEPT !.error = e] ELSE t

\* What remains of the connections once the Arc of c is dropped.
Drop(cs, c) == IF c = None THEN cs ELSE [cs EXCEPT ![c] = Gone]

-----------------------------------------------------------------------------
Init ==
  /\ target \in TargetState
  /\ snap = target
  /\ pc = "debounce"
  /\ tunnel = Disconnected
  /\ candidate = None
  /\ disconnectReason = FALSE
  /\ selection = FALSE
  /\ keyDue \in BOOLEAN
  /\ conns = [c \in Conns |-> Gone]
  /\ os \in [capture: BOOLEAN, conn: {None}, opts: Options]

-----------------------------------------------------------------------------
(* The loop                                                                *)

RotatesKey(t, s) == t.kind # "Disconnected" /\ s.args = None

\* A tunnel that is up is prepared like a new one.
BadNextAwaitDummy(s, t) ==
  CASE s.args = None                    -> "unset"
    [] s.args # None /\ s.iface = None  -> "wait_interface"
    [] OTHER -> "set_dummy"

\* Without an interface the traffic is released.
BadNextAwaitUnset(s, t) ==
  CASE s.args = None \/ s.iface = None  -> "unset"
    [] OTHER -> IF t.kind = "Connected" THEN "set_real" ELSE "set_dummy"

\* The await that the loop reaches from the start of an iteration.
NextAwait(s, t) ==
  CASE s.args = None                    -> "unset"
    [] s.args # None /\ s.iface = None  -> "wait_interface"
    [] OTHER -> IF t.kind = "Connected" THEN "set_real" ELSE "set_dummy"

\* One iteration, from the end of the debounce sleep to the first await: the
\* target is read, an expired key is rotated when leaving, the tunnel is
\* dropped if it does not match or failed, and the new state is published.
\* The stored failure is only taken by set_connecting.
BeginIteration ==
  /\ pc = "debounce"
  /\ snap' = target
  /\ keyDue' = (keyDue /\ ~RotatesKey(tunnel, target))
  /\ LET stale == ~MatchesTarget(tunnel, target) \/ disconnectReason
         moved == CASE ~stale -> tunnel
                    [] stale /\ target.args = None -> Disconnected
                    [] OTHER -> SetConnecting(tunnel, conns, target, disconnectReason)
     IN  /\ pc' = NextAwait(target, moved)
         /\ tunnel' = IF pc' = "wait_interface"
                      THEN SetConnectError(moved, "NoInternet") ELSE moved
         /\ disconnectReason' = (disconnectReason /\ target.args = None)
         /\ candidate' = moved.conn
         /\ conns' = IF moved.kind = "Connected" THEN conns ELSE Drop(conns, tunnel.conn)
         /\ selection' = (selection /\ pc' \in {"set_dummy", "set_real"})
  /\ UNCHANGED <<target, os>>

\* set_os_network_config(dummy) succeeded: traffic is captured and goes nowhere.
DummyConfigSet ==
  /\ pc = "set_dummy"
  /\ os' = [capture |-> TRUE, conn |-> None, opts |-> snap.opts]
  /\ pc' = "connect"
  /\ UNCHANGED <<target, snap, tunnel, candidate, disconnectReason, selection, keyDue, conns>>

\* A failing set_os_network_config leaves any mixture of old and requested
\* configuration; it never stops the capture.
PartlyConfigured(c) ==
  /\ os' \in [capture: {os.capture, TRUE}, conn: {os.conn, c}, opts: {os.opts, snap.opts}]

\* The attempt is made although the traffic may not be captured.
BadDummyConfigFails ==
  /\ pc = "set_dummy"
  /\ PartlyConfigured(None)
  /\ pc' = "connect"
  /\ UNCHANGED <<target, snap, tunnel, candidate, disconnectReason, selection, keyDue, conns>>

DummyConfigFails ==
  /\ pc = "set_dummy"
  /\ PartlyConfigured(None)
  /\ tunnel' = SetConnectError(tunnel, "SetOsNetworkConfig")
  /\ pc' = "debounce"
  /\ UNCHANGED <<target, snap, candidate, disconnectReason, selection, keyDue, conns>>

\* ClientState::connect returned a working connection, opened for the
\* arguments and the interface of the snapshot.
ConnectSucceeds(c) ==
  /\ pc = "connect"
  /\ c # os.conn
  /\ conns' = [conns EXCEPT ![c] =
                 [up |-> TRUE, args |-> snap.args, iface |-> snap.iface, bytes |-> 0]]
  /\ candidate' = c
  /\ selection' = FALSE
  /\ pc' = "set_real"
  /\ UNCHANGED <<target, snap, tunnel, disconnectReason, keyDue, os>>

ConnectFails ==
  /\ pc = "connect"
  /\ tunnel' = SetConnectError(tunnel, "ConnectFailed")
  /\ selection' \in {selection, TRUE}
  /\ pc' = "debounce"
  /\ UNCHANGED <<target, snap, candidate, disconnectReason, keyDue, conns, os>>

\* poll_until_change drops the connect future at whatever await it is in.
ConnectCancelled ==
  /\ pc = "connect"
  /\ target # snap
  /\ selection' \in {selection, TRUE}
  /\ pc' = "debounce"
  /\ UNCHANGED <<target, snap, tunnel, candidate, disconnectReason, keyDue, conns, os>>

\* set_os_network_config(real) succeeded; only then is the tunnel published.
RealConfigSet ==
  /\ pc = "set_real"
  /\ os' = [capture |-> TRUE, conn |-> candidate, opts |-> snap.opts]
  /\ tunnel' = SetConnected(tunnel, conns, snap, candidate)
  /\ pc' = "forward"
  /\ UNCHANGED <<target, snap, candidate, disconnectReason, selection, keyDue, conns>>

\* The local Arc goes out of scope; a connection that is not published closes.
RealConfigFails ==
  /\ pc = "set_real"
  /\ PartlyConfigured(candidate)
  /\ tunnel' = SetConnectError(tunnel, "SetOsNetworkConfig")
  /\ conns' = IF tunnel.conn = candidate THEN conns ELSE Drop(conns, candidate)
  /\ candidate' = None
  /\ pc' = "debounce"
  /\ UNCHANGED <<target, snap, disconnectReason, selection, keyDue>>

\* The failure is forgotten.
BadTunnelFails ==
  /\ pc = "forward"
  /\ ~conns[candidate].up
  /\ disconnectReason' = FALSE
  /\ candidate' = None
  /\ pc' = "debounce"
  /\ UNCHANGED <<target, snap, tunnel, selection, keyDue, conns, os>>

\* conn.receive() returned an error: the reason is kept for the next iteration.
TunnelFails ==
  /\ pc = "forward"
  /\ ~conns[candidate].up
  /\ disconnectReason' = TRUE
  /\ candidate' = None
  /\ pc' = "debounce"
  /\ UNCHANGED <<target, snap, tunnel, selection, keyDue, conns, os>>

\* Nothing wakes the loop when an interface appears.
BadTargetChanged ==
  /\ pc \in {"forward", "wait_disconnected"}
  /\ target # snap
  /\ disconnectReason' = (disconnectReason /\ pc # "forward")
  /\ candidate' = None
  /\ pc' = "debounce"
  /\ UNCHANGED <<target, snap, tunnel, selection, keyDue, conns, os>>

\* poll_until_change saw another target than the snapshot; after forwarding its
\* result replaces the stored failure.
TargetChanged ==
  /\ pc \in {"forward", "wait_disconnected", "wait_interface"}
  /\ target # snap
  /\ disconnectReason' = (disconnectReason /\ pc # "forward")
  /\ candidate' = None
  /\ pc' = "debounce"
  /\ UNCHANGED <<target, snap, tunnel, selection, keyDue, conns, os>>

ConfigUnset ==
  /\ pc = "unset"
  /\ os' = [os EXCEPT !.capture = FALSE, !.conn = None]
  /\ pc' = "wait_disconnected"
  /\ UNCHANGED <<target, snap, tunnel, candidate, disconnectReason, selection, keyDue, conns>>

UnsetFails ==
  /\ pc = "unset"
  /\ os' \in [capture: {os.capture, FALSE}, conn: {os.conn, None}, opts: {os.opts}]
  /\ pc' = "debounce"
  /\ UNCHANGED <<target, snap, tunnel, candidate, disconnectReason, selection, keyDue, conns>>

-----------------------------------------------------------------------------
(* The environment                                                         *)

Retarget(t) ==
  /\ t # target
  /\ target' = t
  /\ UNCHANGED <<snap, pc, tunnel, candidate, disconnectReason, selection, keyDue, conns, os>>

\* set_tunnel_target_state: a user connects, disconnects or picks another exit.
UserSetsTarget == \E a \in TunnelArgs \cup {None} : Retarget([target EXCEPT !.args = a])

\* set_network_interface: the preferred interface appears, changes or vanishes.
InterfaceChanges == \E i \in Interfaces \cup {None} : Retarget([target EXCEPT !.iface = i])

\* A settings command.
OptionsChange == \E o \in Options : Retarget([target EXCEPT !.opts = o])

\* set_account_id with another account resets the configuration.
AccountChanges == Retarget([target EXCEPT !.args = None, !.opts = DefaultOptions])

\* The relay, the network or the liveness checker ends a connection.
ConnBreaks(c) ==
  /\ conns[c].up
  /\ conns' = [conns EXCEPT ![c].up = FALSE]
  /\ UNCHANGED <<target, snap, pc, tunnel, candidate, disconnectReason, selection, keyDue, os>>

\* A packet passes through a connection that the loop or the OS holds.
Carry(c) ==
  /\ conns[c].up
  /\ c \in {os.conn, candidate}
  /\ conns[c].bytes + tunnel.offset < MaxBytes
  /\ conns' = [conns EXCEPT ![c].bytes = @ + 1]
  /\ UNCHANGED <<target, snap, pc, tunnel, candidate, disconnectReason, selection, keyDue, os>>

\* The key in use passes its maximal age.
KeyExpires ==
  /\ ~keyDue
  /\ keyDue' = TRUE
  /\ UNCHANGED <<target, snap, pc, tunnel, candidate, disconnectReason, selection, conns, os>>

Loop ==
  \/ BeginIteration
  \/ DummyConfigSet \/ DummyConfigFails
  \/ \E c \in Conns : ConnectSucceeds(c)
  \/ ConnectFails \/ ConnectCancelled
  \/ RealConfigSet \/ RealConfigFails
  \/ TunnelFails \/ TargetChanged
  \/ ConfigUnset \/ UnsetFails

Environment ==
  \/ UserSetsTarget \/ InterfaceChanges \/ OptionsChange \/ AccountChanges
  \/ \E c \in Conns : ConnBreaks(c) \/ Carry(c)
  \/ KeyExpires

Next == Loop \/ Environment

Spec == Init /\ [][Next]_vars

\* The executor polls every task that can make progress, so each await that
\* can complete does (weak fairness).  select! polls its branches in random
\* order, so a failed tunnel is not overlooked for ever in favour of target
\* changes (strong fairness).  Calls to the OS and connection attempts may fail
\* any number of times, but one that is retried for ever succeeds some time
\* (strong fairness, an assumption on the environment).
Fairness ==
  /\ WF_vars(BeginIteration)
  /\ WF_vars(ConnectCancelled)
  /\ SF_vars(TunnelFails)
  /\ WF_vars(TargetChanged)
  /\ SF_vars(DummyConfigSet)
  /\ SF_vars(\E c \in Conns : ConnectSucceeds(c))
  /\ SF_vars(RealConfigSet)
  /\ SF_vars(ConfigUnset)

FairSpec == Spec /\ Fairness

-----------------------------------------------------------------------------
(* Properties                                                              *)

\* Every variable keeps the shape of the Rust type it stands for.
TypeOK ==
  /\ target \in TargetState
  /\ snap \in TargetState
  /\ pc \in PCs
  /\ tunnel \in Tunnel
  /\ candidate \in Conns \cup {None}
  /\ disconnectReason \in BOOLEAN
  /\ selection \in BOOLEAN
  /\ keyDue \in BOOLEAN
  /\ conns \in [Conns -> Conn]
  /\ os \in OsConfig

\* "Connected" is only ever shown while the OS sends traffic into exactly the
\* published connection, through failed reconfigurations and retargeting too.
ConnectedIsRouted ==
  tunnel.kind = "Connected" => os.capture /\ os.conn = tunnel.conn

\* The published arguments and interface are those the published connection
\* was opened with: no retargeting relabels a live tunnel.
ConnectedAsOpened ==
  tunnel.kind = "Connected" =>
    /\ conns[tunnel.conn].args = tunnel.args
    /\ conns[tunnel.conn].iface = tunnel.iface

\* What is shown as connected is the tunnel that was opened, and it is in use.
ConnectedIsSound == ConnectedIsRouted /\ ConnectedAsOpened

\* While the loop talks to relays and the API, user traffic is captured and
\* goes nowhere, under the settings of this iteration.
AttemptIsCaptured ==
  pc = "connect" => os = [capture |-> TRUE, conn |-> None, opts |-> snap.opts]

\* A tunnel that is being forwarded is published, and its OS configuration has
\* the settings of this iteration although settings may have changed since.
ForwardingUnderSnapshot ==
  pc = "forward" =>
    /\ tunnel.kind = "Connected" /\ tunnel.conn = candidate
    /\ os.opts = snap.opts
    /\ MatchesTarget(tunnel, snap)

\* What is published fits the await the loop is suspended at: it works for a
\* connection only when that is wanted and possible, holds a connection only
\* while it configures or forwards it, and waits only after giving up.
PhaseMatchesAwait ==
  /\ (tunnel.kind = "Connected") <=> (tunnel.conn # None)
  /\ tunnel.kind = "Connected" => tunnel.args # None /\ tunnel.iface # None
  /\ pc \in {"set_dummy", "connect", "set_real", "forward"} =>
       snap.args # None /\ snap.iface # None
  /\ pc \in {"set_dummy", "connect", "wait_interface"} => tunnel.kind = "Connecting"
  /\ pc \in {"unset", "wait_disconnected"} =>
       tunnel.kind = "Disconnected" /\ snap.args = None
  /\ (candidate # None) <=> (pc \in {"set_real", "forward"})
  /\ pc = "set_real" =>
       /\ tunnel.kind = "Connecting" \/ tunnel.conn = candidate
       /\ conns[candidate].args = snap.args
       /\ conns[candidate].iface = snap.iface

\* The inductive invariant: the properties above support each other.
IInv ==
  /\ TypeOK
  /\ PhaseMatchesAwait
  /\ ConnectedIsRouted
  /\ ConnectedAsOpened
  /\ AttemptIsCaptured
  /\ ForwardingUnderSnapshot

\* The loop never replaces one connection by another, nor changes what it is
\* connected to, without publishing "Connecting" or "Disconnected" in between.
SameTunnelWhileConnected ==
  [][tunnel.kind = "Connected" /\ tunnel'.kind = "Connected" =>
       /\ tunnel'.conn = tunnel.conn
       /\ tunnel'.args = tunnel.args
       /\ tunnel'.iface = tunnel.iface]_vars

\* Traffic is released only while "Disconnected" is published and only by an
\* iteration whose target was not to be connected.
ReleaseOnlyWhenDisconnected ==
  [][os.capture /\ ~os'.capture => tunnel.kind = "Disconnected" /\ snap.args = None]_vars

\* Within a session (conn_id is kept from leaving Disconnected to returning to
\* it) the reported traffic never decreases, and while one connection stays
\* published it grows by exactly what that connection carries.
StatsAreMonotone ==
  [][tunnel.kind # "Disconnected" /\ tunnel'.kind # "Disconnected" =>
       /\ TrafficStats(tunnel', conns') >= TrafficStats(tunnel, conns)
       /\ tunnel.kind = "Connected" /\ tunnel'.kind = "Connected" =>
            TrafficStats(tunnel', conns') - TrafficStats(tunnel, conns)
              = conns'[tunnel.conn].bytes - conns[tunnel.conn].bytes]_vars

\* The loop implements what the tunnel promises to its observers.
Promise == INSTANCE TunnelPromise
  WITH phase <- tunnel.kind, via <- tunnel.conn,
       capture <- os.capture, carrier <- os.conn

ImplementsPromise == Promise!Spec

\* The loop has done what target t asks for.
Reached(t) ==
  IF t.args = None
  THEN tunnel.kind = "Disconnected" /\ ~os.capture
  ELSE /\ tunnel.kind = "Connected"
       /\ MatchesTarget(tunnel, t)
       /\ os.opts = t.opts

\* If the target stays the same and can be reached, it is reached, again after
\* every tunnel failure.
Converges ==
  \A t \in TargetState :
    (t.args = None \/ t.iface # None) => (<>[](target = t) => []<>Reached(t))

\* A dead tunnel does not stay published, whatever targets and failures do.
DeadTunnelIsDropped ==
  \A c \in Conns :
    (tunnel.kind = "Connected" /\ tunnel.conn = c /\ ~conns[c].up)
      ~> ~(tunnel.kind = "Connected" /\ tunnel.conn = c /\ ~conns[c].up)
=============================================================================
