--------------------------- MODULE TunnelPromise ---------------------------
(***************************************************************************)
(* What the tunnel promises to those who watch it: how the published phase *)
(* and the traffic the OS lets pass are related.  Nothing is said of       *)
(* targets, attempts, settings or errors.  TunnelState implements this.    *)
(***************************************************************************)
CONSTANTS Conns, None

VARIABLES
  phase,    \* what is published: "Disconnected", "Connecting" or "Connected"
  via,      \* the published connection
  capture,  \* the OS captures user traffic
  carrier   \* the connection the OS hands captured traffic to

vars == <<phase, via, capture, carrier>>

Init ==
  /\ phase = "Disconnected"
  /\ via = None
  /\ capture \in BOOLEAN
  /\ carrier = None

\* The tunnel is (again) being established; what it had is given up.
Announce ==
  /\ phase' = "Connecting"
  /\ via' = None
  /\ UNCHANGED <<capture, carrier>>

\* While connecting, capture may start but not end, and traffic may be
\* handed to any connection, or to none.
Prepare ==
  /\ phase = "Connecting"
  /\ capture' \in {capture, TRUE}
  /\ carrier' \in Conns \cup {None}
  /\ UNCHANGED <<phase, via>>

\* The tunnel is up: published and routed at once.
Open(c) ==
  /\ phase = "Connecting"
  /\ phase' = "Connected"
  /\ via' = c
  /\ capture' = TRUE
  /\ carrier' = c

GiveUp ==
  /\ phase' = "Disconnected"
  /\ via' = None
  /\ UNCHANGED <<capture, carrier>>

\* Traffic may flow outside the tunnel, only after that was published.
Release ==
  /\ phase = "Disconnected"
  /\ capture' \in {capture, FALSE}
  /\ carrier' \in {carrier, None}
  /\ UNCHANGED <<phase, via>>

Next ==
  \/ Announce \/ Prepare \/ GiveUp \/ Release
  \/ \E c \in Conns : Open(c)

Spec == Init /\ [][Next]_vars
=============================================================================
