---------------------------- MODULE StatusWatch ----------------------------
(***************************************************************************)
(* How what is true of the service reaches those who look at it: the       *)
(* status that the manager publishes (rustlib/src/manager.rs), the         *)
(* connection over which a Linux front end asks for it (linux/ipc.rs and   *)
(* bin/obscura/service/os/linux/ipc.rs), the poller that keeps an OsStatus *)
(* (linux/status_watch.rs), and the web view and the tray, which follow it *)
(* (gui/webview_cmd.rs, linux/tray.rs).                                    *)
(*                                                                         *)
(* A status is told apart by the phase of the tunnel in it, which changes  *)
(* as TunnelState.tla says.                                                *)
(***************************************************************************)
CONSTANTS
  NoVersion,
  Phases,    \* of the tunnel, as a status tells them apart
  Versions   \* of a status: random UUIDs, each used once

ASSUME PhasesAssumption == "Disconnected" \in Phases
\* There is always one more than there are places that keep one.
ASSUME VersionsAssumption ==
  /\ NoVersion \notin Versions
  /\ \A a, b, c \in Versions \cup {NoVersion} : Versions \ {a, b, c} # {}

VARIABLES
  unit,      \* "up", "down" until systemd starts it again, "stopped" or "removed"
  bound,     \* the files of the two sockets exist, maybe without a listener
  bus,       \* systemd answers over the system bus
  member,    \* the user is in the group of the service
  session,   \* the groups that the front end got at login have that group
  outdated,  \* the service is of another release than the front end
  tunnel,    \* the phase that the tunnel loop has published
  status,    \* the published status
  unseen,    \* a change that propagate_updates_to_status_task has not handled
  poller,    \* run_status_poller: its connection, the version it knows
  gui,       \* OsStatus: the state of the service
  shown,     \* the state of the service that the page or the tray shows
  news       \* the version of OsStatus is not the one that they know

serviceVars == <<unit, bound, tunnel, status, unseen>>

hostVars == <<bus, member, session, outdated>>

viewVars == <<gui, shown, news>>

frontVars == <<hostVars, poller, viewVars>>

watchVars == <<serviceVars, frontVars>>

NoStatus == [version |-> NoVersion, vpn |-> "Disconnected"]

Initializing == [kind |-> "Initializing"]

Healthy(s) == [kind |-> "Healthy", status |-> s]

Degraded(reason) == [kind |-> "Degraded", reason |-> reason]

IdlePoller == [at |-> "idle", known |-> NoVersion, reply |-> NoStatus]

WatchInit ==
  /\ unit = "down"
  /\ bound = FALSE
  /\ bus = TRUE
  /\ member \in BOOLEAN
  /\ session = member
  /\ outdated = FALSE
  /\ tunnel = "Disconnected"
  /\ status = NoStatus
  /\ unseen = FALSE
  /\ poller = IdlePoller
  /\ gui = Initializing
  /\ shown = Initializing
  /\ news = TRUE

\* The statuses of the service, of an answer and of the front end.
Copies ==
  {status, poller.reply} \cup IF gui.kind = "Healthy" THEN {gui.status} ELSE {}

\* A UUID that nobody has, for which one stands.
NewVersion ==
  CHOOSE v \in Versions : v # poller.known /\ \A s \in Copies : v # s.version

-----------------------------------------------------------------------------
(* The service                                                             *)

\* ServiceIpc::new replaces what is left of the sockets.
BindListeners == bound' = TRUE

\* Manager::new: the first status is the same for every service, its version
\* is not.  mark_changed makes the propagation look at the tunnel at once.
ServiceStarts ==
  /\ unit = "down"
  /\ unit' = "up"
  /\ BindListeners
  /\ status' = [version |-> NewVersion, vpn |-> "Disconnected"]
  /\ unseen' = TRUE
  /\ UNCHANGED <<tunnel, frontVars>>

\* set_connecting, set_connected and set_disconnected, which may come several
\* at once: from any phase to any other.
TunnelChanges ==
  /\ unit = "up"
  /\ tunnel' \in Phases \ {tunnel}
  /\ unseen' = TRUE
  /\ UNCHANGED <<unit, bound, status, frontVars>>

\* A change of the client state that no status shows, such as a new target.
ClientStateChanges ==
  /\ unit = "up"
  /\ unseen' = TRUE
  /\ UNCHANGED <<unit, bound, tunnel, status, frontVars>>

\* Operators whose name begins with "Bad" are faulty variants of the operator
\* that follows them; only the sensitivity checks of PROJECT.json use them.

\* The version is only renewed when the tunnel comes up.
BadNewStatus ==
  [version |-> IF tunnel = "Connected" THEN NewVersion ELSE status.version,
   vpn |-> tunnel]

NewStatus == [version |-> NewVersion, vpn |-> tunnel]

\* propagate_updates_to_status_task: send_if_modified compares the new status
\* under the old version.
Propagate ==
  /\ unit = "up" /\ unseen
  /\ unseen' = FALSE
  /\ status' = IF status.vpn = tunnel THEN status ELSE NewStatus
  /\ UNCHANGED <<unit, bound, tunnel, frontVars>>

-----------------------------------------------------------------------------
(* A connection is idle, accepted, sent, running in the service, answered  *)
(* or has failed                                                           *)

Polls(at) == poller' = [poller EXCEPT !.at = at]

\* Without the group, the file of the first socket cannot be opened, and
\* whatever fails with the second one, which everyone can open, is reported as
\* a lack of permission.
Refused == IF ~session /\ bound THEN "denied" ELSE "unreachable"

\* connect_and_read_header
PollerConnects ==
  /\ poller.at = "idle"
  /\ Polls(IF unit = "up" THEN "accepted" ELSE Refused)
  /\ UNCHANGED <<serviceVars, hostVars, viewVars>>

\* may_access_with_fresh_groups, for the second socket alone.
MayAccess == session \/ member

\* LinuxIpcHeader
Header == [denied |-> ~MayAccess, version |-> IF outdated THEN "other" ELSE "same"]

\* run_command looks at the denial first.
AfterHeader(header) ==
  CASE header.denied -> "denied"
    [] ~header.denied /\ header.version # "same" -> "mismatch"
    [] OTHER -> "sent"

\* handle_stream, up to the header.
HeaderWritten ==
  /\ unit = "up" /\ poller.at = "accepted"
  /\ Polls(AfterHeader(Header))
  /\ UNCHANGED <<serviceVars, hostVars, viewVars>>

\* handle_stream hands the message to the loop of service::run, which spawns
\* the command.
Taken ==
  /\ unit = "up" /\ poller.at = "sent"
  /\ Polls("running")
  /\ UNCHANGED <<serviceVars, hostVars, viewVars>>

\* ManagerCmd::GetStatus waits for a version that is not known.
GetStatus ==
  /\ poller.at = "running" /\ status.version # poller.known
  /\ poller' = [poller EXCEPT !.at = "answered", !.reply = status]
  /\ UNCHANGED <<serviceVars, hostVars, viewVars>>

\* What the process has not answered is lost with it.
BreakConnection ==
  Polls(CASE poller.at = "accepted" /\ ~session -> "denied"
          [] poller.at = "accepted" /\ session -> "broken"
          [] poller.at \in {"sent", "running"} -> "broken"
          [] OTHER -> poller.at)

-----------------------------------------------------------------------------
(* run_status_poller                                                       *)

\* OsStatus::set_service_status: a new version, if the state is new.
SetServiceStatus(s) ==
  /\ gui' = s
  /\ news' = (news \/ gui # s)

Receive ==
  /\ poller.at = "answered"
  /\ poller' = [IdlePoller EXCEPT !.known = poller.reply.version]
  /\ SetServiceStatus(Healthy(poller.reply))
  /\ UNCHANGED <<serviceVars, hostVars, shown>>

\* SystemdUnitStatus::get
UnitStatus ==
  CASE ~bus -> "Unknown"
    [] bus /\ unit = "up" -> "Active"
    [] bus /\ unit = "down" -> "Activating"
    [] bus /\ unit = "stopped" -> "Inactive"
    [] bus /\ unit = "removed" -> "NotInstalled"

\* classify_unreachable, which asks systemd after the connection has failed.
Unreachable(failure) ==
  CASE UnitStatus = "NotInstalled" -> "UnitNotInstalled"
    [] UnitStatus = "Activating" -> "UnitActivating"
    [] UnitStatus = "Inactive" -> "UnitInactive"
    [] UnitStatus \in {"Unknown", "Active"} ->
         IF failure = "denied" THEN "SocketPermissionDenied" ELSE "Unknown"

Degradation ==
  CASE poller.at = "mismatch" -> "VersionMismatch"
    [] poller.at = "broken" -> "Unknown"
    [] OTHER -> Unreachable(poller.at)

\* The version of the last status is still known when the service is back.
BadForget == poller' = [poller EXCEPT !.at = "asleep", !.reply = NoStatus]

Forget == poller' = [IdlePoller EXCEPT !.at = "asleep"]

PollerFails ==
  /\ poller.at \in {"unreachable", "denied", "mismatch", "broken"}
  /\ SetServiceStatus(Degraded(Degradation))
  /\ Forget
  /\ UNCHANGED <<serviceVars, hostVars, shown>>

PollerWakes ==
  /\ poller.at = "asleep"
  /\ Polls("idle")
  /\ UNCHANGED <<serviceVars, hostVars, viewVars>>

\* status_line and the icon of the tray, and the page, tell phases apart.
Shows(s) == IF s.kind = "Healthy" THEN [kind |-> "Healthy", vpn |-> s.status.vpn] ELSE s

\* GuiStatusWatch::changed, called again and again by the page and the tray
\* with the version that they have.
Show ==
  /\ news
  /\ news' = FALSE
  /\ shown' = Shows(gui)
  /\ UNCHANGED <<serviceVars, hostVars, poller, gui>>

-----------------------------------------------------------------------------
(* systemd, packages and users                                             *)

Ends(to) ==
  /\ unit' = to
  /\ tunnel' = "Disconnected"
  /\ status' = NoStatus
  /\ unseen' = FALSE
  /\ BreakConnection
  /\ UNCHANGED <<bound, viewVars>>

\* It crashes, or is restarted, started or installed.
Restart == unit # "down" /\ Ends("down") /\ UNCHANGED hostVars

ServiceStops == unit \notin {"stopped", "removed"} /\ Ends("stopped") /\ UNCHANGED hostVars

Remove == unit # "removed" /\ Ends("removed") /\ UNCHANGED hostVars

\* The front end goes on as it is.
Upgrade ==
  /\ ~outdated /\ Ends("down")
  /\ outdated' = TRUE
  /\ UNCHANGED <<bus, member, session>>

BusChanges ==
  /\ bus' = ~bus
  /\ UNCHANGED <<serviceVars, member, session, outdated, poller, viewVars>>

AccessChanges ==
  /\ member' = ~member
  /\ UNCHANGED <<serviceVars, bus, session, outdated, poller, viewVars>>

NewFrontEnd ==
  /\ outdated' = FALSE
  /\ poller' = IdlePoller
  /\ gui' = Initializing
  /\ shown' = Initializing
  /\ news' = TRUE
  /\ UNCHANGED <<serviceVars, bus, member>>

\* RestartApp, which the page offers when the versions differ.
RestartApp ==
  /\ outdated /\ shown = Degraded("VersionMismatch")
  /\ NewFrontEnd
  /\ UNCHANGED session

\* A new session has the groups of the user.
LogIn == session # member /\ NewFrontEnd /\ session' = member

Poller ==
  \/ PollerConnects \/ HeaderWritten \/ Taken \/ GetStatus \/ Receive \/ PollerFails \/ PollerWakes

Environment ==
  \/ ServiceStarts \/ Restart \/ ServiceStops \/ Remove \/ Upgrade
  \/ BusChanges \/ AccessChanges \/ RestartApp \/ LogIn
  \/ TunnelChanges \/ ClientStateChanges

WatchNext == Poller \/ Propagate \/ Show \/ Environment

WatchSpec == WatchInit /\ [][WatchNext]_watchVars

\* Tasks that can go on do; users, systemd and the tunnel need not.
FairWatchSpec == WatchSpec /\ WF_watchVars(Poller) /\ WF_watchVars(Propagate) /\ WF_watchVars(Show)

-----------------------------------------------------------------------------
(* Properties                                                              *)

\* A version identifies a status, wherever its copies are: a client that says
\* which version it knows has the content of that version.
VersionsIdentify == \A s, t \in Copies : s.version = t.version => s = t

\* What there is to show.  Access is checked once for each connection, and
\* without systemd an unreachable service is only that.
Truth ==
  LET barred == ~MayAccess /\ poller.at \notin {"sent", "running"} IN
  CASE unit # "up" -> Degraded(Unreachable(Refused))
    [] unit = "up" /\ barred -> Degraded("SocketPermissionDenied")
    [] unit = "up" /\ ~barred /\ outdated -> Degraded("VersionMismatch")
    [] OTHER -> [kind |-> "Healthy", vpn |-> tunnel]

\* Unless it, or the login session, goes on changing, what is true of the
\* service and the tunnel is shown in the end, whatever the service, the
\* connection and the poller went through: no change is slept through, no
\* failure sticks.
ShownInTheEnd ==
  []<><<Truth' # Truth \/ session' # session>>_watchVars \/ <>[](shown = Truth)
=============================================================================
