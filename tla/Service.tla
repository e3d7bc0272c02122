------------------------------ MODULE Service ------------------------------
(***************************************************************************)
(* The life of the service and of a command that a front end gives it:     *)
(* service::run with its detection of restarts and its shutdown            *)
(* (bin/obscura/service/mod.rs), RevocableOs, which takes the OS away from *)
(* the tunnel loop (os/os_trait.rs), and a target that a user sets over    *)
(* the local socket, from the page, the tray or the command line           *)
(* (gui/webview_cmd.rs, linux/tray.rs, bin/obscura/client/mod.rs).         *)
(*                                                                         *)
(* Under systemd the service is killed, and a marker in its runtime        *)
(* directory tells a restart from a start.  Under Windows it is asked to   *)
(* shut down, and the reason of the start is given to it.                  *)
(***************************************************************************)
EXTENDS Naturals

CONSTANTS
  MaxRetries   \* of StartTunnel: 9

ASSUME MaxRetriesAssumption == MaxRetries \in Nat

VARIABLES
  windows,   \* or Linux
  service,   \* "off", "starting", "up", "revoking" or "reverting"
  cause,     \* of the next start: "boot", "demand", "failure" or "none"
  marker,    \* restart-marker, which is removed with the runtime directory
  saved,     \* tunnel_active in the configuration file
  active,    \* tunnel_active in the client state of the process
  call,      \* the call of the tunnel loop to RevocableOs
  lock,      \* of RevocableOs: "open", "closing" with revoke queued, "revoked"
  os,        \* the network configuration is set
  command,   \* the user's command, over its connection
  orphan,    \* a disconnect whose client gave up is still in the service
  wanted,    \* history: the target that was set last, FALSE after a boot
  misread    \* history: a start takes a boot for a restart, as the first one
             \* failed, or a restart for a boot, as Windows gave no reason

vars == <<windows, service, cause, marker, saved, active, call, lock, os,
          command, orphan, wanted, misread>>

lifeVars == <<windows, service, cause, marker>>
osVars == <<call, lock, os>>
targetVars == <<saved, active, wanted>>
clientVars == <<command, orphan>>

NoCall == [op |-> "none", at |-> "none"]

NoCommand == [kind |-> "none", at |-> "none", retries |-> 0]

Init ==
  /\ windows \in BOOLEAN
  /\ service = "off"
  /\ cause = "boot"
  /\ marker = FALSE
  /\ saved \in BOOLEAN
  /\ active = FALSE
  /\ call = NoCall
  /\ lock = "open"
  /\ os = FALSE
  /\ command = NoCommand
  /\ orphan = FALSE
  /\ wanted = FALSE
  /\ misread = FALSE

Runs == service \in {"up", "revoking", "reverting"}

\* Operators whose name begins with "Bad" are faulty variants of the operator
\* that follows them; only the sensitivity checks of PROJECT.json use them.

-----------------------------------------------------------------------------
(* service::run: the start                                                 *)

\* Every start counts as one after a boot.
BadIsRestart(reason) == FALSE

\* detect_restart: an explicit start is a restart for Windows.
IsRestart(reason) == IF windows THEN reason \in {"demand", "failure"} ELSE marker

\* ScmStartReason::query, which may not get an answer
Reasons == IF windows THEN {cause, "unknown"} ELSE {"none"}

\* The socket is bound while the service starts.
Begin ==
  /\ service = "off" /\ cause # "none"
  /\ service' = "starting"
  /\ UNCHANGED <<windows, cause, marker, osVars, targetVars, clientVars, misread>>

\* ClientState::new with force_init_inactive saves the change at once.
Starts ==
  /\ service = "starting"
  /\ \E reason \in Reasons :
       /\ active' = (saved /\ IsRestart(reason))
       /\ misread' = (misread \/ (reason = "unknown" /\ cause # "boot"))
  /\ saved' = active'
  /\ service' = "up"
  /\ cause' = "none"
  /\ marker' = ~windows
  /\ UNCHANGED <<windows, osVars, clientVars, wanted>>

\* What a process has not answered is lost with it.
ConnectionBreaks ==
  /\ command' = [command EXCEPT !.at =
                   IF @ \in {"sent", "running", "executed"} THEN "broken" ELSE @]
  /\ orphan' = FALSE

\* LinuxOsImpl::new or WindowsOsImpl::new fails or does not return, after
\* detect_restart; the service is started again.
StartFails ==
  /\ service = "starting"
  /\ service' = "off"
  /\ cause' = "failure"
  /\ marker' = ~windows
  /\ misread' = (misread \/ IF windows THEN cause = "boot" ELSE ~marker)
  /\ ConnectionBreaks
  /\ UNCHANGED <<windows, osVars, targetVars>>

-----------------------------------------------------------------------------
(* RevocableOs                                                             *)

\* TunnelState::maintain has the OS configured as the target says.
CallRequested ==
  /\ Runs /\ call = NoCall
  /\ call' = [op |-> IF active THEN "set" ELSE "unset", at |-> "locking"]
  /\ UNCHANGED <<lifeVars, targetVars, clientVars, misread, lock, os>>

\* The lock is fair: a reader waits behind the writer of revoke.
CallBegins ==
  /\ Runs /\ call.at = "locking" /\ lock # "closing"
  /\ call' = [call EXCEPT !.at = IF lock = "revoked" THEN "blocked" ELSE "inside"]
  /\ UNCHANGED <<lifeVars, targetVars, clientVars, misread, lock, os>>

\* The guard is held until then.  What fails may be half done.
CallEnds ==
  /\ Runs /\ call.at = "inside"
  /\ os' \in {os, call.op = "set"}
  /\ call' = NoCall
  /\ UNCHANGED <<lifeVars, targetVars, clientVars, misread, lock>>

\* revoke does not wait for a call.
BadMayRevoke == lock = "closing"

MayRevoke == lock = "closing" /\ call.at # "inside"

-----------------------------------------------------------------------------
(* service::run: the shutdown                                              *)

ShutdownRequested ==
  /\ windows /\ service = "up"
  /\ service' = "revoking"
  /\ lock' = "closing"
  /\ UNCHANGED <<windows, cause, marker, targetVars, clientVars, misread, call, os>>

Revoked ==
  /\ service = "revoking" /\ MayRevoke
  /\ service' = "reverting"
  /\ lock' = "revoked"
  /\ UNCHANGED <<windows, cause, marker, targetVars, clientVars, misread, call, os>>

\* After 20 s the writer leaves the queue; the OS stays in the loop's hands.
RevokeTimesOut ==
  /\ service = "revoking" /\ call.at = "inside"
  /\ service' = "reverting"
  /\ lock' = "open"
  /\ UNCHANGED <<windows, cause, marker, targetVars, clientVars, misread, call, os>>

\* What ends a process: a fresh one comes with a lock of its own.
Ends(next) ==
  /\ service' = "off"
  /\ cause' = next
  /\ active' = FALSE
  /\ call' = NoCall
  /\ lock' = "open"
  /\ ConnectionBreaks

\* unset_os_network_config of the service itself, which may fail
Reverted ==
  /\ service = "reverting"
  /\ os' \in {os, FALSE}
  /\ \E next \in {"demand", "none"} : Ends(next)
  /\ UNCHANGED <<windows, marker, saved, wanted, misread>>

-----------------------------------------------------------------------------
(* Crashes, systemd, users and reboots                                     *)

\* What the OS keeps of a process that dies is modelled in LinuxOs.
Dies(next) == Ends(next) /\ os' \in {os, FALSE}

\* It crashes or is killed for a restart: Restart=always, or the recovery
\* actions of Windows.
Crash ==
  /\ Runs
  /\ Dies("failure")
  /\ UNCHANGED <<windows, marker, saved, wanted, misread>>

\* RuntimeDirectoryPreserve=restart: a stop forgets the marker.
Stop ==
  /\ ~windows /\ (service # "off" \/ cause # "none")
  /\ Dies("none")
  /\ marker' = FALSE /\ wanted' = FALSE /\ misread' = FALSE
  /\ UNCHANGED <<windows, saved>>

\* systemctl start, or the service manager of Windows
StartRequested ==
  /\ service = "off" /\ cause = "none"
  /\ cause' = "demand"
  /\ UNCHANGED <<windows, service, marker, osVars, targetVars, clientVars, misread>>

Reboot ==
  /\ service' = "off"
  /\ cause' = "boot"
  /\ marker' = FALSE
  /\ active' = FALSE
  /\ call' = NoCall /\ lock' = "open" /\ os' = FALSE
  /\ command' = NoCommand /\ orphan' = FALSE
  /\ wanted' = FALSE
  /\ misread' = FALSE
  /\ UNCHANGED <<windows, saved>>

-----------------------------------------------------------------------------
(* A command: idle, sent, running in the service, executed, done           *)

\* ClientState::set_tunnel_target_state changes and saves the configuration.
SetTarget(value) ==
  /\ active' = value /\ saved' = value
  /\ wanted' = value /\ misread' = FALSE

\* Another front end does the same in between.
OthersSetTarget ==
  /\ Runs
  /\ \E value \in BOOLEAN : SetTarget(value)
  /\ UNCHANGED <<lifeVars, osVars, clientVars>>

\* StartTunnel of the page on Linux; connect of the command line and auto_connect;
\* StopTunnel and disconnect; Quit and Disconnect of the tray.
Give ==
  /\ command.at \in {"none", "done", "failed"}
  /\ \E kind \in {"start", "connect", "disconnect", "quit"} :
       /\ kind \in {"start", "quit"} => ~windows
       /\ command' = [kind |-> kind, at |-> "idle",
                      retries |-> IF kind = "start" THEN MaxRetries ELSE 0]
  /\ UNCHANGED <<lifeVars, osVars, targetVars, orphan, misread>>

Moves(at) == command' = [command EXCEPT !.at = at]

\* run_command.  A service that starts may have bound its socket.
Connects ==
  /\ command.at = "idle"
  /\ \/ Moves("sent") /\ (Runs \/ service = "starting")
     \/ Moves("broken") /\ ~Runs
  /\ UNCHANGED <<lifeVars, osVars, targetVars, orphan, misread>>

\* The checks of access and of the version fail.
Refused ==
  /\ command.at = "idle" /\ Runs
  /\ Moves("broken")
  /\ UNCHANGED <<lifeVars, osVars, targetVars, orphan, misread>>

\* The loop of service::run, which ends with the request to shut down
Taken ==
  /\ service = "up" /\ command.at = "sent"
  /\ Moves("running")
  /\ UNCHANGED <<lifeVars, osVars, targetVars, orphan, misread>>

\* ManagerCmd::SetTunnelArgs
Execute ==
  /\ command.at = "running"
  /\ SetTarget(command.kind \in {"start", "connect"})
  /\ Moves("executed")
  /\ UNCHANGED <<lifeVars, osVars, orphan>>

Answered ==
  /\ command.at = "executed"
  /\ Moves("done")
  /\ UNCHANGED <<lifeVars, osVars, targetVars, orphan, misread>>

\* quit_and_disconnect waits for 5 s; the service does not notice.
GivesUp ==
  /\ command.kind = "quit" /\ command.at \in {"idle", "sent", "running", "executed"}
  /\ Moves("failed")
  /\ orphan' = (orphan \/ command.at \in {"sent", "running"})
  /\ UNCHANGED <<lifeVars, osVars, targetVars, misread>>

OrphanExecuted ==
  /\ service = "up" /\ orphan
  /\ SetTarget(FALSE)
  /\ orphan' = FALSE
  /\ UNCHANGED <<lifeVars, osVars, command>>

\* The attempts are not counted.
BadTryAgain ==
  IF command.kind = "start" THEN Moves("asleep") ELSE Moves("failed")

\* StartTunnel retries errors of the transport, others do not.
TryAgain ==
  IF command.retries > 0
  THEN command' = [command EXCEPT !.at = "asleep", !.retries = @ - 1]
  ELSE Moves("failed")

AttemptFails ==
  /\ command.at = "broken"
  /\ TryAgain
  /\ UNCHANGED <<lifeVars, osVars, targetVars, orphan, misread>>

Wakes ==
  /\ command.at = "asleep"
  /\ Moves("idle")
  /\ UNCHANGED <<lifeVars, osVars, targetVars, orphan, misread>>

Command == Connects \/ Refused \/ Taken \/ Execute \/ Answered \/ AttemptFails \/ Wakes

Startup == Starts \/ StartFails

Shutdown == Revoked \/ RevokeTimesOut \/ Reverted

Loop == CallRequested \/ CallBegins \/ CallEnds

Environment ==
  \/ ShutdownRequested \/ Crash \/ Stop \/ StartRequested \/ Reboot
  \/ OthersSetTarget \/ Give \/ GivesUp \/ OrphanExecuted

Next == Begin \/ Startup \/ Shutdown \/ Loop \/ Command \/ Environment

Spec == Init /\ [][Next]_vars

\* Tasks that can go on do, and a start ends.  A call of the OS may hang.
Fairness ==
  WF_vars(Begin) /\ WF_vars(Startup) /\ WF_vars(Shutdown) /\ WF_vars(Command)

-----------------------------------------------------------------------------
(* Properties                                                              *)

Calls == [op : {"none", "set", "unset"}, at : {"none", "locking", "inside", "blocked"}]

Commands ==
  [kind : {"none", "start", "connect", "disconnect", "quit"},
   at : {"none", "idle", "sent", "running", "executed", "done", "broken",
         "asleep", "failed"},
   retries : 0..MaxRetries]

\* Every variable has its shape.
TypeOK ==
  /\ windows \in BOOLEAN /\ marker \in BOOLEAN
  /\ service \in {"off", "starting", "up", "revoking", "reverting"}
  /\ cause \in {"boot", "demand", "failure", "none"}
  /\ saved \in BOOLEAN /\ active \in BOOLEAN
  /\ call \in Calls
  /\ lock \in {"open", "closing", "revoked"}
  /\ os \in BOOLEAN /\ orphan \in BOOLEAN
  /\ command \in Commands
  /\ wanted \in BOOLEAN /\ misread \in BOOLEAN

\* A service that runs has the target that was set last, through crashes,
\* restarts, updates and lost answers, and a service that was booted or stopped
\* has none, until it is given one.  What a start misreads counts until then.
TargetHolds == Runs /\ ~misread => active = wanted

\* The service reverts the OS alone: the loop is inside a call at that time
\* only if the OS could not be revoked in time.
RevertIsAlone == service = "reverting" /\ call.at = "inside" => lock = "open"

\* Once the OS is revoked only the service's own revert changes it.
RevokedIsKept == [][lock = "revoked" /\ os' # os => service' = "off"]_vars

\* Who gives a command hears of its end, however often the service dies.
EveryCommandEnds ==
  command.at \notin {"none", "done", "failed"} ~> command.at \in {"none", "done", "failed"}
=============================================================================
