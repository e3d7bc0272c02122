------------------------ MODULE SealedService_proofs ------------------------
(***************************************************************************)
(* Proofs about the service and its sealing key: the target is held        *)
(* through crashes and restarts, the OS is left alone once it is revoked,  *)
(* and a sealed secret can be unsealed.                                    *)
(***************************************************************************)
EXTENDS SealedService, TLAPS

\* What a start makes of the saved target.  A marker, or a cause other than a
\* boot, resumes it, so that it must be the one that was set last; without
\* them nothing has been set yet.
RestartIsTold ==
  IF windows
  THEN /\ cause # "boot" /\ ~misread => saved = wanted
       /\ cause = "boot" => ~wanted
  ELSE /\ marker /\ ~misread => saved = wanted
       /\ ~marker => ~wanted

\* The target of a process is saved, and is the one that was set last unless a
\* start was misread; what has no process can be told from its next start.
TargetIsKept ==
  /\ Runs => saved = active /\ (~windows => marker) /\ cause = "none"
  /\ TargetHolds
  /\ ~Runs => RestartIsTold
  /\ service = "starting" => cause # "none"
  /\ command.at = "running" => Runs

\* The lock of RevocableOs belongs to the phase of the shutdown.
LockFitsShutdown ==
  /\ ~Runs => call = NoCall /\ lock = "open"
  /\ lock = "closing" <=> service = "revoking"
  /\ lock = "revoked" => service = "reverting" /\ call.at # "inside"
  /\ RevertIsAlone

ServiceInv == TypeOK /\ TargetIsKept /\ LockFitsShutdown

KeyTypeOK ==
  /\ boot \in BootStates
  /\ key \in BootStates \cup {None}
  /\ blob \in Sealing!Blobs \cup {None}
  /\ store \in {"closed", "sealed", "other"}
  /\ unsealed \in BOOLEAN /\ trouble \in BOOLEAN

\* A store seals with a key of this boot state, and a secret whose store had no
\* trouble is still sealed by a key that unseals it.
KeyInv ==
  /\ KeyTypeOK
  /\ windows /\ store = "sealed" => key = boot
  /\ ~trouble /\ blob # None => (windows => blob.live /\ key = blob.boot)
  /\ ~trouble /\ blob # None /\ store # "closed" => store = "sealed" /\ blob.boot = boot
  /\ Runs => store # "closed"
  /\ SealedKeysReturn

IInv == ServiceInv /\ KeyInv

USE MaxRetriesAssumption, NoneIsNoBootState

-----------------------------------------------------------------------------
(* The service                                                             *)

LEMMA ServiceInit == Init => ServiceInv
<1> SUFFICES ASSUME Init PROVE ServiceInv
  OBVIOUS
<1> USE DEF Init, Runs
<1>1. TypeOK
  <2>1. NoCall \in Calls
    BY DEF NoCall, Calls
  <2>2. NoCommand \in Commands
    BY DEF NoCommand, Commands
  <2>3. windows \in BOOLEAN /\ marker \in BOOLEAN
    OBVIOUS
  <2>4. saved \in BOOLEAN /\ active \in BOOLEAN
    OBVIOUS
  <2>5. os \in BOOLEAN /\ orphan \in BOOLEAN
    OBVIOUS
  <2>6. wanted \in BOOLEAN /\ misread \in BOOLEAN
    OBVIOUS
  <2> QED
    BY <2>1, <2>2, <2>3, <2>4, <2>5, <2>6 DEF TypeOK
<1>2. TargetIsKept
  BY DEF TargetIsKept, TargetHolds, RestartIsTold, NoCommand
<1>3. LockFitsShutdown
  BY DEF LockFitsShutdown, RevertIsAlone
<1> QED
  BY <1>1, <1>2, <1>3 DEF ServiceInv

\* What several actions do to the command, the call and the target.
LEMMA Shapes ==
  ASSUME TypeOK
  PROVE  /\ NoCall \in Calls /\ NoCommand \in Commands
         /\ ConnectionBreaks => command' \in Commands /\ command'.at # "running"
         /\ \A at \in {"idle", "sent", "running", "executed", "done", "broken",
                       "asleep", "failed"} :
              Moves(at) => command' \in Commands /\ command'.at = at
         /\ TryAgain => command' \in Commands /\ command'.at \in {"asleep", "failed"}
         /\ \A value \in BOOLEAN : SetTarget(value) =>
              /\ active' = value /\ saved' = value /\ wanted' = value /\ ~misread'
              /\ active' \in BOOLEAN /\ saved' \in BOOLEAN
              /\ wanted' \in BOOLEAN /\ misread' \in BOOLEAN
<1>1. NoCall \in Calls /\ NoCommand \in Commands
  BY DEF NoCall, NoCommand, Calls, Commands
<1>2. ConnectionBreaks => command' \in Commands /\ command'.at # "running"
  BY DEF ConnectionBreaks, TypeOK, Commands
<1>3. \A at \in {"idle", "sent", "running", "executed", "done", "broken",
                 "asleep", "failed"} :
        Moves(at) => command' \in Commands /\ command'.at = at
  BY DEF Moves, TypeOK, Commands
<1>4. TryAgain => command' \in Commands /\ command'.at \in {"asleep", "failed"}
  <2>1. command \in Commands /\ command.retries \in Nat
    BY DEF TypeOK, Commands
  <2>2. CASE command.retries > 0
    <3>1. command.retries - 1 \in 0..MaxRetries
      BY <2>1, <2>2 DEF Commands
    <3> QED
      BY <2>1, <2>2, <3>1 DEF TryAgain, Commands
  <2>3. CASE ~(command.retries > 0)
    BY <2>1, <2>3 DEF TryAgain, Moves, Commands
  <2> QED
    BY <2>2, <2>3
<1>5. \A value \in BOOLEAN : SetTarget(value) =>
        /\ active' = value /\ saved' = value /\ wanted' = value /\ ~misread'
        /\ active' \in BOOLEAN /\ saved' \in BOOLEAN
        /\ wanted' \in BOOLEAN /\ misread' \in BOOLEAN
  BY Zenon DEF SetTarget
<1> QED
  BY <1>1, <1>2, <1>3, <1>4, <1>5

LEMMA ServiceStep == ServiceInv /\ [Next]_vars => ServiceInv'
<1> SUFFICES ASSUME ServiceInv, [Next]_vars PROVE ServiceInv'
  OBVIOUS
<1> USE DEF lifeVars, osVars, targetVars, clientVars
<1>0. TypeOK /\ TargetIsKept /\ LockFitsShutdown
  BY DEF ServiceInv
<1>1. CASE Begin
  <2>1. TypeOK'
    BY <1>0, <1>1 DEF TypeOK, Begin
  <2>2. TargetIsKept'
    BY <1>0, <1>1 DEF TypeOK, TargetIsKept, TargetHolds, RestartIsTold, Runs, Begin
  <2>3. LockFitsShutdown'
    BY <1>0, <1>1 DEF TypeOK, LockFitsShutdown, RevertIsAlone, Runs, Begin
  <2> QED
    BY <2>1, <2>2, <2>3 DEF ServiceInv
<1>2. CASE Starts
  <2>1. TypeOK'
    BY <1>0, <1>2 DEF TypeOK, Starts, Reasons, IsRestart
  <2>2. TargetIsKept'
    BY <1>0, <1>2 DEF TypeOK, TargetIsKept, TargetHolds, RestartIsTold, Runs, Starts, Reasons, IsRestart
  <2>3. LockFitsShutdown'
    BY <1>0, <1>2 DEF TypeOK, LockFitsShutdown, RevertIsAlone, Runs, Starts, Reasons, IsRestart
  <2> QED
    BY <2>1, <2>2, <2>3 DEF ServiceInv
<1>3. CASE StartFails
  <2>1. TypeOK'
    <3>1. command' \in Commands /\ UNCHANGED <<windows, osVars, targetVars>>
      BY <1>0, <1>3, Shapes DEF StartFails
    <3>2. marker' \in BOOLEAN /\ misread' \in BOOLEAN /\ orphan' \in BOOLEAN
      BY <1>0, <1>3 DEF TypeOK, StartFails, ConnectionBreaks
    <3>3. service' = "off" /\ cause' = "failure"
      BY <1>3 DEF StartFails
    <3> QED
      BY <1>0, <3>1, <3>2, <3>3 DEF TypeOK
  <2>2. TargetIsKept'
    BY <1>0, <1>3 DEF TypeOK, TargetIsKept, TargetHolds, RestartIsTold, Runs, StartFails, ConnectionBreaks
  <2>3. LockFitsShutdown'
    BY <1>0, <1>3 DEF TypeOK, LockFitsShutdown, RevertIsAlone, Runs, StartFails, ConnectionBreaks
  <2> QED
    BY <2>1, <2>2, <2>3 DEF ServiceInv
<1>4. CASE CallRequested
  <2>1. TypeOK'
    BY <1>0, <1>4 DEF TypeOK, CallRequested, Calls
  <2>2. TargetIsKept'
    BY <1>0, <1>4 DEF TypeOK, TargetIsKept, TargetHolds, RestartIsTold, Runs, CallRequested
  <2>3. LockFitsShutdown'
    BY <1>0, <1>4 DEF TypeOK, LockFitsShutdown, RevertIsAlone, Runs, CallRequested
  <2> QED
    BY <2>1, <2>2, <2>3 DEF ServiceInv
<1>5. CASE CallBegins
  <2>1. TypeOK'
    BY <1>0, <1>5 DEF TypeOK, CallBegins, Calls
  <2>2. TargetIsKept'
    BY <1>0, <1>5 DEF TypeOK, TargetIsKept, TargetHolds, RestartIsTold, Runs, CallBegins
  <2>3. LockFitsShutdown'
    BY <1>0, <1>5 DEF TypeOK, LockFitsShutdown, RevertIsAlone, Runs, CallBegins
  <2> QED
    BY <2>1, <2>2, <2>3 DEF ServiceInv
<1>6. CASE CallEnds
  <2>1. TypeOK'
    <3>1. call' \in Calls
      BY <1>0, <1>6, Shapes DEF CallEnds
    <3>2. os' \in BOOLEAN
      BY <1>0, <1>6 DEF TypeOK, CallEnds
    <3>3. UNCHANGED <<lifeVars, targetVars, clientVars, misread, lock>>
      BY <1>6 DEF CallEnds
    <3> QED
      BY <1>0, <3>1, <3>2, <3>3 DEF TypeOK
  <2>2. TargetIsKept'
    BY <1>0, <1>6 DEF TypeOK, TargetIsKept, TargetHolds, RestartIsTold, Runs, CallEnds, NoCall
  <2>3. LockFitsShutdown'
    BY <1>0, <1>6 DEF TypeOK, LockFitsShutdown, RevertIsAlone, Runs, CallEnds, NoCall
  <2> QED
    BY <2>1, <2>2, <2>3 DEF ServiceInv
<1>7. CASE ShutdownRequested
  <2>1. TypeOK'
    BY <1>0, <1>7 DEF TypeOK, ShutdownRequested
  <2>2. TargetIsKept'
    BY <1>0, <1>7 DEF TypeOK, TargetIsKept, TargetHolds, RestartIsTold, Runs, ShutdownRequested
  <2>3. LockFitsShutdown'
    BY <1>0, <1>7 DEF TypeOK, LockFitsShutdown, RevertIsAlone, Runs, ShutdownRequested
  <2> QED
    BY <2>1, <2>2, <2>3 DEF ServiceInv
<1>8. CASE Revoked
  <2>1. TypeOK'
    BY <1>0, <1>8 DEF TypeOK, Revoked, MayRevoke
  <2>2. TargetIsKept'
    BY <1>0, <1>8 DEF TypeOK, TargetIsKept, TargetHolds, RestartIsTold, Runs, Revoked, MayRevoke
  <2>3. LockFitsShutdown'
    BY <1>0, <1>8 DEF TypeOK, LockFitsShutdown, RevertIsAlone, Runs, Revoked, MayRevoke
  <2> QED
    BY <2>1, <2>2, <2>3 DEF ServiceInv
<1>9. CASE RevokeTimesOut
  <2>1. TypeOK'
    BY <1>0, <1>9 DEF TypeOK, RevokeTimesOut
  <2>2. TargetIsKept'
    BY <1>0, <1>9 DEF TypeOK, TargetIsKept, TargetHolds, RestartIsTold, Runs, RevokeTimesOut
  <2>3. LockFitsShutdown'
    BY <1>0, <1>9 DEF TypeOK, LockFitsShutdown, RevertIsAlone, Runs, RevokeTimesOut
  <2> QED
    BY <2>1, <2>2, <2>3 DEF ServiceInv
<1>10. CASE Reverted
  <2>1. TypeOK'
    <3>1. call' \in Calls /\ command' \in Commands
      BY <1>0, <1>10, Shapes DEF Reverted, Ends
    <3>2. os' \in BOOLEAN
      BY <1>0, <1>10 DEF TypeOK, Reverted, Ends
    <3>3. marker' \in BOOLEAN /\ wanted' \in BOOLEAN /\ misread' \in BOOLEAN
      BY <1>0, <1>10 DEF TypeOK, Reverted
    <3>4. /\ service' = "off" /\ cause' \in {"boot", "demand", "failure", "none"}
          /\ active' \in BOOLEAN /\ lock' = "open" /\ orphan' \in BOOLEAN
          /\ UNCHANGED <<windows, saved>>
      BY <1>10 DEF Reverted, Ends, ConnectionBreaks
    <3> QED
      BY <1>0, <3>1, <3>2, <3>3, <3>4 DEF TypeOK
  <2>2. TargetIsKept'
    BY <1>0, <1>10 DEF TypeOK, TargetIsKept, TargetHolds, RestartIsTold, Runs, Reverted, Ends, ConnectionBreaks, NoCall
  <2>3. LockFitsShutdown'
    BY <1>0, <1>10 DEF TypeOK, LockFitsShutdown, RevertIsAlone, Runs, Reverted, Ends, ConnectionBreaks, NoCall
  <2> QED
    BY <2>1, <2>2, <2>3 DEF ServiceInv
<1>11. CASE Crash
  <2>1. TypeOK'
    <3>1. call' \in Calls /\ command' \in Commands
      BY <1>0, <1>11, Shapes DEF Crash, Dies, Ends
    <3>2. os' \in BOOLEAN
      BY <1>0, <1>11 DEF TypeOK, Crash, Dies, Ends
    <3>3. marker' \in BOOLEAN /\ wanted' \in BOOLEAN /\ misread' \in BOOLEAN
      BY <1>0, <1>11 DEF TypeOK, Crash
    <3>4. /\ service' = "off" /\ cause' \in {"boot", "demand", "failure", "none"}
          /\ active' \in BOOLEAN /\ lock' = "open" /\ orphan' \in BOOLEAN
          /\ UNCHANGED <<windows, saved>>
      BY <1>11 DEF Crash, Dies, Ends, ConnectionBreaks
    <3> QED
      BY <1>0, <3>1, <3>2, <3>3, <3>4 DEF TypeOK
  <2>2. TargetIsKept'
    BY <1>0, <1>11 DEF TypeOK, TargetIsKept, TargetHolds, RestartIsTold, Runs, Crash, Dies, Ends, ConnectionBreaks, NoCall
  <2>3. LockFitsShutdown'
    BY <1>0, <1>11 DEF TypeOK, LockFitsShutdown, RevertIsAlone, Runs, Crash, Dies, Ends, ConnectionBreaks, NoCall
  <2> QED
    BY <2>1, <2>2, <2>3 DEF ServiceInv
<1>12. CASE Stop
  <2>1. TypeOK'
    <3>1. call' \in Calls /\ command' \in Commands
      BY <1>0, <1>12, Shapes DEF Stop, Dies, Ends
    <3>2. os' \in BOOLEAN
      BY <1>0, <1>12 DEF TypeOK, Stop, Dies, Ends
    <3>3. marker' \in BOOLEAN /\ wanted' \in BOOLEAN /\ misread' \in BOOLEAN
      BY <1>0, <1>12 DEF TypeOK, Stop
    <3>4. /\ service' = "off" /\ cause' \in {"boot", "demand", "failure", "none"}
          /\ active' \in BOOLEAN /\ lock' = "open" /\ orphan' \in BOOLEAN
          /\ UNCHANGED <<windows, saved>>
      BY <1>12 DEF Stop, Dies, Ends, ConnectionBreaks
    <3> QED
      BY <1>0, <3>1, <3>2, <3>3, <3>4 DEF TypeOK
  <2>2. TargetIsKept'
    BY <1>0, <1>12 DEF TypeOK, TargetIsKept, TargetHolds, RestartIsTold, Runs, Stop, Dies, Ends, ConnectionBreaks, NoCall
  <2>3. LockFitsShutdown'
    BY <1>0, <1>12 DEF TypeOK, LockFitsShutdown, RevertIsAlone, Runs, Stop, Dies, Ends, ConnectionBreaks, NoCall
  <2> QED
    BY <2>1, <2>2, <2>3 DEF ServiceInv
<1>13. CASE StartRequested
  <2>1. TypeOK'
    BY <1>0, <1>13 DEF TypeOK, StartRequested
  <2>2. TargetIsKept'
    BY <1>0, <1>13 DEF TypeOK, TargetIsKept, TargetHolds, RestartIsTold, Runs, StartRequested
  <2>3. LockFitsShutdown'
    BY <1>0, <1>13 DEF TypeOK, LockFitsShutdown, RevertIsAlone, Runs, StartRequested
  <2> QED
    BY <2>1, <2>2, <2>3 DEF ServiceInv
<1>14. CASE Reboot
  <2>1. TypeOK'
    BY <1>0, <1>14, Shapes DEF TypeOK, Reboot
  <2>2. TargetIsKept'
    BY <1>0, <1>14 DEF TypeOK, TargetIsKept, TargetHolds, RestartIsTold, Runs, Reboot, NoCall, NoCommand
  <2>3. LockFitsShutdown'
    BY <1>0, <1>14 DEF TypeOK, LockFitsShutdown, RevertIsAlone, Runs, Reboot, NoCall, NoCommand
  <2> QED
    BY <2>1, <2>2, <2>3 DEF ServiceInv
<1>15. CASE OthersSetTarget
  <2>1. TypeOK'
    BY <1>0, <1>15, Shapes DEF TypeOK, OthersSetTarget
  <2>2. TargetIsKept'
    BY <1>0, <1>15 DEF TypeOK, TargetIsKept, TargetHolds, RestartIsTold, Runs, OthersSetTarget, SetTarget
  <2>3. LockFitsShutdown'
    BY <1>0, <1>15 DEF TypeOK, LockFitsShutdown, RevertIsAlone, Runs, OthersSetTarget, SetTarget
  <2> QED
    BY <2>1, <2>2, <2>3 DEF ServiceInv
<1>16. CASE Give
  <2>1. TypeOK'
    BY <1>0, <1>16 DEF TypeOK, Give, Commands
  <2>2. TargetIsKept'
    BY <1>0, <1>16 DEF TypeOK, TargetIsKept, TargetHolds, RestartIsTold, Runs, Give
  <2>3. LockFitsShutdown'
    BY <1>0, <1>16 DEF TypeOK, LockFitsShutdown, RevertIsAlone, Runs, Give
  <2> QED
    BY <2>1, <2>2, <2>3 DEF ServiceInv
<1>17. CASE Connects
  <2>1. TypeOK'
    BY <1>0, <1>17, Shapes DEF TypeOK, Connects
  <2>2. TargetIsKept'
    BY <1>0, <1>17, Shapes DEF TypeOK, TargetIsKept, TargetHolds, RestartIsTold, Runs, Connects
  <2>3. LockFitsShutdown'
    BY <1>0, <1>17 DEF TypeOK, LockFitsShutdown, RevertIsAlone, Runs, Connects, Moves
  <2> QED
    BY <2>1, <2>2, <2>3 DEF ServiceInv
<1>18. CASE Refused
  <2>1. TypeOK'
    BY <1>0, <1>18, Shapes DEF TypeOK, Refused
  <2>2. TargetIsKept'
    BY <1>0, <1>18, Shapes DEF TypeOK, TargetIsKept, TargetHolds, RestartIsTold, Runs, Refused
  <2>3. LockFitsShutdown'
    BY <1>0, <1>18 DEF TypeOK, LockFitsShutdown, RevertIsAlone, Runs, Refused, Moves
  <2> QED
    BY <2>1, <2>2, <2>3 DEF ServiceInv
<1>19. CASE Taken
  <2>1. TypeOK'
    BY <1>0, <1>19, Shapes DEF TypeOK, Taken
  <2>2. TargetIsKept'
    BY <1>0, <1>19, Shapes DEF TypeOK, TargetIsKept, TargetHolds, RestartIsTold, Runs, Taken
  <2>3. LockFitsShutdown'
    BY <1>0, <1>19 DEF TypeOK, LockFitsShutdown, RevertIsAlone, Runs, Taken, Moves
  <2> QED
    BY <2>1, <2>2, <2>3 DEF ServiceInv
<1>20. CASE Execute
  <2>1. TypeOK'
    <3>1. command' \in Commands
      BY <1>0, <1>20, Shapes DEF Execute
    <3>2. /\ active' \in BOOLEAN /\ saved' \in BOOLEAN
          /\ wanted' \in BOOLEAN /\ misread' \in BOOLEAN
      <4> DEFINE value == command.kind \in {"start", "connect"}
      <4>1. value \in BOOLEAN /\ SetTarget(value)
        BY <1>20 DEF Execute
      <4> HIDE DEF value
      <4> QED
        BY <1>0, <4>1, Shapes
    <3>3. UNCHANGED <<lifeVars, osVars, orphan>>
      BY <1>20 DEF Execute
    <3> QED
      BY <1>0, <3>1, <3>2, <3>3 DEF TypeOK
  <2>2. TargetIsKept'
    BY <1>0, <1>20, Shapes DEF TypeOK, TargetIsKept, TargetHolds, RestartIsTold, Runs, Execute, SetTarget
  <2>3. LockFitsShutdown'
    BY <1>0, <1>20 DEF TypeOK, LockFitsShutdown, RevertIsAlone, Runs, Execute, SetTarget, Moves
  <2> QED
    BY <2>1, <2>2, <2>3 DEF ServiceInv
<1>21. CASE Answered
  <2>1. TypeOK'
    BY <1>0, <1>21, Shapes DEF TypeOK, Answered
  <2>2. TargetIsKept'
    BY <1>0, <1>21, Shapes DEF TypeOK, TargetIsKept, TargetHolds, RestartIsTold, Runs, Answered
  <2>3. LockFitsShutdown'
    BY <1>0, <1>21 DEF TypeOK, LockFitsShutdown, RevertIsAlone, Runs, Answered, Moves
  <2> QED
    BY <2>1, <2>2, <2>3 DEF ServiceInv
<1>22. CASE GivesUp
  <2>1. TypeOK'
    BY <1>0, <1>22, Shapes DEF TypeOK, GivesUp
  <2>2. TargetIsKept'
    BY <1>0, <1>22, Shapes DEF TypeOK, TargetIsKept, TargetHolds, RestartIsTold, Runs, GivesUp
  <2>3. LockFitsShutdown'
    BY <1>0, <1>22 DEF TypeOK, LockFitsShutdown, RevertIsAlone, Runs, GivesUp, Moves
  <2> QED
    BY <2>1, <2>2, <2>3 DEF ServiceInv
<1>23. CASE OrphanExecuted
  <2>1. TypeOK'
    BY <1>0, <1>23, Shapes DEF TypeOK, OrphanExecuted
  <2>2. TargetIsKept'
    BY <1>0, <1>23 DEF TypeOK, TargetIsKept, TargetHolds, RestartIsTold, Runs, OrphanExecuted, SetTarget
  <2>3. LockFitsShutdown'
    BY <1>0, <1>23 DEF TypeOK, LockFitsShutdown, RevertIsAlone, Runs, OrphanExecuted, SetTarget
  <2> QED
    BY <2>1, <2>2, <2>3 DEF ServiceInv
<1>24. CASE AttemptFails
  <2>1. TypeOK'
    BY <1>0, <1>24, Shapes DEF TypeOK, AttemptFails
  <2>2. TargetIsKept'
    BY <1>0, <1>24, Shapes DEF TypeOK, TargetIsKept, TargetHolds, RestartIsTold, Runs, AttemptFails
  <2>3. LockFitsShutdown'
    BY <1>0, <1>24 DEF TypeOK, LockFitsShutdown, RevertIsAlone, Runs, AttemptFails, TryAgain, Moves
  <2> QED
    BY <2>1, <2>2, <2>3 DEF ServiceInv
<1>25. CASE Wakes
  <2>1. TypeOK'
    BY <1>0, <1>25, Shapes DEF TypeOK, Wakes
  <2>2. TargetIsKept'
    BY <1>0, <1>25, Shapes DEF TypeOK, TargetIsKept, TargetHolds, RestartIsTold, Runs, Wakes
  <2>3. LockFitsShutdown'
    BY <1>0, <1>25 DEF TypeOK, LockFitsShutdown, RevertIsAlone, Runs, Wakes, Moves
  <2> QED
    BY <2>1, <2>2, <2>3 DEF ServiceInv
<1>26. CASE UNCHANGED vars
  BY <1>0, <1>26 DEF vars, ServiceInv, TypeOK, TargetIsKept, TargetHolds, RestartIsTold,
    LockFitsShutdown, RevertIsAlone, Runs
<1> QED
  BY <1>1, <1>2, <1>3, <1>4, <1>5, <1>6, <1>7, <1>8, <1>9, <1>10, <1>11, <1>12, <1>13, <1>14, <1>15, <1>16, <1>17, <1>18, <1>19, <1>20, <1>21, <1>22, <1>23, <1>24, <1>25, <1>26
  DEF Next, Startup, Shutdown, Loop, Command, Environment

-----------------------------------------------------------------------------
(* The key                                                                 *)

\* A step of SealedService is one of the service, or leaves it as it is.
LEMMA ComposedStep == [SealedNext]_all => [Next]_vars
BY DEF SealedNext, StoreOpened, ManagerStarts, StartEnds, KeyPairGenerated,
  ProcessEnds, MachineReboots, WithoutKey, all, Next, Startup, Shutdown, Loop,
  Command, Environment

LEMMA KeyInit == SealedInit => KeyInv
BY DEF SealedInit, Sealing!Init, Init, KeyInv, KeyTypeOK, SealedKeysReturn, Runs

\* What a store that is opened without trouble has sealed before is still there.
LEMMA OpenedStore ==
  ASSUME KeyInv, Sealing!OpenStore
  PROVE  /\ KeyTypeOK'
         /\ windows /\ store' = "sealed" => key' = boot
         /\ ~trouble' /\ blob' # None =>
              /\ windows => blob'.live /\ key' = blob'.boot
              /\ store' = "sealed" /\ blob'.boot = boot
         /\ store' # "closed" /\ boot' = boot
<1> USE DEF KeyInv, KeyTypeOK, Sealing!OpenStore
<1>1. PICK works \in BOOLEAN :
        /\ IF windows THEN Sealing!OpenWindows(works) ELSE Sealing!OpenLinux(works)
        /\ trouble' = (trouble \/ ~works \/ (blob # None /\ blob.boot # boot))
  OBVIOUS
<1>2. trouble' \in BOOLEAN /\ (~trouble' => ~trouble /\ works)
  BY <1>1
<1>3. ~trouble' /\ blob # None => blob.boot = boot
  BY <1>1
<1>4. CASE ~windows
  <2>1. /\ store' \in {"sealed", "other"} /\ (works => store' = "sealed")
        /\ UNCHANGED <<key, blob>>
    BY <1>1, <1>4 DEF Sealing!OpenLinux
  <2> QED
    BY <1>2, <1>3, <1>4, <2>1
<1>5. CASE windows
  <2>1. Sealing!DeleteKey => /\ blob' \in Sealing!Blobs \cup {None}
                             /\ blob = None => blob' = None
    BY DEF Sealing!DeleteKey, Sealing!Blobs
  <2>2. CASE Sealing!Decrypts /\ store' = "sealed" /\ UNCHANGED <<key, blob>>
    BY <1>2, <1>3, <1>5, <2>2 DEF Sealing!Decrypts
  <2>3. CASE (~Sealing!Decrypts \/ ~works) /\ Sealing!CreateKey /\ store' = "sealed"
    <3>1. ~trouble' => blob = None
      BY <1>2, <1>3, <1>5, <2>3 DEF Sealing!Decrypts
    <3> QED
      BY <1>2, <1>5, <2>1, <2>3, <3>1 DEF Sealing!CreateKey
  <2>4. CASE /\ ~works /\ store' = "other"
             /\ \/ UNCHANGED <<key, blob>>
                \/ Sealing!DeleteKey /\ key' = None
    BY <1>2, <1>5, <2>1, <2>4
  <2> QED
    BY <1>1, <1>5, <2>2, <2>3, <2>4 DEF Sealing!OpenWindows
<1> QED
  BY <1>4, <1>5

LEMMA KeyStep == IInv /\ [SealedNext]_all => KeyInv'
<1> SUFFICES ASSUME IInv, [SealedNext]_all PROVE KeyInv'
  OBVIOUS
<1>0. TypeOK /\ KeyInv
  BY DEF IInv, ServiceInv
<1>1. CASE StoreOpened
  <2>1. ~Runs' /\ windows' = windows
    BY <1>1 DEF StoreOpened, vars, Runs
  <2> QED
    BY <1>0, <1>1, <2>1, OpenedStore DEF StoreOpened, KeyInv, SealedKeysReturn
<1>2. CASE ManagerStarts
  <2>1. PICK works \in BOOLEAN :
          /\ unsealed' = (store = "sealed" /\ Sealing!Unseals /\ works)
          /\ trouble' = (trouble \/ ~works)
    BY <1>2 DEF ManagerStarts, Sealing!Load
  <2>2. UNCHANGED <<windows, boot, key, blob, store>> /\ store # "closed"
    BY <1>2 DEF ManagerStarts, Sealing!Load
  <2>3. trouble' \in BOOLEAN /\ unsealed' \in BOOLEAN
    BY <2>1
  <2>4. ~trouble' => ~trouble /\ works
    BY <2>1
  <2>5. ~trouble' /\ blob # None => store = "sealed" /\ Sealing!Unseals
    BY <1>0, <2>2, <2>4
    DEF KeyInv, Sealing!Unseals, Sealing!UnsealsWindows, Sealing!UnsealsLinux
  <2>6. ~trouble' /\ blob # None => unsealed'
    BY <2>1, <2>4, <2>5
  <2> QED
    BY <1>0, <2>2, <2>3, <2>4, <2>6 DEF KeyInv, KeyTypeOK, SealedKeysReturn
<1>3. CASE StartEnds \/ ProcessEnds
  <2>1. Sealing!Close
    BY <1>3 DEF StartEnds, ProcessEnds
  <2>2. service' = "off"
    BY <1>3 DEF StartEnds, ProcessEnds, StartFails, Reverted, Crash, Stop, Dies, Ends
  <2>3. windows' = windows /\ ~Runs'
    BY <2>1, <2>2 DEF Sealing!Close, Runs
  <2>4. store' = "closed" /\ unsealed' \in BOOLEAN /\ UNCHANGED <<boot, key, blob, trouble>>
    BY <2>1 DEF Sealing!Close
  <2>5. KeyTypeOK'
    BY <1>0, <2>4 DEF KeyInv, KeyTypeOK
  <2> QED
    BY <1>0, <2>3, <2>4, <2>5 DEF KeyInv, SealedKeysReturn
<1>4. CASE KeyPairGenerated
  <2>1. (Runs' <=> Runs) /\ UNCHANGED <<windows, boot, key, store>>
    BY <1>4 DEF KeyPairGenerated, Sealing!NewKeyPair, vars, Runs
  <2>2. CASE Sealing!Seal
    <3>1. /\ blob' \in Sealing!Blobs /\ blob'.boot = boot /\ blob'.live
          /\ store = "sealed" /\ unsealed' = TRUE /\ trouble' = FALSE
      BY <1>0, <2>2
      DEF Sealing!Seal, Sealing!SealedObject, Sealing!Blobs, KeyInv, KeyTypeOK
    <3> QED
      BY <1>0, <2>1, <3>1 DEF KeyInv, KeyTypeOK, SealedKeysReturn
  <2>3. CASE Sealing!NotSealed
    BY <1>0, <2>1, <2>3 DEF Sealing!NotSealed, KeyInv, KeyTypeOK, SealedKeysReturn
  <2> QED
    BY <1>4, <2>2, <2>3 DEF KeyPairGenerated, Sealing!NewKeyPair
<1>5. CASE MachineReboots
  <2>1. Sealing!Reboot /\ ~Runs'
    BY <1>5 DEF MachineReboots, Reboot, Runs
  <2> QED
    BY <1>0, <2>1 DEF Sealing!Reboot, KeyInv, KeyTypeOK, SealedKeysReturn
<1>6. CASE WithoutKey \/ UNCHANGED all
  <2>1. UNCHANGED keyVars
    BY <1>6 DEF WithoutKey, all
  <2>2. windows' = windows /\ (Runs' <=> Runs)
    BY <1>6 DEF WithoutKey, all, vars, Runs, lifeVars, Begin, Revoked, RevokeTimesOut,
      Loop, CallRequested, CallBegins, CallEnds, Command, Connects, Refused, Taken,
      Execute, Answered, AttemptFails, Wakes, ShutdownRequested, StartRequested,
      OthersSetTarget, Give, GivesUp, OrphanExecuted
  <2> QED
    BY <1>0, <2>1, <2>2 DEF keyVars, KeyInv, KeyTypeOK, SealedKeysReturn
<1> QED
  BY <1>1, <1>2, <1>3, <1>4, <1>5, <1>6 DEF SealedNext

-----------------------------------------------------------------------------
(* Theorems                                                                *)

\* The service together with its sealing key behaves as the service alone
\* promises: opening and loading keys only adds waiting.
THEOREM KeysLeaveServiceAsItIs == SealedSpec => Spec
<1>1. SealedInit => Init
  BY DEF SealedInit
<1> QED
  BY <1>1, ComposedStep, PTL DEF SealedSpec, Spec

LEMMA ServiceInvariance == Spec => []ServiceInv
BY ServiceInit, ServiceStep, PTL DEF Spec

LEMMA Invariance == SealedSpec => []IInv
<1>1. SealedInit => IInv
  BY ServiceInit, KeyInit DEF SealedInit, IInv
<1>2. IInv /\ [SealedNext]_all => IInv'
  BY ServiceStep, ComposedStep, KeyStep DEF IInv
<1> QED
  BY <1>1, <1>2, PTL DEF SealedSpec

\* The variables of the service keep their shape, for any number of retries.
THEOREM ServiceTypeCorrect == Spec => []TypeOK
<1>1. ServiceInv => TypeOK
  BY DEF ServiceInv
<1> QED
  BY <1>1, ServiceInvariance, PTL

\* A service that runs has the target that was set last, whatever restarts,
\* crashes and lost answers came in between (detect_restart and the marker).
THEOREM TargetIsHeld == Spec => []TargetHolds
<1>1. ServiceInv => TargetHolds
  BY DEF ServiceInv, TargetIsKept
<1> QED
  BY <1>1, ServiceInvariance, PTL

\* The final unset of service::run does not overlap with a call of the tunnel
\* loop, unless revoking timed out.
THEOREM RevertAlone == Spec => []RevertIsAlone
<1>1. ServiceInv => RevertIsAlone
  BY DEF ServiceInv, LockFitsShutdown
<1> QED
  BY <1>1, ServiceInvariance, PTL

\* Once RevocableOs is revoked, the tunnel loop changes nothing of the OS.
THEOREM RevokedStaysReverted == Spec => RevokedIsKept
<1>1. ServiceInv /\ [Next]_vars => [lock = "revoked" /\ os' # os => service' = "off"]_vars
  <2> SUFFICES ASSUME ServiceInv, Next, lock = "revoked", os' # os
               PROVE  service' = "off"
    BY DEF vars
  <2>1. call.at # "inside"
    BY DEF ServiceInv, LockFitsShutdown
  <2> QED
    BY <2>1 DEF Next, Begin, Startup, Starts, StartFails, Shutdown, Revoked,
      RevokeTimesOut, Reverted, Loop, CallRequested, CallBegins, CallEnds, Command,
      Connects, Refused, Taken, Execute, Answered, AttemptFails, Wakes, Environment,
      ShutdownRequested, Crash, Stop, Dies, Ends, StartRequested, Reboot,
      OthersSetTarget, Give, GivesUp, OrphanExecuted, osVars
<1> QED
  BY <1>1, ServiceInvariance, PTL DEF Spec, RevokedIsKept

\* A sealed secret can be unsealed by every process that starts, unless the TPM
\* failed or Secure Boot was changed since (WindowsSealingKey::open and its
\* replacement of stale keys, LinuxSealingKey).
THEOREM SealedKeysAreUnsealed == SealedSpec => []SealedKeysReturn
<1>1. IInv => SealedKeysReturn
  BY DEF IInv, KeyInv
<1> QED
  BY <1>1, Invariance, PTL
=============================================================================
