----------------------------- MODULE RelayRace -----------------------------
(***************************************************************************)
(* The choice of a relay: ClientStateHandle::select_relay (client_state.rs)*)
(* and RelayHandshakeRace (relay_selection.rs).                            *)
(*                                                                         *)
(* One task per relay and port connects, measures the round trip time and  *)
(* hands its handshake over; select_relay keeps the fastest and has the    *)
(* others stopped.  Time is counted in ticks from the start of the race;   *)
(* what is due is done before time passes.                                 *)
(***************************************************************************)
EXTENDS Naturals, FiniteSets, FiniteSetsExt

CONSTANTS
  Attempts,        \* the relays and ports raced, a set of pairs
  RoundTrips,      \* what measure_rtt may return
  FirstDeadline,   \* 30 s
  Cap,             \* 5 s
  Enough,          \* 5 relays
  NoAttempt        \* no candidate yet

ASSUME TimesAssumption ==
  /\ RoundTrips \subseteq Nat \ {0} /\ {FirstDeadline, Cap, Enough} \subseteq Nat \ {0}
  /\ Cap <= FirstDeadline
ASSUME AttemptsAssumption == IsFiniteSet(Attempts) /\ NoAttempt \notin Attempts

VARIABLES
  now,         \* ticks since start
  task,        \* what became of each attempt
  rtt,         \* its round trip time, 0 before it is measured
  best,        \* best_candidate
  deadline,
  connected,   \* relays_connected_successfully
  stage,       \* of select_relay
  taken,       \* attempts whose success select_relay has seen
  bestAt       \* when it took the best of them

vars == <<now, task, rtt, best, deadline, connected, stage, taken, bestAt>>

\* A task is "running"; "ready" with a handshake nobody has taken, or "over".
\* A handshake is "held" by select_relay or its caller, or "stopping":
\* abandon tells the relay and waits for its confirmation.  It ends "over"
\* after that, "left" when the wait is given up, and "dropped" where it is let go
\* of and the relay need not have been told.
TaskStates == {"running", "ready", "held", "stopping", "over", "left", "dropped"}

In(state) == {a \in Attempts : task[a] = state}

\* The stages: the loop, abandon before an error, and the results.
Racing == stage = "racing"
Stages == {"racing", "abandoning", "selected", "failed", "cancelled"}

Init ==
  /\ now = 0
  /\ task = [a \in Attempts |-> "running"]
  /\ rtt = [a \in Attempts |-> 0]
  /\ best = NoAttempt /\ deadline = FirstDeadline /\ connected = {}
  /\ stage = "racing" /\ taken = {} /\ bestAt = 0

-----------------------------------------------------------------------------
(* The tasks                                                               *)

\* start_quic or start_tcp_tls, then three pings, of which the fastest counts.
\* An abort takes effect where a task waits: one that is done is not aborted.
Succeeds(a) ==
  /\ task[a] = "running"
  /\ \E r \in RoundTrips :
       /\ 3 * r <= now
       /\ rtt' = [rtt EXCEPT ![a] = r]
  /\ task' = [task EXCEPT ![a] = "ready"]
  /\ UNCHANGED <<now, best, deadline, connected, stage, taken, bestAt>>

\* An error or the timeout of a step; next skips it with a warning.
Fails(a) ==
  /\ task[a] = "running"
  /\ task' = [task EXCEPT ![a] = "over"]
  /\ UNCHANGED <<now, rtt, best, deadline, connected, stage, taken, bestAt>>

-----------------------------------------------------------------------------
(* The loop of select_relay                                                *)

\* Operators whose name begins with "Bad" are faulty variants of the operator
\* that follows them; only the sensitivity checks of PROJECT.json use them.

\* Slower ones replace the candidate too.
BadRejects(a) == FALSE

\* As long as nothing is known to be better, the later one of equals is taken.
Rejects(a) == best # NoAttempt /\ rtt[best] < rtt[a]

\* The candidate that is replaced is let go of without a word.
BadLoser(a) == {a} \cap {b \in Attempts : Rejects(b)}

\* The handshake that is not kept.
Loser(a) == IF Rejects(a) THEN {a} ELSE {best} \ {NoAttempt}

\* Counted from now.
BadNewDeadline(a) == IF Rejects(a) THEN deadline ELSE now + Min({3 * now, Cap})

\* Three times what the best candidate took, but no longer than Cap.
NewDeadline(a) == IF Rejects(a) THEN deadline ELSE Min({3 * now, Cap})

Take(a) ==
  /\ Racing /\ task[a] = "ready"
  /\ task' = [b \in Attempts |->
                IF b \in Loser(a) THEN "stopping" ELSE IF b = a THEN "held" ELSE task[b]]
  /\ best' = IF Rejects(a) THEN best ELSE a
  /\ bestAt' = IF Rejects(a) THEN bestAt ELSE now
  /\ deadline' = NewDeadline(a)
  /\ connected' = connected \cup {a[1]}
  /\ taken' = taken \cup {a}
  /\ stage' = IF Cardinality(connected') >= Enough THEN "selected" ELSE "racing"
  /\ UNCHANGED <<now, rtt>>

\* With a candidate the rest of the race is abandoned in the background.
StopsRacing ==
  /\ stage' = IF best = NoAttempt THEN "abandoning" ELSE "selected"
  /\ UNCHANGED <<now, task, rtt, best, deadline, connected, taken, bestAt>>

AllFinished == Racing /\ In("running") \cup In("ready") = {} /\ StopsRacing

\* timeout_at looks at the tasks first.
DeadlineReached == Racing /\ In("ready") = {} /\ now >= deadline /\ StopsRacing

-----------------------------------------------------------------------------
(* RelayHandshakeRace::abandon, and what is let go of                      *)

Abandoning == stage \in {"abandoning", "selected"}

AbortTakesEffect(a) ==
  /\ task[a] = "running" /\ (Abandoning \/ stage = "cancelled")
  /\ task' = [task EXCEPT ![a] = "over"]
  /\ UNCHANGED <<now, rtt, best, deadline, connected, stage, taken, bestAt>>

\* Its output is taken for that of an aborted one.
BadStopReady(a) ==
  /\ task[a] = "ready" /\ Abandoning
  /\ task' = [task EXCEPT ![a] = "dropped"]
  /\ UNCHANGED <<now, rtt, best, deadline, connected, stage, taken, bestAt>>

\* A task that was done before it was aborted.
StopReady(a) ==
  /\ task[a] = "ready" /\ Abandoning
  /\ task' = [task EXCEPT ![a] = "stopping"]
  /\ UNCHANGED <<now, rtt, best, deadline, connected, stage, taken, bestAt>>

\* Confirmed, failed or timed out.
Stopped(a) ==
  /\ task[a] = "stopping"
  /\ task' = [task EXCEPT ![a] = "over"]
  /\ UNCHANGED <<now, rtt, best, deadline, connected, stage, taken, bestAt>>

\* ABANDON_GRACE_PERIOD is over: abandon leaves those it was stopping.
GraceEnds ==
  /\ Abandoning /\ In("running") \cup In("ready") = {}
  /\ task' = [a \in Attempts |->
                IF task[a] = "stopping" /\ a \notin taken THEN "left" ELSE task[a]]
  /\ task' # task
  /\ UNCHANGED <<now, rtt, best, deadline, connected, stage, taken, bestAt>>

NoSuccess ==
  /\ stage = "abandoning" /\ In("running") \cup In("ready") \cup In("stopping") = {}
  /\ stage' = "failed"
  /\ UNCHANGED <<now, task, rtt, best, deadline, connected, taken, bestAt>>

\* The target has changed: poll_until_change drops select_relay, and with it the
\* race and the candidate.  What was spawned to stop the others goes on.
Cancel ==
  /\ Racing \/ stage = "abandoning"
  /\ stage' = "cancelled"
  /\ task' = [a \in Attempts |->
                IF task[a] \in {"ready", "held"} \/ (task[a] = "stopping" /\ a \notin taken)
                THEN "dropped" ELSE task[a]]
  /\ UNCHANGED <<now, rtt, best, deadline, connected, taken, bestAt>>

\* The output of a task that is done before its abort takes effect.
DropReady(a) ==
  /\ task[a] = "ready" /\ stage = "cancelled"
  /\ task' = [task EXCEPT ![a] = "dropped"]
  /\ UNCHANGED <<now, rtt, best, deadline, connected, stage, taken, bestAt>>

Tick ==
  /\ Racing /\ In("ready") = {} /\ now < deadline /\ In("running") # {}
  /\ now' = now + 1
  /\ UNCHANGED <<task, rtt, best, deadline, connected, stage, taken, bestAt>>

\* The caller goes on with the chosen handshake, or with the error.
Ended ==
  /\ stage \in {"selected", "failed", "cancelled"}
  /\ UNCHANGED vars

SelectRelay ==
  \/ \E a \in Attempts : Take(a)
  \/ AllFinished \/ DeadlineReached \/ NoSuccess

Abandon ==
  \E a \in Attempts : AbortTakesEffect(a) \/ StopReady(a) \/ Stopped(a) \/ DropReady(a)

Next ==
  \/ \E a \in Attempts : Succeeds(a) \/ Fails(a)
  \/ SelectRelay \/ Abandon \/ GraceEnds \/ Cancel \/ Tick \/ Ended

Spec == Init /\ [][Next]_vars

\* The executor runs what is ready, timers fire, and a stop ends: its operations
\* have timeouts, and so has an idle connection.
Fairness == WF_vars(SelectRelay) /\ WF_vars(Abandon) /\ WF_vars(Tick)

FairSpec == Spec /\ Fairness

-----------------------------------------------------------------------------
(* Properties                                                              *)

\* Every variable has its shape.
TypeOK ==
  /\ now \in 0..FirstDeadline
  /\ task \in [Attempts -> TaskStates]
  /\ rtt \in [Attempts -> RoundTrips \cup {0}]
  /\ best \in Attempts \cup {NoAttempt}
  /\ deadline \in 0..FirstDeadline
  /\ connected = {a[1] : a \in taken} /\ taken \subseteq Attempts
  /\ stage \in Stages
  /\ bestAt \in 0..FirstDeadline

\* Of all successes seen, the candidate is the fastest, whatever their order.
BestIsFastest ==
  /\ best \in taken \/ (best = NoAttempt /\ taken = {})
  /\ \A a \in taken : rtt[best] <= rtt[a]

\* The comment in select_relay: it waits at most three times the time it took to
\* find the best candidate, and never goes on for the sake of a better one after
\* the cap, which better candidates found meanwhile do not extend.
SelectionIsPrompt ==
  Racing /\ best # NoAttempt => now <= Max({bestAt, Min({3 * bestAt, Cap})})

\* One handshake at most is kept, the candidate; all others that the race came to
\* know are stopped, however long the relay takes to confirm it, and none is
\* dropped unless the target changed.
OneIsHeld ==
  /\ In("held") = IF stage = "cancelled" THEN {} ELSE {best} \ {NoAttempt}
  /\ stage # "cancelled" => In("left") \cap taken = {} /\ In("dropped") = {}

\* Where a handshake that is not chosen may end: after a stop, which the relay
\* confirmed or did not confirm in time; without one only when the target changed.
Ends == {"over", "left"} \cup IF stage = "cancelled" THEN {"dropped"} ELSE {}

\* The race ends, and afterwards no handshake but the chosen one stays open, not
\* even one that is completed at the abort of its task.
EveryHandshakeEnds == <>[](~Racing /\ \A a \in Attempts : task[a] \in Ends \/ a = best)
=============================================================================
