-------------------------- MODULE LivenessChecker --------------------------
(***************************************************************************)
(* The probes that tell a live tunnel from a dead one                      *)
(* (rustlib/src/liveness.rs, driven by QuicWgConn in quicwg.rs).           *)
(*                                                                         *)
(* Time is counted in ticks.  What is due is done before time passes: a    *)
(* pong is received at the tick it arrives, and before the poll of that    *)
(* tick, as the biased select! of receive_packet_or_pong does it.  Instead *)
(* of absolute times and ids a probe carries its age and how many probes   *)
(* ago it was sent.                                                        *)
(***************************************************************************)
EXTENDS Naturals, Sequences, FiniteSets, FiniteSetsExt

CONSTANTS
  BusyPeriod, IdlePeriod,          \* BUSY_PING_PERIOD, IDLE_PING_PERIOD
  MinLostPeriod, MaxLostPeriod,    \* MIN_PROBE_LOST_PERIOD, MAX_PROBE_LOST_PERIOD
  MaxLost, MaxLostAfterSleep,      \* MAX_ALLOWED_LOST_PROBES[_AFTER_SLEEP]
  Window,                          \* SLOW_PONG_WINDOW
  RoundTrips                       \* round trip times of the network

ASSUME PeriodsAssumption ==
  /\ {BusyPeriod, IdlePeriod, MinLostPeriod, MaxLostPeriod} \subseteq Nat \ {0}
  /\ BusyPeriod < IdlePeriod /\ MinLostPeriod <= MaxLostPeriod
  /\ BusyPeriod <= MaxLostPeriod
ASSUME CountsAssumption ==
  {MaxLost, MaxLostAfterSleep, Window} \subseteq Nat \ {0} /\ MaxLostAfterSleep <= MaxLost
\* The network for which the limits are made: answers come within the shortest
\* period after which a probe counts as lost.
ASSUME RoundTripsAssumption == RoundTrips \subseteq 1..MinLostPeriod

VARIABLES
  outstanding,   \* outstanding_pongs, oldest first, each with its fate
  lastPing,      \* ticks since last_ping_sent_at; IdlePeriod stands for longer, or never
  sentTraffic,   \* sent_user_traffic_since_last_ping
  waking,        \* is_waking
  slowest,       \* slowest_pongs
  pollIn,        \* ticks until next_liveness_poll
  dead,          \* the connection has returned TunnelDead
  cut,           \* the network has stopped working for good
  silent,        \* ticks since then, or since the last wake
  lostInRow,     \* probes the network has dropped in a row
  recent         \* the pongs a search of the window for the slowest might look at

checkerVars == <<outstanding, lastPing, sentTraffic, waking, slowest, pollIn, dead, cut,
          silent, lostInRow, recent>>

-----------------------------------------------------------------------------
(* The checker                                                             *)

LostPeriod(slow) ==
  IF slow = << >> THEN MinLostPeriod
  ELSE Max({MinLostPeriod, Min({MaxLostPeriod, 2 * slow[1].rtt})})

\* lost_probe_count_and_time_of_next_loss counts the expired probes up to the
\* first that is not.
IsLost(probe) == probe.age >= LostPeriod(slowest)

LostCount(probes) ==
  Cardinality({k \in DOMAIN probes : \A j \in 1..k : IsLost(probes[j])})

NextLoss(probes) ==
  {LostPeriod(slowest) - probes[k].age : k \in DOMAIN probes \cap {LostCount(probes) + 1}}

MaxAllowed == IF waking THEN MaxLostAfterSleep ELSE MaxLost

Period(busy) == IF busy THEN BusyPeriod ELSE IdlePeriod

Overdue(period) == lastPing >= period

\* One probe more has been sent since each of these.
Earlier(pings) == [k \in DOMAIN pings |-> [pings[k] EXCEPT !.back = @ + 1]]

\* The fate of a probe: its round trip time, or 0 when its answer never comes.
Fates(row, budget) == RoundTrips \cup (IF row < budget THEN {0} ELSE {})

SendPing(probes, slow, row, budget) ==
  /\ \E fate \in Fates(row, budget) :
       /\ outstanding' = Append(Earlier(probes), [back |-> 1, age |-> 0, fate |-> fate])
       /\ lostInRow' = IF fate = 0 THEN row + 1 ELSE 0
  /\ lastPing' = 0
  /\ sentTraffic' = FALSE
  /\ slowest' = Earlier(slow)

CheckerInit ==
  /\ outstanding = << >> /\ lastPing = IdlePeriod /\ sentTraffic = FALSE
  /\ waking = FALSE /\ slowest = << >> /\ pollIn = 0
  /\ dead = FALSE /\ cut = FALSE /\ silent = 0 /\ lostInRow = 0 /\ recent = {}

Arrives(k) == ~cut /\ outstanding[k].fate = outstanding[k].age /\ outstanding[k].age # 0

PongDue == \E k \in DOMAIN outstanding : Arrives(k)

\* The pongs of the window, with a probe more sent since.
EarlierRecent == {[p EXCEPT !.back = @ + 1] : p \in recent}

\* Operators whose name begins with "Bad" are faulty variants of the operator
\* that follows them; only the sensitivity checks of PROJECT.json use them.

\* AliveUntil: the earliest of the next loss, the next ping and the busy period.
NextPoll(probes, sinceLast, period) ==
  Min({BusyPeriod, period - sinceLast} \cup NextLoss(probes))

-----------------------------------------------------------------------------
(* Steps of the connection                                                 *)

\* poll: too many probes are lost.
Die ==
  /\ ~dead /\ pollIn = 0 /\ ~PongDue
  /\ LostCount(outstanding) > MaxAllowed
  /\ dead' = TRUE
  /\ UNCHANGED <<outstanding, lastPing, sentTraffic, waking, slowest, pollIn, cut,
                 silent, lostInRow, recent>>

\* Losses do not shorten the time to the next ping.
BadPollBusy == sentTraffic

PollBusy == sentTraffic \/ LostCount(outstanding) # 0

\* poll sends a packet and is called again at once.
PollSends ==
  /\ ~dead /\ pollIn = 0 /\ ~PongDue
  /\ LostCount(outstanding) <= MaxAllowed
  /\ Overdue(Period(PollBusy))
  /\ SendPing(outstanding, slowest, lostInRow, MaxAllowed)
  /\ pollIn' = NextPoll(outstanding', 0, Period(LostCount(outstanding) # 0))
  /\ recent' = EarlierRecent
  /\ UNCHANGED <<waking, dead, cut, silent>>

\* poll has nothing to send.
PollWaits ==
  /\ ~dead /\ pollIn = 0 /\ ~PongDue
  /\ LostCount(outstanding) <= MaxAllowed
  /\ ~Overdue(Period(PollBusy))
  /\ pollIn' = NextPoll(outstanding, lastPing, Period(PollBusy))
  /\ UNCHANGED <<outstanding, lastPing, sentTraffic, waking, slowest, dead, cut,
                 silent, lostInRow, recent>>

\* The window is counted in pongs on the list, not in pings.
BadInWindow(slow, back) == IF Len(slow) > Window THEN Tail(slow) ELSE slow

\* Keeps the pongs that are at most Window older than this one, one ping more than
\* the comment of the code wants, ...
InWindow(slow, back) ==
  LET old == {k \in DOMAIN slow : \A j \in 1..k : slow[j].back - back > Window}
  IN  SubSeq(slow, Cardinality(old) + 1, Len(slow))

\* ... and, of these, those slower than all that came after them.
Slower(slow, rtt) ==
  LET fast == {k \in DOMAIN slow : \A j \in k..Len(slow) : slow[j].rtt <= rtt}
  IN  SubSeq(slow, 1, Len(slow) - Cardinality(fast))

UpdateSlowest(slow, back, rtt) ==
  Append(Slower(InWindow(slow, back), rtt), [back |-> back, rtt |-> rtt])

\* Only the answered probe is forgotten, not the older ones.
BadForget(k) == SubSeq(outstanding, 1, k - 1) \o SubSeq(outstanding, k + 1, Len(outstanding))

\* outstanding_pongs.drain(0..=k)
Forget(k) == SubSeq(outstanding, k + 1, Len(outstanding))

\* process_potential_probe_response: a pong that matches an outstanding probe.
Pong ==
  /\ ~dead
  /\ \E k \in DOMAIN outstanding :
       LET back == outstanding[k].back
           rtt == outstanding[k].age
       IN  /\ Arrives(k)
           /\ slowest' = UpdateSlowest(slowest, back, rtt)
           /\ outstanding' = Forget(k)
           /\ recent' = {p \in recent : p.back - back <= Window}
                          \cup {[back |-> back, rtt |-> rtt]}
  /\ waking' = FALSE
  /\ UNCHANGED <<lastPing, sentTraffic, pollIn, dead, cut, silent, lostInRow>>

\* QuicWgConn::send asks sent_traffic for a packet to send before the user's.
SendTraffic ==
  /\ ~dead
  /\ IF Overdue(BusyPeriod + 1)
     THEN SendPing(outstanding, slowest, lostInRow, MaxAllowed) /\ recent' = EarlierRecent
     ELSE /\ sentTraffic' = TRUE
          /\ UNCHANGED <<outstanding, lastPing, slowest, lostInRow, recent>>
  /\ UNCHANGED <<waking, pollIn, dead, cut, silent>>

\* The device has woken up: a fresh checker, which allows fewer losses.
WakeUp ==
  /\ ~dead
  /\ SendPing(<< >>, << >>, 0, MaxLostAfterSleep)
  /\ waking' = TRUE
  /\ silent' = 0
  /\ recent' = {}
  /\ UNCHANGED <<pollIn, dead, cut>>

-----------------------------------------------------------------------------
(* Time and network                                                        *)

Tick ==
  /\ ~dead /\ pollIn > 0 /\ ~PongDue
  /\ pollIn' = pollIn - 1
  /\ outstanding' = [k \in DOMAIN outstanding |-> [outstanding[k] EXCEPT !.age = @ + 1]]
  /\ lastPing' = Min({lastPing + 1, IdlePeriod})
  /\ silent' = IF cut THEN silent + 1 ELSE silent
  /\ UNCHANGED <<sentTraffic, waking, slowest, dead, cut, lostInRow, recent>>

\* From now on nothing arrives.
Cut ==
  /\ ~dead /\ ~cut
  /\ cut' = TRUE
  /\ UNCHANGED <<outstanding, lastPing, sentTraffic, waking, slowest, pollIn, dead,
                 silent, lostInRow, recent>>

\* The caller drops a dead connection.
DeadDropped == dead /\ UNCHANGED checkerVars

CheckerNext ==
  \/ Die \/ PollSends \/ PollWaits \/ Pong \/ SendTraffic \/ WakeUp
  \/ Tick \/ Cut \/ DeadDropped

CheckerSpec == CheckerInit /\ [][CheckerNext]_checkerVars

-----------------------------------------------------------------------------
(* Properties                                                              *)

Bound == IdlePeriod + 2 * MaxLostPeriod + (MaxLost - 1) * BusyPeriod

\* A working network is never declared dead: neither as many lost probes in a
\* row as are allowed, nor their position relative to sleep and traffic do it.
NoFalseDeath == dead => cut

\* A dead network is noticed in bounded time after it died, or after the device
\* woke: one idle period, two periods until a probe counts as lost, and the
\* busy pings between the first and the last allowed loss.
DeathIsNoticed == cut /\ ~dead => silent <= Bound

\* The pongs of the last pings, counted back from the newest one answered.
PongsOfLast(pings) == {p \in recent : \A q \in recent : p.back - q.back < pings}

\* The head of the list of slow pongs is the slowest that a search of the window
\* would find, whatever was lost, late or dropped from the list.  Whether the
\* window has SLOW_PONG_WINDOW pings, as the comment says, or one more, as the
\* code does, is left open.
SlowestIsMaximum ==
  recent # {} =>
    /\ slowest # << >>
    /\ \E pings \in {Window, Window + 1} :
         slowest[1].rtt = Max({p.rtt : p \in PongsOfLast(pings)})
=============================================================================
