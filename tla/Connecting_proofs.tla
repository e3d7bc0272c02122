--------------------------- MODULE Connecting_proofs ---------------------------
(***************************************************************************)
(* Proofs about an attempt to connect: the race for a relay, for any       *)
(* relays, ports, round trip times and limits, and the choice of an exit,  *)
(* for any exits, places, selectors, lists and limits.                     *)
(***************************************************************************)
EXTENDS RelayRace, Connect, SequenceTheorems, FiniteSetTheorems, TLAPS

-----------------------------------------------------------------------------
(* The race for a relay                                                    *)

\* Successes that select_relay has taken have left the race.
TakenLeftRace ==
  \A a \in taken :
    /\ rtt[a] \in RoundTrips
    /\ task[a] \in {"held", "stopping", "over"} \/ stage = "cancelled"
    /\ task[a] \notin {"running", "ready"}

ReadyIsMeasured == \A a \in Attempts : task[a] = "ready" => rtt[a] \in RoundTrips

HeldIsBest == \A a \in Attempts : task[a] = "held" <=> stage # "cancelled" /\ a = best

\* What is known of the deadline while racing.
DeadlineIsSet ==
  Racing =>
    /\ best = NoAttempt => deadline = FirstDeadline /\ now <= deadline
    /\ best # NoAttempt => deadline = Min({3 * bestAt, Cap}) /\ (now <= bestAt \/ now <= deadline)

NoneOnlyWithoutCandidate == stage \in {"abandoning", "failed"} => best = NoAttempt

DroppedByCancel == stage # "cancelled" => \A a \in Attempts : task[a] # "dropped"

IInv ==
  /\ TypeOK
  /\ BestIsFastest
  /\ TakenLeftRace
  /\ ReadyIsMeasured
  /\ HeldIsBest
  /\ DeadlineIsSet
  /\ NoneOnlyWithoutCandidate
  /\ DroppedByCancel

LEMMA MinOfTwo ==
  ASSUME NEW x \in Nat, NEW y \in Nat
  PROVE  /\ Min({x, y}) \in {x, y}
         /\ Min({x, y}) <= x /\ Min({x, y}) <= y
<1> DEFINE m == IF x <= y THEN x ELSE y
<1>1. m \in {x, y} /\ \A z \in {x, y} : m <= z
  OBVIOUS
<1>2. \E v \in {x, y} : \A z \in {x, y} : v <= z
  BY <1>1
<1> HIDE DEF m
<1>3. Min({x, y}) \in {x, y} /\ \A z \in {x, y} : Min({x, y}) <= z
  BY <1>2 DEF Min
<1> QED
  BY <1>3

LEMMA MaxOfTwo ==
  ASSUME NEW x \in Nat, NEW y \in Nat
  PROVE  x <= Max({x, y}) /\ y <= Max({x, y}) /\ Max({x, y}) \in Nat
<1> DEFINE m == IF x <= y THEN y ELSE x
<1>1. m \in {x, y} /\ \A z \in {x, y} : m >= z
  OBVIOUS
<1>2. \E v \in {x, y} : \A z \in {x, y} : v >= z
  BY <1>1
<1> HIDE DEF m
<1>3. \A z \in {x, y} : Max({x, y}) >= z
  BY <1>2 DEF Max
<1>4. Max({x, y}) \in {x, y}
  BY <1>2 DEF Max
<1> QED
  BY <1>3, <1>4

LEMMA Start == Init => IInv
BY TimesAssumption, AttemptsAssumption
   DEF Init, IInv, TypeOK, TaskStates, Stages, Racing, BestIsFastest, TakenLeftRace,
       ReadyIsMeasured, HeldIsBest, DeadlineIsSet, NoneOnlyWithoutCandidate,
       DroppedByCancel

LEMMA TakeStep ==
  ASSUME IInv, NEW a \in Attempts, Take(a)
  PROVE  IInv'
<1> USE TimesAssumption, AttemptsAssumption
<1>1. Racing /\ task[a] = "ready" /\ a \notin taken /\ rtt[a] \in RoundTrips /\ a # NoAttempt
  BY DEF IInv, Take, TakenLeftRace, ReadyIsMeasured
<1>2. 3 * now \in Nat /\ Cap \in Nat /\ now \in Nat /\ FirstDeadline \in Nat
  BY DEF IInv, TypeOK
<1>3. /\ Min({3 * now, Cap}) \in Nat /\ Min({3 * now, Cap}) <= Cap
  BY <1>2, MinOfTwo
<1>4. TypeOK'
  <2>1. now' \in 0..FirstDeadline /\ rtt' \in [Attempts -> RoundTrips \cup {0}]
        /\ bestAt' \in 0..FirstDeadline
    BY DEF IInv, TypeOK, Take
  <2>2. task' \in [Attempts -> TaskStates]
    BY DEF IInv, TypeOK, Take, TaskStates
  <2>3. deadline' \in 0..FirstDeadline
    BY <1>2, <1>3 DEF IInv, TypeOK, Take, NewDeadline
  <2>4. best' \in Attempts \cup {NoAttempt} /\ stage' \in Stages
    BY DEF IInv, TypeOK, Take, Stages
  <2>5. connected' = {b[1] : b \in taken'} /\ taken' \subseteq Attempts
    BY DEF IInv, TypeOK, Take
  <2> QED
    BY <2>1, <2>2, <2>3, <2>4, <2>5 DEF TypeOK
<1>5. BestIsFastest'
  <2>1. rtt' = rtt /\ taken' = taken \cup {a}
    BY DEF Take
  <2>2. /\ \A b \in taken : rtt[b] \in Nat
        /\ rtt[a] \in Nat
    BY <1>1 DEF IInv, TakenLeftRace
  <2>3. CASE Rejects(a)
    BY <2>1, <2>2, <2>3, <1>1 DEF IInv, BestIsFastest, Take, Rejects
  <2>4. CASE ~Rejects(a)
    <3>1. best' = a
      BY <2>4 DEF Take
    <3>2. CASE best = NoAttempt
      BY <2>1, <3>1, <3>2, <2>2, <1>1 DEF IInv, TypeOK, BestIsFastest
    <3>3. CASE best # NoAttempt
      <4>1. best \in taken /\ ~(rtt[best] < rtt[a])
        BY <2>4, <3>3 DEF IInv, BestIsFastest, Rejects
      <4>2. rtt[a] <= rtt[best]
        BY <4>1, <2>2, <1>1
      <4>3. \A b \in taken : rtt[a] <= rtt[b]
        BY <4>1, <4>2, <2>2, <1>1 DEF IInv, BestIsFastest
      <4> QED
        BY <2>1, <3>1, <4>3, <2>2, <1>1 DEF BestIsFastest
    <3> QED
      BY <3>2, <3>3
  <2> QED
    BY <2>3, <2>4
<1>6. TakenLeftRace'
  <2>1. Loser(a) \subseteq {a, best} /\ (a \notin Loser(a) => task'[a] = "held")
        /\ (a \in Loser(a) => task'[a] = "stopping")
    BY DEF Loser, Take, IInv, TypeOK
  <2>2. \A b \in taken : task'[b] \in {"stopping", task[b]}
    BY <1>1, <2>1 DEF Take, IInv, TypeOK
  <2>3. stage # "cancelled" /\ rtt' = rtt /\ taken' = taken \cup {a}
    BY <1>1 DEF Racing, Take
  <2> QED
    BY <1>1, <2>1, <2>2, <2>3 DEF TakenLeftRace, IInv, TypeOK
<1>7. ReadyIsMeasured'
  BY DEF IInv, TypeOK, ReadyIsMeasured, Take
<1>8. HeldIsBest'
  <2>1. stage # "cancelled" /\ stage' # "cancelled"
    BY <1>1 DEF Racing, Take
  <2>2. a # best
    BY <1>1 DEF IInv, BestIsFastest
  <2>3. CASE Rejects(a)
    BY <2>1, <2>2, <2>3, <1>1 DEF IInv, TypeOK, HeldIsBest, Take, Loser
  <2>4. CASE ~Rejects(a)
    BY <2>1, <2>2, <2>4, <1>1 DEF IInv, TypeOK, HeldIsBest, Take, Loser
  <2> QED
    BY <2>3, <2>4
<1>9. DeadlineIsSet'
  <2>1. CASE Rejects(a)
    BY <2>1, <1>1, <1>2 DEF IInv, DeadlineIsSet, Take, Rejects, NewDeadline, Racing
  <2>2. CASE ~Rejects(a)
    BY <2>2, <1>1, <1>2 DEF IInv, DeadlineIsSet, Take, NewDeadline, Racing
  <2> QED
    BY <2>1, <2>2
<1>10. NoneOnlyWithoutCandidate'
  BY DEF Take, NoneOnlyWithoutCandidate
<1>11. DroppedByCancel'
  BY DEF IInv, TypeOK, Take, DroppedByCancel, Racing
<1> QED
  BY <1>4, <1>5, <1>6, <1>7, <1>8, <1>9, <1>10, <1>11 DEF IInv

\* The steps that end a task, or the hold on a handshake, and change nothing else.
LEMMA LetGo ==
  ASSUME IInv,
         UNCHANGED <<now, rtt, best, deadline, connected, taken, bestAt>>,
         task' \in [Attempts -> TaskStates],
         stage' = stage \/ (Racing /\ stage' \in {"abandoning", "selected"}
                              /\ (stage' = "abandoning" => best = NoAttempt))
                        \/ (stage = "abandoning" /\ stage' = "failed")
                        \/ stage' = "cancelled",
         stage = "cancelled" => stage' = "cancelled",
         \A b \in Attempts :
           \/ task'[b] = task[b] /\ (stage' = "cancelled" => task[b] # "held" \/ stage = "cancelled")
           \/ task'[b] \in {"over", "stopping"} /\ task[b] \in {"running", "ready", "stopping"}
           \/ task'[b] = "left" /\ task[b] # "held" /\ b \notin taken
           \/ task'[b] = "dropped" /\ stage' = "cancelled"
  PROVE  IInv'
<1>1. TypeOK'
  BY DEF IInv, TypeOK, Stages
<1>2. BestIsFastest'
  BY DEF IInv, BestIsFastest
<1>3. TakenLeftRace'
  BY DEF IInv, TypeOK, TakenLeftRace, Racing
<1>4. ReadyIsMeasured'
  BY DEF IInv, ReadyIsMeasured
<1>5. HeldIsBest'
  BY AttemptsAssumption DEF IInv, TypeOK, HeldIsBest, Racing
<1>6. DeadlineIsSet'
  BY DEF IInv, DeadlineIsSet, Racing
<1>7. NoneOnlyWithoutCandidate'
  BY DEF IInv, NoneOnlyWithoutCandidate, Racing
<1>8. DroppedByCancel'
  BY DEF IInv, DroppedByCancel
<1> QED
  BY <1>1, <1>2, <1>3, <1>4, <1>5, <1>6, <1>7, <1>8 DEF IInv

LEMMA Step == IInv /\ [Next]_vars => IInv'
<1> SUFFICES ASSUME IInv, [Next]_vars PROVE IInv'
  OBVIOUS
<1> USE TimesAssumption, AttemptsAssumption
<1>1. ASSUME NEW a \in Attempts, Take(a) PROVE IInv'
  BY <1>1, TakeStep
<1>2. ASSUME NEW a \in Attempts, Succeeds(a) PROVE IInv'
  <2>1. a \notin taken /\ task[a] = "running"
    BY <1>2 DEF IInv, TakenLeftRace, Succeeds
  <2>2. PICK r \in RoundTrips : rtt' = [rtt EXCEPT ![a] = r]
    BY <1>2 DEF Succeeds
  <2>3. /\ task' = [task EXCEPT ![a] = "ready"]
        /\ UNCHANGED <<now, best, deadline, connected, stage, taken, bestAt>>
    BY <1>2 DEF Succeeds
  <2>4. TypeOK'
    BY <2>2, <2>3 DEF IInv, TypeOK, TaskStates
  <2>5. BestIsFastest'
    BY <2>1, <2>2, <2>3 DEF IInv, BestIsFastest, TypeOK
  <2>6. TakenLeftRace' /\ ReadyIsMeasured'
    BY <2>1, <2>2, <2>3 DEF IInv, TakenLeftRace, ReadyIsMeasured, TypeOK
  <2>7. HeldIsBest' /\ DeadlineIsSet' /\ NoneOnlyWithoutCandidate' /\ DroppedByCancel'
    BY <2>1, <2>3 DEF IInv, HeldIsBest, DeadlineIsSet, NoneOnlyWithoutCandidate,
                      DroppedByCancel, Racing, TypeOK
  <2> QED
    BY <2>4, <2>5, <2>6, <2>7 DEF IInv
<1>3. ASSUME NEW a \in Attempts,
             Fails(a) \/ AbortTakesEffect(a) \/ StopReady(a) \/ Stopped(a) \/ DropReady(a)
      PROVE  IInv'
  <2>1. /\ UNCHANGED <<now, rtt, best, deadline, connected, stage, taken, bestAt>>
        /\ \E s \in {"over", "stopping", "dropped"} : task' = [task EXCEPT ![a] = s]
        /\ task[a] \in {"running", "ready", "stopping"}
        /\ task'[a] = "dropped" => stage = "cancelled"
    BY <1>3 DEF Fails, AbortTakesEffect, StopReady, Stopped, DropReady, IInv, TypeOK
  <2>2. task' \in [Attempts -> TaskStates]
    BY <2>1 DEF IInv, TypeOK, TaskStates
  <2> QED
    BY <2>1, <2>2, LetGo DEF IInv, TypeOK
<1>4. CASE AllFinished \/ DeadlineReached
  <2>1. Racing /\ UNCHANGED <<now, task, rtt, best, deadline, connected, taken, bestAt>>
        /\ stage' = IF best = NoAttempt THEN "abandoning" ELSE "selected"
    BY <1>4 DEF AllFinished, DeadlineReached, StopsRacing
  <2> QED
    BY <2>1, LetGo DEF IInv, TypeOK, Racing
<1>5. CASE NoSuccess
  BY <1>5, LetGo DEF NoSuccess, IInv, TypeOK
<1>6. CASE GraceEnds
  <2>1. \A b \in Attempts : task'[b] = task[b]
          \/ (task'[b] = "left" /\ task[b] # "held" /\ b \notin taken)
    BY <1>6 DEF GraceEnds, IInv, TypeOK
  <2>2. task' \in [Attempts -> TaskStates]
    BY <1>6 DEF GraceEnds, IInv, TypeOK, TaskStates
  <2> QED
    BY <1>6, <2>1, <2>2, LetGo DEF GraceEnds, Abandoning
<1>7. CASE Cancel
  <2>1. \A b \in Attempts : (task'[b] = task[b] /\ task[b] # "held") \/ task'[b] = "dropped"
    BY <1>7 DEF Cancel, IInv, TypeOK
  <2>2. task' \in [Attempts -> TaskStates]
    BY <1>7 DEF Cancel, IInv, TypeOK, TaskStates
  <2> QED
    BY <1>7, <2>1, <2>2, LetGo DEF Cancel
<1>8. CASE Tick
  <2>1. /\ Racing /\ now < deadline /\ now' = now + 1
        /\ UNCHANGED <<task, rtt, best, deadline, connected, stage, taken, bestAt>>
    BY <1>8 DEF Tick
  <2>2. TypeOK'
    BY <2>1 DEF IInv, TypeOK
  <2>3. DeadlineIsSet'
    BY <2>1 DEF IInv, TypeOK, DeadlineIsSet, Racing
  <2> QED
    BY <2>1, <2>2, <2>3 DEF IInv, BestIsFastest, TakenLeftRace, ReadyIsMeasured, HeldIsBest,
                            NoneOnlyWithoutCandidate, DroppedByCancel
<1>9. CASE Ended \/ UNCHANGED vars
  BY <1>9 DEF Ended, vars, IInv, TypeOK, BestIsFastest, TakenLeftRace, ReadyIsMeasured,
              HeldIsBest, DeadlineIsSet, NoneOnlyWithoutCandidate, DroppedByCancel, Racing
<1> QED
  BY <1>1, <1>2, <1>3, <1>4, <1>5, <1>6, <1>7, <1>8, <1>9 DEF Next, SelectRelay, Abandon

LEMMA Invariant == Spec => []IInv
BY Start, Step, PTL DEF Spec

\* Every variable keeps its shape.
THEOREM TypeCorrect == Spec => []TypeOK
<1>1. IInv => TypeOK
  BY DEF IInv
<1> QED
  BY <1>1, Invariant, PTL

\* The relay that select_relay returns is the fastest of all that answered.
THEOREM FastestWins == Spec => []BestIsFastest
<1>1. IInv => BestIsFastest
  BY DEF IInv
<1> QED
  BY <1>1, Invariant, PTL

\* select_relay keeps one handshake and has every other it knows of stopped.
THEOREM NoHandshakeIsForgotten == Spec => []OneIsHeld
<1>1. IInv => OneIsHeld
  BY AttemptsAssumption
     DEF IInv, TypeOK, OneIsHeld, HeldIsBest, TakenLeftRace, DroppedByCancel, In
<1> QED
  BY <1>1, Invariant, PTL

\* A better candidate never makes select_relay wait beyond the announced time.
THEOREM WaitIsBounded == Spec => []SelectionIsPrompt
<1>1. IInv => SelectionIsPrompt
  <2> SUFFICES ASSUME IInv, Racing, best # NoAttempt
               PROVE  now <= Max({bestAt, Min({3 * bestAt, Cap})})
    BY DEF SelectionIsPrompt
  <2>1. now \in Nat /\ bestAt \in Nat /\ deadline \in Nat
        /\ deadline = Min({3 * bestAt, Cap}) /\ (now <= bestAt \/ now <= deadline)
    BY TimesAssumption DEF IInv, TypeOK, DeadlineIsSet
  <2>2. bestAt <= Max({bestAt, deadline}) /\ deadline <= Max({bestAt, deadline})
        /\ Max({bestAt, deadline}) \in Nat
    BY <2>1, MaxOfTwo
  <2> QED
    BY <2>1, <2>2
<1> QED
  BY <1>1, Invariant, PTL

-----------------------------------------------------------------------------
(* The choice of an exit                                                   *)

\* Where an attempt can be.
Phases ==
  {"idle", "relays", "await relays", "race", "exits", "await exits", "request", "authenticate",
   "confirmation", "handshake", "pong", "connected"}

AttemptIsKnown ==
  attempt \in [phase : Phases, selector : SUBSET Exits, relay : Relays \cup {None},
               resends : Nat, error : {"none", "other", "NoExit"}]

\* ExitSelectionState is a summary of the attempts since it was cleared.
SelectionIsCounted ==
  /\ tries \in Seq(Exits)
  /\ selected =
       [exits  |-> Tried,
        counts |-> [area \in Areas |-> [p \in Places(area) |-> TriedIn(area, p)]]]

\* After "no exit" the selection starts anew, until the next choice.
NoExitClears ==
  /\ attempt.error = "NoExit"
  /\ attempt.phase \in {"idle", "relays", "await relays", "race", "exits", "await exits"}
  => tries = << >>

SelectionInv ==
  /\ AttemptIsKnown /\ SelectionIsCounted /\ NoExitClears /\ ExitsTakeTurns

LEMMA AppendedIndices ==
  ASSUME NEW s \in Seq(Exits), NEW e \in Exits
  PROVE  /\ Append(s, e) \in Seq(Exits)
         /\ DOMAIN Append(s, e) = DOMAIN s \cup {Len(s) + 1} /\ Len(s) + 1 \notin DOMAIN s
         /\ \A i \in DOMAIN s : Append(s, e)[i] = s[i]
         /\ Append(s, e)[Len(s) + 1] = e
<1>1. Append(s, e) \in Seq(Exits) /\ Len(Append(s, e)) = Len(s) + 1 /\ Len(s) \in Nat
      /\ \A i \in 1..Len(s) : Append(s, e)[i] = s[i]
  OBVIOUS
<1>2. Append(s, e)[Len(s) + 1] = e
  OBVIOUS
<1>3. DOMAIN Append(s, e) = 1..(Len(s) + 1) /\ DOMAIN s = 1..Len(s)
  BY <1>1
<1>4. 1..(Len(s) + 1) = (1..Len(s)) \cup {Len(s) + 1} /\ Len(s) + 1 \notin 1..Len(s)
  BY <1>1
<1> QED
  BY <1>1, <1>2, <1>3, <1>4

LEMMA TriesAreFinite ==
  ASSUME tries \in Seq(Exits)
  PROVE  \A area, p : IsFiniteSet({i \in DOMAIN tries : Place[tries[i]][area] = p})
<1>1. Len(tries) \in Nat /\ DOMAIN tries = 1..Len(tries)
  OBVIOUS
<1>2. IsFiniteSet(DOMAIN tries)
  BY <1>1, FS_Interval
<1> QED
  BY <1>2, FS_Subset

\* A try counts once for each area of the exit.
LEMMA TryCounts ==
  ASSUME tries \in Seq(Exits), NEW e \in Exits, tries' = Append(tries, e)
  PROVE  /\ tries' \in Seq(Exits)
         /\ Tried' = Tried \cup {e}
         /\ \A area, p :
              /\ TriedIn(area, p) \in Nat
              /\ TriedIn(area, p)' = IF Place[e][area] = p THEN TriedIn(area, p) + 1
                                     ELSE TriedIn(area, p)
<1> DEFINE n == Len(tries) + 1
<1>1. /\ tries' \in Seq(Exits)
      /\ DOMAIN tries' = DOMAIN tries \cup {n} /\ n \notin DOMAIN tries
      /\ \A i \in DOMAIN tries : tries'[i] = tries[i]
      /\ tries'[n] = e
  BY AppendedIndices
<1> HIDE DEF n
<1>2. Tried' = Tried \cup {e}
  BY <1>1 DEF Tried
<1>3. ASSUME NEW area, NEW p
      PROVE  /\ TriedIn(area, p) \in Nat
             /\ TriedIn(area, p)' = IF Place[e][area] = p THEN TriedIn(area, p) + 1
                                    ELSE TriedIn(area, p)
  <2> DEFINE S == {i \in DOMAIN tries : Place[tries[i]][area] = p}
             T == {i \in DOMAIN tries' : Place[tries'[i]][area] = p}
  <2>1. IsFiniteSet(S) /\ n \notin S /\ Cardinality(S) \in Nat
    <3>1. IsFiniteSet(S)
      BY TriesAreFinite, Zenon
    <3>2. n \notin S
      BY <1>1
    <3> HIDE DEF S
    <3> QED
      BY <3>1, <3>2, FS_CardinalityType
  <2>2. T = IF Place[e][area] = p THEN S \cup {n} ELSE S
    <3>1. \A i \in DOMAIN tries : i \in T <=> i \in S
      BY <1>1
    <3>2. n \in T <=> Place[e][area] = p
      BY <1>1
    <3>3. T \subseteq DOMAIN tries \cup {n} /\ S \subseteq DOMAIN tries
      BY <1>1
    <3> HIDE DEF S, T
    <3>4. CASE Place[e][area] = p
      <4>1. \A i : i \in T <=> i \in S \cup {n}
        BY <3>1, <3>2, <3>3, <3>4
      <4> QED
        BY <3>4, <4>1
    <3>5. CASE Place[e][area] # p
      <4>1. \A i : i \in T <=> i \in S
        BY <2>1, <3>1, <3>2, <3>3, <3>5
      <4> QED
        BY <3>5, <4>1
    <3> QED
      BY <3>4, <3>5
  <2>3. TriedIn(area, p) = Cardinality(S) /\ TriedIn(area, p)' = Cardinality(T)
    BY DEF TriedIn
  <2> HIDE DEF S, T
  <2> QED
    BY <2>1, <2>2, <2>3, FS_AddElement
<1> QED
  BY <1>1, <1>2, <1>3

LEMMA NothingTried ==
  tries = << >> => /\ Tried = {} /\ tries \in Seq(Exits)
                   /\ \A area, p : TriedIn(area, p) = 0
<1> SUFFICES ASSUME tries = << >>
             PROVE  Tried = {} /\ tries \in Seq(Exits) /\ \A area, p : TriedIn(area, p) = 0
  OBVIOUS
<1>1. DOMAIN tries = {}
  OBVIOUS
<1>2. Tried = {}
  BY <1>1 DEF Tried
<1>3. ASSUME NEW area, NEW p PROVE TriedIn(area, p) = 0
  <2>1. {i \in DOMAIN tries : Place[tries[i]][area] = p} = {}
    BY <1>1
  <2> QED
    BY <2>1, FS_EmptySet DEF TriedIn
<1> QED
  BY <1>2, <1>3

\* An empty selection, at the start or after "no exit".
LEMMA EmptySelection ==
  ASSUME tries = << >>, selected = NothingSelected
  PROVE  SelectionIsCounted /\ ExitsTakeTurns
<1>1. Tried = {} /\ tries \in Seq(Exits) /\ \A area, p : TriedIn(area, p) = 0
  BY NothingTried
<1>2. SelectionIsCounted
  BY <1>1 DEF SelectionIsCounted, NothingSelected
<1>3. \A area \in Areas : Limits[area] \in Nat
  BY SelectionConstants
<1>4. ExitsTakeTurns
  BY <1>1, <1>3 DEF ExitsTakeTurns
<1> QED
  BY <1>2, <1>4

LEMMA ClearedSelection ==
  ASSUME ClearSelection
  PROVE  SelectionIsCounted' /\ ExitsTakeTurns' /\ NoExitClears'
<1>1. tries' = << >> /\ selected' = NothingSelected
  BY DEF ClearSelection
<1>2. (tries = << >> /\ selected = NothingSelected => SelectionIsCounted /\ ExitsTakeTurns)'
  BY EmptySelection, PTL
<1>3. SelectionIsCounted' /\ ExitsTakeTurns'
  BY <1>1, <1>2
<1> QED
  BY <1>1, <1>3 DEF NoExitClears

LEMMA KeptSelection ==
  ASSUME SelectionInv, SelectionKept
  PROVE  SelectionIsCounted' /\ ExitsTakeTurns' /\ tries' = tries
BY DEF SelectionInv, SelectionKept, SelectionIsCounted, ExitsTakeTurns, Tried, TriedIn

\* A choice counts the exit that it tries, and none is chosen but those that
\* ExitSelectionState::exclude lets through.
LEMMA ChoiceTakesTurn ==
  ASSUME SelectionInv, NEW list, NEW e \in Candidates(list),
         selected' = [exits  |-> selected.exits \cup {e},
                      counts |-> [area \in Areas |->
                        [selected.counts[area] EXCEPT ![Place[e][area]] = @ + 1]]],
         tries' = Append(tries, e)
  PROVE  SelectionIsCounted' /\ ExitsTakeTurns' /\ tries' # << >>
<1>1. e \in Exits /\ ~Excluded(e) /\ tries \in Seq(Exits)
  BY DEF SelectionInv, AttemptIsKnown, SelectionIsCounted, Candidates
<1>2. /\ tries' \in Seq(Exits) /\ Tried' = Tried \cup {e}
      /\ \A area, p :
           /\ TriedIn(area, p) \in Nat
           /\ TriedIn(area, p)' = IF Place[e][area] = p THEN TriedIn(area, p) + 1
                                  ELSE TriedIn(area, p)
  BY <1>1, TryCounts
<1>3. /\ selected.exits = Tried
      /\ \A area \in Areas : selected.counts[area] = [p \in Places(area) |-> TriedIn(area, p)]
  BY DEF SelectionInv, SelectionIsCounted
<1>4. \A area \in Areas : Place[e][area] \in Places(area)
  BY <1>1 DEF Places
<1>5. ASSUME NEW area \in Areas
      PROVE  [selected.counts[area] EXCEPT ![Place[e][area]] = @ + 1]
               = [p \in Places(area) |-> TriedIn(area, p)']
  <2> DEFINE q == Place[e][area]
             P == Places(area)
             c == selected.counts[area]
  <2>1. c = [p \in P |-> TriedIn(area, p)] /\ q \in P
    BY <1>3, <1>4
  <2>2. [c EXCEPT ![q] = @ + 1]
          = [p \in P |-> IF q = p THEN TriedIn(area, p) + 1 ELSE TriedIn(area, p)]
    <3> HIDE DEF c, q, P
    <3> QED
      BY <2>1
  <2>3. \A p \in P : TriedIn(area, p)' = IF q = p THEN TriedIn(area, p) + 1
                                         ELSE TriedIn(area, p)
    BY <1>2
  <2>4. [p \in P |-> TriedIn(area, p)']
          = [p \in P |-> IF q = p THEN TriedIn(area, p) + 1 ELSE TriedIn(area, p)]
    BY <2>3
  <2> QED
    BY <2>2, <2>4
<1>6. SelectionIsCounted'
  <2>1. [area \in Areas |-> [selected.counts[area] EXCEPT ![Place[e][area]] = @ + 1]]
          = [area \in Areas |-> [p \in Places(area) |-> TriedIn(area, p)']]
    BY <1>5
  <2>2. selected' = [exits |-> Tried',
                     counts |-> [area \in Areas |-> [p \in Places(area) |-> TriedIn(area, p)']]]
    BY <1>2, <1>3, <2>1
  <2> QED
    BY <1>2, <2>2 DEF SelectionIsCounted
<1>7. ASSUME NEW area \in Areas, NEW p \in Places(area)
      PROVE  TriedIn(area, p)' <= Limits[area]
  <2>1. Limits[area] \in Nat /\ TriedIn(area, p) <= Limits[area]
    BY SelectionConstants DEF SelectionInv, ExitsTakeTurns
  <2>2. CASE Place[e][area] = p
    <3>1. ~(selected.counts[area][p] >= Limits[area])
      BY <1>1, <2>2 DEF Excluded
    <3>2. selected.counts[area][p] = TriedIn(area, p)
      BY <1>3
    <3> QED
      BY <1>2, <2>1, <2>2, <3>1, <3>2
  <2>3. CASE Place[e][area] # p
    BY <1>2, <2>1, <2>3
  <2> QED
    BY <2>2, <2>3
<1>8. ASSUME NEW i \in DOMAIN tries', NEW j \in DOMAIN tries', tries'[i] = tries'[j]
      PROVE  i = j
  <2> DEFINE n == Len(tries) + 1
  <2>1. /\ DOMAIN tries' = DOMAIN tries \cup {n} /\ n \notin DOMAIN tries
        /\ \A k \in DOMAIN tries : tries'[k] = tries[k]
        /\ tries'[n] = e
    BY <1>1, AppendedIndices
  <2>2. \A k \in DOMAIN tries : tries[k] # e
    BY <1>1, <1>3 DEF Excluded, Tried
  <2>3. \A k, l \in DOMAIN tries : tries[k] = tries[l] => k = l
    BY DEF SelectionInv, ExitsTakeTurns
  <2> HIDE DEF n
  <2> QED
    BY <1>8, <2>1, <2>2, <2>3
<1>9. ExitsTakeTurns'
  BY <1>7, <1>8 DEF ExitsTakeTurns
<1>10. tries' # << >>
  BY <1>1, AppendProperties
<1> QED
  BY <1>6, <1>9, <1>10

LEMMA AttemptEnters ==
  ASSUME AttemptIsKnown, NEW phase \in Phases, Enters(phase)
  PROVE  AttemptIsKnown' /\ attempt'.phase = phase /\ attempt'.error = attempt.error
BY DEF AttemptIsKnown, Enters

LEMMA AttemptEnds ==
  ASSUME NEW error \in {"none", "other", "NoExit"}, FailsWith(error)
  PROVE  AttemptIsKnown' /\ attempt'.phase = "idle" /\ attempt'.error = error
BY DEF AttemptIsKnown, FailsWith, IdleAttempt, Phases

\* The steps of the choice.
LEMMA ChoiceKeeps ==
  ASSUME SelectionInv, NEW list, SelectNextExit(list)
  PROVE  SelectionInv'
<1>0. AttemptIsKnown
  BY DEF SelectionInv
<1>1. CASE Candidates(list) = {}
  <2>1. FailsWith("NoExit") /\ ClearSelection
    BY <1>1 DEF SelectNextExit
  <2> QED
    BY <2>1, AttemptEnds, ClearedSelection DEF SelectionInv
<1>2. CASE Candidates(list) # {}
  <2>1. PICK e \in Best(Candidates(list), attempt.relay) :
          /\ selected' = [exits  |-> selected.exits \cup {e},
                          counts |-> [area \in Areas |->
                            [selected.counts[area] EXCEPT ![Place[e][area]] = @ + 1]]]
          /\ tries' = Append(tries, e)
          /\ Enters("request")
    BY <1>2 DEF SelectNextExit
  <2>2. e \in Candidates(list)
    BY DEF Best
  <2>3. SelectionIsCounted' /\ ExitsTakeTurns'
    BY <2>1, <2>2, ChoiceTakesTurn
  <2>4. AttemptIsKnown' /\ attempt'.phase = "request"
    BY <1>0, <2>1, AttemptEnters DEF Phases
  <2> QED
    BY <2>3, <2>4 DEF SelectionInv, NoExitClears
<1> QED
  BY <1>1, <1>2

\* The steps before and after the choice.
LEMMA QuietSteps ==
  ASSUME SelectionInv, SelectionKept,
         AttemptIsKnown',
         attempt'.error # "NoExit"
           \/ (attempt'.error = attempt.error
               /\ (attempt'.phase = "idle" => attempt.phase = "idle")
               /\ (attempt.phase \in {"idle", "relays", "await relays", "race", "exits",
                                      "await exits"}
                     \/ attempt'.phase \notin {"idle", "relays", "await relays", "race",
                                               "exits", "await exits"}))
  PROVE  SelectionInv'
<1>1. SelectionIsCounted' /\ ExitsTakeTurns' /\ tries' = tries
  BY KeptSelection
<1>2. NoExitClears'
  BY <1>1 DEF SelectionInv, NoExitClears
<1> QED
  BY <1>1, <1>2 DEF SelectionInv

LEMMA StartKeeps ==
  ASSUME SelectionInv, NEW selector \in Selectors, StartAttempt(selector)
  PROVE  SelectionInv'
<1>1. AttemptIsKnown /\ attempt.phase = "idle" /\ SelectionKept /\ selector \in SUBSET Exits
  BY SelectionConstants DEF SelectionInv, StartAttempt, At
<1>2. AttemptIsKnown' /\ attempt'.phase = "relays" /\ attempt'.error = attempt.error
  BY <1>1 DEF StartAttempt, AttemptIsKnown, Phases
<1> QED
  BY <1>1, <1>2, QuietSteps

LEMMA UnchangedAttemptKeeps ==
  ASSUME SelectionInv, SelectionKept, UNCHANGED attempt
  PROVE  SelectionInv'
<1>1. AttemptIsKnown'
  BY DEF SelectionInv, AttemptIsKnown
<1> QED
  BY <1>1, QuietSteps

\* A step of an attempt goes to a later phase, or ends the attempt.
LEMMA PhaseKeeps ==
  ASSUME SelectionInv, SelectionKept, NEW phase \in Phases \ {"idle"},
         Enters(phase) \/ FailsWith("other"),
         attempt.phase \in {"relays", "await relays", "race", "exits"}
           \/ phase \notin {"relays", "await relays", "race", "exits", "await exits"}
  PROVE  SelectionInv'
<1>1. AttemptIsKnown
  BY DEF SelectionInv
<1>2. CASE Enters(phase)
  <2>1. AttemptIsKnown' /\ attempt'.phase = phase /\ attempt'.error = attempt.error
    BY <1>1, <1>2, AttemptEnters
  <2> QED
    BY <2>1, QuietSteps
<1>3. CASE FailsWith("other")
  <2>1. AttemptIsKnown' /\ attempt'.phase = "idle" /\ attempt'.error = "other"
    BY <1>3, AttemptEnds
  <2> QED
    BY <2>1, QuietSteps
<1> QED
  BY <1>2, <1>3

LEMMA AttemptStepKeeps ==
  ASSUME SelectionInv, AttemptStep
  PROVE  SelectionInv'
<1>0. AttemptIsKnown
  BY DEF SelectionInv
<1>1. CASE CheckRelays
  <2>1. SelectionKept /\ attempt.phase = "relays" /\ (Enters("race") \/ Enters("await relays"))
    BY <1>1 DEF CheckRelays, At
  <2> QED
    BY <2>1, PhaseKeeps DEF Phases
<1>2. CASE AwaitRelays
  <2>1. SelectionKept /\ attempt.phase = "await relays"
        /\ (Enters("race") \/ FailsWith("other"))
    BY <1>2 DEF AwaitRelays, At
  <2> QED
    BY <2>1, PhaseKeeps DEF Phases
<1>3. CASE Race
  <2>1. SelectionKept /\ attempt.phase = "race"
    BY <1>3 DEF Race, At
  <2>2. CASE FailsWith("other")
    BY <2>1, <2>2, PhaseKeeps DEF Phases
  <2>3. CASE ~FailsWith("other")
    <3>1. PICK r \in Relays : attempt' = [attempt EXCEPT !.phase = "exits", !.relay = r]
      BY <1>3, <2>3 DEF Race
    <3>2. AttemptIsKnown' /\ attempt'.phase = "exits" /\ attempt'.error = attempt.error
      BY <1>0, <3>1 DEF AttemptIsKnown, Phases
    <3> QED
      BY <2>1, <3>2, QuietSteps
  <2> QED
    BY <2>2, <2>3
<1>4. CASE ChooseExit
  <2>1. CASE cached["exits"] = None
    <3>1. SelectionKept /\ attempt.phase = "exits" /\ Enters("await exits")
      BY <1>4, <2>1 DEF ChooseExit, At
    <3> QED
      BY <3>1, PhaseKeeps DEF Phases
  <2>2. CASE cached["exits"] # None
    BY <1>4, <2>2, ChoiceKeeps DEF ChooseExit
  <2> QED
    BY <2>1, <2>2
<1>5. CASE AwaitExits
  <2>1. CASE update["exits"].state = "failed"
    <3>1. SelectionKept /\ FailsWith("other")
      BY <1>5, <2>1 DEF AwaitExits
    <3> QED
      BY <3>1, AttemptEnds, QuietSteps
  <2>2. CASE update["exits"].state # "failed"
    BY <1>5, <2>2, ChoiceKeeps DEF AwaitExits
  <2> QED
    BY <2>1, <2>2
<1>6. CASE TunnelRequested
  <2>1. SelectionKept /\ (Enters("authenticate") \/ FailsWith("other"))
    BY <1>6 DEF TunnelRequested
  <2>2. "authenticate" \in Phases \ {"idle"}
        /\ "authenticate" \notin {"relays", "await relays", "race", "exits", "await exits"}
    BY DEF Phases
  <2> QED
    BY <2>1, <2>2, PhaseKeeps
<1>7. CASE SendToken
  <2>1. SelectionKept /\ (Enters("confirmation") \/ FailsWith("other"))
    BY <1>7 DEF SendToken
  <2>2. "confirmation" \in Phases \ {"idle"}
        /\ "confirmation" \notin {"relays", "await relays", "race", "exits", "await exits"}
    BY DEF Phases
  <2> QED
    BY <2>1, <2>2, PhaseKeeps
<1>8. CASE TokenConfirmed
  <2>1. SelectionKept
    BY <1>8 DEF TokenConfirmed
  <2>2. CASE FailsWith("other")
    BY <2>1, <2>2, AttemptEnds, QuietSteps
  <2>3. CASE attempt' = [attempt EXCEPT !.phase = "handshake", !.resends = Resends - 1]
    <3>1. Resends - 1 \in Nat
      BY SelectionConstants
    <3>2. AttemptIsKnown' /\ attempt'.phase = "handshake" /\ attempt'.error = attempt.error
      BY <1>0, <2>3, <3>1 DEF AttemptIsKnown, Phases
    <3> QED
      BY <2>1, <3>2, QuietSteps
  <2> QED
    BY <1>8, <2>2, <2>3 DEF TokenConfirmed
<1>9. CASE FirstHandshake
  <2>1. SelectionKept /\ attempt.phase = "handshake"
    BY <1>9 DEF FirstHandshake, At
  <2>2. CASE Enters("pong") \/ FailsWith("other")
    BY <2>1, <2>2, PhaseKeeps DEF Phases
  <2>3. CASE attempt.resends # 0 /\ attempt' = [attempt EXCEPT !.resends = @ - 1]
    <3>1. attempt.resends - 1 \in Nat
      BY <1>0, <2>3 DEF AttemptIsKnown
    <3>2. AttemptIsKnown' /\ attempt'.phase = "handshake" /\ attempt'.error = attempt.error
      BY <1>0, <2>1, <2>3, <3>1 DEF AttemptIsKnown, Phases
    <3> QED
      BY <2>1, <3>2, QuietSteps
  <2> QED
    BY <1>9, <2>2, <2>3 DEF FirstHandshake
<1>10. CASE FirstPong
  <2>1. CASE Enters("connected") /\ ClearSelection
    BY <1>0, <2>1, AttemptEnters, ClearedSelection DEF SelectionInv, Phases
  <2>2. CASE FailsWith("other") /\ SelectionKept
    BY <2>2, AttemptEnds, QuietSteps
  <2> QED
    BY <1>10, <2>1, <2>2 DEF FirstPong
<1> QED
  BY <1>1, <1>2, <1>3, <1>4, <1>5, <1>6, <1>7, <1>8, <1>9, <1>10 DEF AttemptStep

LEMMA DropKeeps ==
  ASSUME SelectionInv, NEW clear \in BOOLEAN, DropAttempt(clear)
  PROVE  SelectionInv'
<1>1. AttemptIsKnown' /\ attempt'.error = "none"
  BY DEF DropAttempt, IdleAttempt, AttemptIsKnown, Phases
<1>2. CASE clear
  <2>1. ClearSelection
    BY <1>2 DEF DropAttempt
  <2> QED
    BY <1>1, <2>1, ClearedSelection DEF SelectionInv
<1>3. CASE ~clear
  <2>1. SelectionKept
    BY <1>3 DEF DropAttempt
  <2> QED
    BY <1>1, <2>1, QuietSteps
<1> QED
  BY <1>2, <1>3

LEMMA SelectionInvStep == SelectionInv /\ [ConnectNext]_connectVars => SelectionInv'
<1> SUFFICES ASSUME SelectionInv, [ConnectNext]_connectVars PROVE SelectionInv'
  OBVIOUS
<1>1. CASE \E selector \in Selectors : StartAttempt(selector)
  BY <1>1, StartKeeps
<1>2. CASE AttemptStep
  BY <1>2, AttemptStepKeeps
<1>3. CASE TunnelFails
  <2>1. SelectionKept /\ FailsWith("none")
    BY <1>3 DEF TunnelFails
  <2> QED
    BY <2>1, AttemptEnds, QuietSteps
<1>4. CASE \E clear \in BOOLEAN : DropAttempt(clear)
  BY <1>4, DropKeeps
<1>5. CASE \E k \in Lists : UpdateEnds(k) \/ ListChanges(k)
  <2>1. SelectionKept /\ UNCHANGED attempt
    BY <1>5 DEF UpdateEnds, ListChanges
  <2> QED
    BY <2>1, UnchangedAttemptKeeps
<1>6. CASE UNCHANGED connectVars
  <2>1. SelectionKept /\ UNCHANGED attempt
    BY <1>6 DEF connectVars, SelectionKept
  <2> QED
    BY <2>1, UnchangedAttemptKeeps
<1> QED
  BY <1>1, <1>2, <1>3, <1>4, <1>5, <1>6 DEF ConnectNext

LEMMA SelectionInvIsInvariant == ConnectSpec => []SelectionInv
<1>1. ConnectInit => SelectionInv
  <2> SUFFICES ASSUME ConnectInit PROVE SelectionInv
    OBVIOUS
  <2>1. SelectionIsCounted /\ ExitsTakeTurns
    BY EmptySelection DEF ConnectInit
  <2>2. AttemptIsKnown /\ NoExitClears
    BY DEF ConnectInit, AttemptIsKnown, NoExitClears, IdleAttempt, Phases
  <2> QED
    BY <2>1, <2>2 DEF SelectionInv
<1> QED
  BY <1>1, SelectionInvStep, PTL DEF ConnectSpec

\* ExitSelectionState::select_next_exit lets the exits take turns, for any
\* exits, places, preferences, selectors and limits, and however the lists
\* change between the attempts.
THEOREM ExitsKeepTakingTurns == ConnectSpec => []ExitsTakeTurns
<1>1. SelectionInv => ExitsTakeTurns
  BY DEF SelectionInv
<1> QED
  BY <1>1, SelectionInvIsInvariant, PTL

\* "No exit" ends an attempt only when each exit that matches has had its turn
\* or lies in an area that had its share, and no two attempts in a row.
THEOREM NoExitIsAlwaysJustified == ConnectSpec => NoExitIsJustified
<1> DEFINE Justified ==
      \A list \in Versions :
        /\ attempt'.error = "NoExit" /\ attempt'.phase = "idle" /\ ~At("idle")
        /\ list = IF At("exits") THEN cached["exits"] ELSE update["exits"].list
        => \A e \in Listed[list] \cap attempt.selector :
             /\ attempt.error # "NoExit"
             /\ \/ e \in Tried
                \/ \E area \in Areas : TriedIn(area, Place[e][area]) >= Limits[area]
<1>1. SelectionInv /\ [ConnectNext]_connectVars => [Justified]_connectVars
  <2> SUFFICES ASSUME SelectionInv, ConnectNext,
                      NEW list \in Versions,
                      attempt'.error = "NoExit", attempt'.phase = "idle", ~At("idle"),
                      list = IF At("exits") THEN cached["exits"] ELSE update["exits"].list,
                      NEW e \in Listed[list] \cap attempt.selector
               PROVE  /\ attempt.error # "NoExit"
                      /\ \/ e \in Tried
                         \/ \E area \in Areas : TriedIn(area, Place[e][area]) >= Limits[area]
    OBVIOUS
  <2>0. AttemptIsKnown /\ attempt.phase # "idle"
    BY DEF SelectionInv, At
  <2>1. /\ Candidates(list) = {}
        /\ attempt.phase \in {"exits", "await exits"}
    <3>1. ASSUME NEW phase \in Phases \ {"idle"}, Enters(phase) PROVE FALSE
      BY <2>0, <3>1, AttemptEnters
    <3>2. ASSUME NEW error \in {"none", "other"}, FailsWith(error) PROVE FALSE
      BY <3>2, AttemptEnds
    <3>3. ASSUME NEW l, SelectNextExit(l) PROVE Candidates(l) = {}
      <4>1. ~Enters("request")
        BY <3>1 DEF Phases
      <4> QED
        BY <3>3, <4>1 DEF SelectNextExit
    <3>4. ASSUME AttemptStep
          PROVE  Candidates(list) = {} /\ attempt.phase \in {"exits", "await exits"}
      <4>1. CASE ChooseExit
        <5>1. cached["exits"] # None /\ At("exits")
          BY <3>1, <4>1 DEF ChooseExit, Phases
        <5> QED
          BY <3>3, <4>1, <5>1 DEF ChooseExit, At
      <4>2. CASE AwaitExits
        <5>1. update["exits"].state # "failed" /\ At("await exits") /\ ~At("exits")
          BY <3>2, <4>2 DEF AwaitExits, At
        <5> QED
          BY <3>3, <4>2, <5>1 DEF AwaitExits, At
      <4>3. CASE CheckRelays \/ AwaitRelays \/ TunnelRequested \/ SendToken
        BY <3>1, <3>2, <4>3
           DEF CheckRelays, AwaitRelays, TunnelRequested, SendToken, Phases
      <4>4. CASE Race
        <5>1. \A r : attempt' = [attempt EXCEPT !.phase = "exits", !.relay = r] => FALSE
          BY <2>0 DEF AttemptIsKnown
        <5> QED
          BY <3>2, <4>4, <5>1 DEF Race
      <4>5. CASE TokenConfirmed
        <5>1. attempt' = [attempt EXCEPT !.phase = "handshake", !.resends = Resends - 1] => FALSE
          BY <2>0 DEF AttemptIsKnown
        <5> QED
          BY <3>2, <4>5, <5>1 DEF TokenConfirmed
      <4>6. CASE FirstHandshake
        <5>1. attempt' = [attempt EXCEPT !.resends = @ - 1] => FALSE
          BY <2>0 DEF AttemptIsKnown
        <5> QED
          BY <3>1, <3>2, <4>6, <5>1 DEF FirstHandshake, Phases
      <4>7. CASE FirstPong
        BY <3>1, <3>2, <4>7 DEF FirstPong, Phases
      <4> QED
        BY <3>4, <4>1, <4>2, <4>3, <4>4, <4>5, <4>6, <4>7 DEF AttemptStep
    <3>5. ~ \E selector \in Selectors : StartAttempt(selector)
      BY <2>0 DEF StartAttempt, At
    <3>6. ~TunnelFails
      BY <3>2 DEF TunnelFails
    <3>7. ~ \E clear \in BOOLEAN : DropAttempt(clear)
      BY DEF DropAttempt, IdleAttempt
    <3>8. ~ \E k \in Lists : UpdateEnds(k) \/ ListChanges(k)
      BY <2>0 DEF UpdateEnds, ListChanges
    <3> QED
      BY <3>4, <3>5, <3>6, <3>7, <3>8 DEF ConnectNext
  <2>2. Excluded(e)
    BY <2>1 DEF Candidates
  <2>3. e \in Exits
    BY <2>0 DEF AttemptIsKnown
  <2>4. /\ selected.exits = Tried
        /\ \A area \in Areas : selected.counts[area] = [p \in Places(area) |-> TriedIn(area, p)]
    BY DEF SelectionInv, SelectionIsCounted
  <2>5. \A area \in Areas : selected.counts[area][Place[e][area]] = TriedIn(area, Place[e][area])
    BY <2>3, <2>4 DEF Places
  <2>6. e \in Tried \/ \E area \in Areas : TriedIn(area, Place[e][area]) >= Limits[area]
    BY <2>2, <2>4, <2>5 DEF Excluded
  <2>7. attempt.error # "NoExit"
    <3> SUFFICES ASSUME attempt.error = "NoExit" PROVE FALSE
      OBVIOUS
    <3>1. Tried = {} /\ \A area, p : TriedIn(area, p) = 0
      BY <2>1, NothingTried DEF SelectionInv, NoExitClears
    <3>2. \A area \in Areas : Limits[area] \in Nat \ {0}
      BY SelectionConstants
    <3> QED
      BY <2>6, <3>1, <3>2
  <2> QED
    BY <2>6, <2>7
<1>2. [][Justified]_connectVars => NoExitIsJustified
  BY PTL DEF NoExitIsJustified
<1> QED
  BY <1>1, <1>2, SelectionInvIsInvariant, PTL DEF ConnectSpec
=============================================================================
