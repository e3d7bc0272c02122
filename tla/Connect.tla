------------------------------ MODULE Connect ------------------------------
(***************************************************************************)
(* Attempts to connect: ClientState::connect with new_tunnel (rustlib/src/ *)
(* client_state.rs), the choice of an exit (exit_selection.rs) and the     *)
(* session's first steps (quicwg.rs).                                      *)
(*                                                                         *)
(* The loop of tunnel_state.rs makes one attempt after another and drops   *)
(* an attempt at any await when the target changes.  An attempt spawns     *)
(* updates of both lists, which go on without it, picks the fastest relay  *)
(* (RelayRace.tla), an exit, and requests a tunnel.  Of an update or a     *)
(* request only the outcome matters here; ApiClient.tla has its steps.     *)
(***************************************************************************)
EXTENDS Integers, Sequences, FiniteSets

CONSTANTS
  None,
  Exits, Relays,
  Versions,   \* of the list of exits
  Place,      \* of an exit or a relay: [datacenter, city, country]
  Tier,       \* of an exit
  Preferred,  \* the exits that a relay prefers
  Listed,     \* the exits in each version of the list
  Selectors,  \* an ExitSelector is the set of the exits that it matches
  Limits,     \* how often a datacenter, a city and a country may be selected
  Resends     \* how often the first WireGuard message is sent

Areas == {"datacenter", "city", "country"}

ASSUME SelectionConstants ==
  /\ Versions \subseteq Nat \ {0}
  /\ Listed \in [Versions -> SUBSET Exits]
  /\ Selectors \subseteq SUBSET Exits
  /\ Tier \in [Exits -> 0..3]
  /\ Preferred \in [Relays -> SUBSET Exits]
  /\ Limits \in [Areas -> Nat \ {0}]
  /\ Resends \in Nat \ {0}

VARIABLES
  cached,    \* the version of the cached list of exits, whether relays are cached
  update,    \* the updates that the last attempt spawned, with what they return
  attempt,   \* how far the attempt is, and whether the last one found no exit
  selected,  \* ExitSelectionState: the exits, and the count of every area
  tries      \* the exits that attempts chose since the selection was cleared

connectVars == <<cached, update, attempt, selected, tries>>

Lists == {"exits", "relays"}

ListVersions == [exits |-> Versions, relays |-> {1}]

NoUpdate == [state |-> "none", list |-> None]

IdleAttempt ==
  [phase |-> "idle", selector |-> {}, relay |-> None, resends |-> 0,
   error |-> "none"]

Places(area) == {Place[e][area] : e \in Exits}

NothingSelected ==
  [exits |-> {}, counts |-> [area \in Areas |-> [p \in Places(area) |-> 0]]]

ConnectInit ==
  /\ cached = [k \in Lists |-> None]
  /\ update = [k \in Lists |-> NoUpdate]
  /\ attempt = IdleAttempt
  /\ selected = NothingSelected
  /\ tries = <<>>

At(phase) == attempt.phase = phase

Enters(phase) == attempt' = [attempt EXCEPT !.phase = phase]

FailsWith(error) == attempt' = [IdleAttempt EXCEPT !.error = error]

SelectionKept == UNCHANGED <<selected, tries>>

ClearSelection ==
  /\ selected' = NothingSelected
  /\ tries' = <<>>

-----------------------------------------------------------------------------
(* Lists and relays                                                        *)

\* new_tunnel and select_relay spawn an update of each list.  (Bound: those of
\* an earlier attempt have ended.)
StartAttempt(selector) ==
  /\ At("idle")
  /\ \A k \in Lists : update[k].state # "running"
  /\ attempt' = [attempt EXCEPT !.phase = "relays", !.selector = selector]
  /\ update' = [k \in Lists |-> [NoUpdate EXCEPT !.state = "running"]]
  /\ SelectionKept
  /\ UNCHANGED cached

\* maybe_update_exits, maybe_update_relays: the result is the list that was
\* found fresh or stored.
UpdateEnds(k) ==
  /\ update[k].state = "running"
  /\ \/ /\ update' = [update EXCEPT ![k].state = "failed"]
        /\ UNCHANGED cached
     \/ \E v \in ListVersions[k] :
          /\ update' = [update EXCEPT ![k] = [state |-> "ok", list |-> v]]
          /\ cached' = [cached EXCEPT ![k] = v]
  /\ SelectionKept
  /\ UNCHANGED attempt

\* Other tasks update lists too; another login starts without any.
ListChanges(k) ==
  /\ \E v \in ListVersions[k] \cup {None} : cached' = [cached EXCEPT ![k] = v]
  /\ SelectionKept
  /\ UNCHANGED <<update, attempt>>

\* A cached list is used as it is; without one the update is awaited.
CheckRelays ==
  /\ At("relays")
  /\ Enters(IF cached["relays"] # None THEN "race" ELSE "await relays")
  /\ SelectionKept
  /\ UNCHANGED <<cached, update>>

AwaitRelays ==
  /\ At("await relays")
  /\ update["relays"].state # "running"
  /\ IF update["relays"].state = "failed" THEN FailsWith("other") ELSE Enters("race")
  /\ SelectionKept
  /\ UNCHANGED <<cached, update>>

\* race_relay_handshakes
Race ==
  /\ At("race")
  /\ \/ \E r \in Relays :
          attempt' = [attempt EXCEPT !.phase = "exits", !.relay = r]
     \/ FailsWith("other")
  /\ SelectionKept
  /\ UNCHANGED <<cached, update>>

-----------------------------------------------------------------------------
(* The choice of an exit                                                   *)

\* An area is full only when its limit is exceeded.
BadExcluded(e) ==
  \/ e \in selected.exits
  \/ \E area \in Areas : selected.counts[area][Place[e][area]] > Limits[area]

\* ExitSelectionState::exclude
Excluded(e) ==
  \/ e \in selected.exits
  \/ \E area \in Areas : selected.counts[area][Place[e][area]] >= Limits[area]

\* ExitSelectionState::rank, as a number; ties are broken at random.
Rank(e, r) ==
  (IF e \in Preferred[r] THEN 16 ELSE 0)
  + (IF Place[e].city = Place[r].city THEN 8 ELSE 0)
  + (IF Place[e].country = Place[r].country THEN 4 ELSE 0)
  + Tier[e]

Candidates(list) ==
  {e \in Listed[list] \cap attempt.selector : ~Excluded(e)}

Best(candidates, r) ==
  {e \in candidates : \A f \in candidates : Rank(f, r) <= Rank(e, r)}

\* The exclusions stay when no exit is left.
BadSelectNextExit(list) ==
  LET candidates == Candidates(list) IN
  IF candidates = {}
  THEN FailsWith("NoExit") /\ SelectionKept
  ELSE \E e \in Best(candidates, attempt.relay) :
         /\ selected' = [exits  |-> selected.exits \cup {e},
                         counts |-> [area \in Areas |->
                           [selected.counts[area] EXCEPT ![Place[e][area]] = @ + 1]]]
         /\ tries' = Append(tries, e)
         /\ Enters("request")

\* ExitSelectionState::select_next_exit, and the request for a tunnel to the
\* exit it returns.
SelectNextExit(list) ==
  LET candidates == Candidates(list) IN
  IF candidates = {}
  THEN FailsWith("NoExit") /\ ClearSelection
  ELSE \E e \in Best(candidates, attempt.relay) :
         /\ selected' = [exits  |-> selected.exits \cup {e},
                         counts |-> [area \in Areas |->
                           [selected.counts[area] EXCEPT ![Place[e][area]] = @ + 1]]]
         /\ tries' = Append(tries, e)
         /\ Enters("request")

ChooseExit ==
  /\ At("exits")
  /\ IF cached["exits"] = None
     THEN Enters("await exits") /\ SelectionKept
     ELSE SelectNextExit(cached["exits"])
  /\ UNCHANGED <<cached, update>>

AwaitExits ==
  /\ At("await exits")
  /\ update["exits"].state # "running"
  /\ IF update["exits"].state = "failed"
     THEN FailsWith("other") /\ SelectionKept
     ELSE SelectNextExit(update["exits"].list)
  /\ UNCHANGED <<cached, update>>

-----------------------------------------------------------------------------
(* The tunnel                                                              *)

\* The tunnel is granted, or the request fails, or the answer is about another
\* relay or kind of tunnel.
TunnelRequested ==
  /\ At("request")
  /\ Enters("authenticate") \/ FailsWith("other")
  /\ SelectionKept
  /\ UNCHANGED <<cached, update>>

\* send_op with the token of the tunnel, within the time of a step
SendToken ==
  /\ At("authenticate")
  /\ Enters("confirmation") \/ FailsWith("other")
  /\ SelectionKept
  /\ UNCHANGED <<cached, update>>

\* recv_ok_resp: what is not the response is skipped, which does not extend the
\* time of the step.  The first handshake message is sent.
TokenConfirmed ==
  /\ At("confirmation")
  /\ \/ attempt' = [attempt EXCEPT !.phase = "handshake", !.resends = Resends - 1]
     \/ FailsWith("other")
  /\ SelectionKept
  /\ UNCHANGED <<cached, update>>

\* The response is late when no resend is left.
BadFirstHandshake ==
  /\ At("handshake")
  /\ \/ Enters("pong")
     \/ FailsWith("other")
     \/ IF attempt.resends = 0 THEN attempt' = [attempt EXCEPT !.resends = Resends - 1]
        ELSE attempt' = [attempt EXCEPT !.resends = @ - 1]
  /\ SelectionKept
  /\ UNCHANGED <<cached, update>>

\* first_wg_handshake: the response arrives, receiving fails, or the wait for
\* the response times out.
FirstHandshake ==
  /\ At("handshake")
  /\ \/ Enters("pong")
     \/ FailsWith("other")
     \/ IF attempt.resends = 0 THEN FailsWith("other")
        ELSE attempt' = [attempt EXCEPT !.resends = @ - 1]
  /\ SelectionKept
  /\ UNCHANGED <<cached, update>>

\* wait_for_first_pong; maintain starts a new selection once connected.
FirstPong ==
  /\ At("pong")
  /\ \/ Enters("connected") /\ ClearSelection
     \/ FailsWith("other") /\ SelectionKept
  /\ UNCHANGED <<cached, update>>

TunnelFails ==
  /\ At("connected")
  /\ FailsWith("none")
  /\ SelectionKept
  /\ UNCHANGED <<cached, update>>

\* The awaits of an attempt.
Awaiting ==
  {"await relays", "race", "await exits", "request", "authenticate", "confirmation",
   "handshake", "pong", "connected"}

\* The target changes: the attempt is dropped, its updates are not.  Without a
\* target or an interface the selection starts anew.
DropAttempt(clear) ==
  /\ attempt.phase \in Awaiting
  /\ attempt' = IdleAttempt
  /\ IF clear THEN ClearSelection ELSE SelectionKept
  /\ UNCHANGED <<cached, update>>

AttemptStep ==
  \/ CheckRelays \/ AwaitRelays \/ Race \/ ChooseExit \/ AwaitExits
  \/ TunnelRequested \/ SendToken \/ TokenConfirmed \/ FirstHandshake \/ FirstPong

ConnectNext ==
  \/ \E selector \in Selectors : StartAttempt(selector)
  \/ AttemptStep
  \/ TunnelFails
  \/ \E clear \in BOOLEAN : DropAttempt(clear)
  \/ \E k \in Lists : UpdateEnds(k) \/ ListChanges(k)

ConnectSpec == ConnectInit /\ [][ConnectNext]_connectVars

\* Every update ends (ApiClient.tla); relays and exits answer or time out.
FairConnectSpec ==
  /\ ConnectSpec
  /\ WF_connectVars(AttemptStep)
  /\ \A k \in Lists : WF_connectVars(UpdateEnds(k))

-----------------------------------------------------------------------------
(* Properties                                                              *)

Tried == {tries[i] : i \in DOMAIN tries}

TriedIn(area, p) == Cardinality({i \in DOMAIN tries : Place[tries[i]][area] = p})

\* Attempts take turns: across failures, dropped attempts, new lists and changed
\* selectors, no exit is tried again and no area more often than its limit
\* until the selection starts anew.
ExitsTakeTurns ==
  /\ \A i, j \in DOMAIN tries : tries[i] = tries[j] => i = j
  /\ \A area \in Areas : \A p \in Places(area) : TriedIn(area, p) <= Limits[area]

\* "No exit" is reported only when every exit that matches has had its turn or
\* lies in an area that had its share, and then not twice in a row: if one
\* matches, the next attempt finds it.
NoExitIsJustified ==
  [][\A list \in Versions :
       /\ attempt'.error = "NoExit" /\ attempt'.phase = "idle" /\ ~At("idle")
       /\ list = IF At("exits") THEN cached["exits"] ELSE update["exits"].list
       => \A e \in Listed[list] \cap attempt.selector :
            /\ attempt.error # "NoExit"
            /\ \/ e \in Tried
               \/ \E area \in Areas : TriedIn(area, Place[e][area]) >= Limits[area]]_connectVars

\* An attempt ends, connected or not, whether or not lists are cached and however
\* they change under it.
Finished == {"idle", "connected"}

EveryAttemptEnds == attempt.phase \notin Finished ~> attempt.phase \in Finished
=============================================================================
