------------------------------ MODULE OsCalls ------------------------------
(***************************************************************************)
(* What the tunnel may rely on when it configures the operating system     *)
(* (rustlib/src/os/os_trait.rs, trait Os): a successful call has done what *)
(* it was asked to do, a failed one any part of it, and none does the      *)
(* opposite.  TunnelState is written against this; LinuxOs implements it.  *)
(***************************************************************************)
CONSTANTS Configs, None

VARIABLES
  call,     \* the last call: what it is, its argument and its outcome
  capture,  \* user traffic is captured
  carrier   \* the configuration whose tunnel gets captured traffic

vars == <<call, capture, carrier>>

Idle == [op |-> "none", arg |-> None, outcome |-> "idle"]

Init ==
  /\ call = Idle
  /\ capture \in BOOLEAN
  /\ carrier = None

\* Calls do not overlap.
Begin ==
  /\ call.outcome # "pending"
  /\ \/ \E c \in Configs : call' = [op |-> "set", arg |-> c, outcome |-> "pending"]
     \/ call' = [op |-> "unset", arg |-> None, outcome |-> "pending"]
  /\ UNCHANGED <<capture, carrier>>

\* Part of what is asked for takes effect.
Effect ==
  \/ /\ call.op = "set"
     /\ capture' \in {capture, TRUE} /\ carrier' \in {carrier, call.arg}
  \/ /\ call.op = "unset"
     /\ capture' \in {capture, FALSE} /\ UNCHANGED carrier

Progress ==
  /\ call.outcome = "pending"
  /\ Effect
  /\ UNCHANGED call

Succeed ==
  /\ call.outcome = "pending"
  /\ Effect
  /\ call' = [call EXCEPT !.outcome = "ok"]
  /\ capture' = (call.op = "set")
  /\ call.op = "set" => carrier' = call.arg

Fail ==
  /\ call.outcome = "pending"
  /\ Effect
  /\ call' = [call EXCEPT !.outcome = "failed"]

\* The service process ends; what it leaves may capture traffic or not, and the
\* next process may lose it.
End ==
  /\ call' = Idle
  /\ capture' \in {capture, FALSE}
  /\ carrier' = None

Next == Begin \/ Progress \/ Succeed \/ Fail \/ End

Spec == Init /\ [][Next]_vars
=============================================================================
