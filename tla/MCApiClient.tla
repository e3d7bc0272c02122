---------------------------- MODULE MCApiClient ----------------------------
(***************************************************************************)
(* ApiClient on small instances.                                           *)
(***************************************************************************)
EXTENDS ApiClient, TLC

MCMaxVersion == [exits |-> 2]

Symmetry == Permutations(Accounts) \cup Permutations(Tasks)

\* Bound: with the third account, for which what requests carried is not all
\* there is, no list is updated.
InPlay == Accounts \cap ({account, token, status} \cup former \cup Carried)

Bounded ==
  Cardinality(InPlay) > 2 =>
    \A k \in Lists : server[k] = 1 /\ lists[k] = None /\ \A t \in Tasks : task[t].kind # k
=============================================================================
