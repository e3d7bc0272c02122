---------------------------- MODULE MCRelayRace ----------------------------
(* Two relays, one of them with two ports, and a third relay that is only   *)
(* waited for: two relays are enough.                                       *)
EXTENDS RelayRace

MCAttempts == {<<"a", 1>>, <<"a", 2>>, <<"b", 1>>, <<"c", 1>>}
MCRoundTrips == {1, 2}
=============================================================================
