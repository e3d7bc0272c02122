----------------------------- MODULE MCConnect -----------------------------
(***************************************************************************)
(* Seven exits for TLC: a datacenter, a city and a country each have one   *)
(* exit more than may be selected there.                                   *)
(***************************************************************************)
EXTENDS Connect

Site(datacenter, city, country) ==
  [datacenter |-> datacenter, city |-> city, country |-> country]

MCPlace ==
  [ber1 |-> Site(1, "ber", "de"), ber2 |-> Site(1, "ber", "de"),
   ber3 |-> Site(2, "ber", "de"), ber4 |-> Site(3, "ber", "de"),
   muc1 |-> Site(4, "muc", "de"), muc2 |-> Site(5, "muc", "de"),
   nyc  |-> Site(6, "nyc", "us"), r    |-> Site(7, "ber", "de")]

MCExits == DOMAIN MCPlace \ {"r"}

MCTier == [e \in MCExits |-> IF e \in {"ber1", "ber4", "muc1"} THEN 2 ELSE 1]

MCPreferred == [r |-> {"nyc"}]

\* The second version lacks an exit.
MCListed == <<MCExits, MCExits \ {"ber4"}>>

\* Any exit, or one.
MCSelectors == {MCExits, {"ber1"}}

MCLimits == [datacenter |-> 1, city |-> 2, country |-> 3]
=============================================================================
