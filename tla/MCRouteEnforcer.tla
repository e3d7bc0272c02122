-------------------------- MODULE MCRouteEnforcer --------------------------
(* Two families, of which one has a resolver; capture off, on, and on with   *)
(* the resolver.                                                             *)
EXTENDS RouteEnforcer

MCFamilies == <<"v4", "v6">>
MCResolvers == {"dns4"}
MCFamilyOf == [r \in MCResolvers |-> "v4"]
MCPolicies == {Off, [engaged |-> TRUE, dns |-> {}], [engaged |-> TRUE, dns |-> MCResolvers]}
=============================================================================
