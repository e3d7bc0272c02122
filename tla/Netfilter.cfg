SPECIFICATION FilterSpec
CONSTANT Flows <- MCFlows
INVARIANTS
  EgressIsDocumented
  IngressIsSolicited
  TunnelIsNotImpersonated
  ExemptFlowsPass
