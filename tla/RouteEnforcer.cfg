SPECIFICATION FairSpec
CONSTANTS
  Families <- MCFamilies
  Resolvers <- MCResolvers
  FamilyOf <- MCFamilyOf
  Policies <- MCPolicies
INVARIANTS
  AsleepMeansRouted
PROPERTIES
  Converges
