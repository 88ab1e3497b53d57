SPECIFICATION Spec
CONSTANTS
  MaxGrantDepth = 2
  Policies <- MCPolicies
  Reloads <- MCReloads
  Envelopes <- MCEnvelopes
  Contexts <- MCContexts
  ClientID = "a1"
  DayLength = 2
  MaxTime = 2
  MaxCalls = 1
  MaxReloads = 1
CHECK_DEADLOCK FALSE
INVARIANTS
    RulesAreApplied
    LineageHolds
    ApprovedOnFreshCredentials
    OwnershipHolds
