SPECIFICATION Spec
CONSTANTS
  Steps <- MCSteps
  MaxCalls = 2
  MaxReloads = 2
  ForcedOn = FALSE
CHECK_DEADLOCK FALSE
INVARIANTS
    AllowIsJustified
    ReceiptChainHolds
    AccountHolds
