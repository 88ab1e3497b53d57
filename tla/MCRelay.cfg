SPECIFICATION Spec
CONSTANTS
    Transports = {"stdio", "remote"}
    ServerLines <- MCServerLines
    Generations <- MCGenerations
    PreviewLength = 2
    MaxLines = 2
    Budgets <- MCBudgets
    Urls = 2
    Writers = 2
    BufferSize = 1
    Tries = 2
CHECK_DEADLOCK FALSE
INVARIANTS
    
    RelayedCallIsInLedger
    SecretsStay
    DeliveriesHold
PROPERTIES
    Progress
