SPECIFICATION FairSpec
CONSTANTS
    Tools <- MCTools
    Servers <- MCServers
    Nonces <- MCNonces
    Policies <- ReloadPolicies
    Requests <- ReloadRequests
    Credentials = {}
    CfgServer = "files"
    LaunchDigest = "d1"
    MaxCalls = 2
    MaxReloads = 1
CHECK_DEADLOCK FALSE
INVARIANTS
    OneGeneration
    PolicyRespected
    LedgerFollowsReloads
PROPERTIES
    ImplementsContract
    
