SPECIFICATION Spec
CONSTANTS
    Tools <- MCTools
    Servers <- MCServers
    Nonces <- MCNonces
    Policies <- SessionPolicies
    Requests <- SessionRequests
    Credentials = {"ownership", "lineage"}
    CfgServer = "files"
    LaunchDigest = "d1"
    MaxCalls = 3
    MaxReloads = 1
CHECK_DEADLOCK FALSE
INVARIANTS
    DelegationExact
    GrantIsFresh
    SessionRulesHold
