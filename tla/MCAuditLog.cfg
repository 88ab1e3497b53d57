SPECIFICATION Spec
CONSTANTS
    Calls = {c1, c2}
    NoCall = NoCall
    MaxRecords = 4
INVARIANTS
    ChainIntact
PROPERTIES
    NothingAfterDamage
    SyncedLinesStay
    ImplementsLedger
