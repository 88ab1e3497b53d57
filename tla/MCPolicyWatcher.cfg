SPECIFICATION FairSpec
CONSTANTS
    Changes <- AllChanges
    MaxEdits = 4
CHECK_DEADLOCK FALSE
INVARIANTS
    CallSeesOneVersion
PROPERTIES
    EditIsPublished
