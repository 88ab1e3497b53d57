SPECIFICATION Spec
CONSTANTS
    Tools = {t1, t2}
    Modes = {"prompt", "late", "cli"}
    MaxRequests = 3
    MaxOthers = 1
    MaxCrashes = 1
    MaxYeses = 2
    MaxFailures = 1
CHECK_DEADLOCK FALSE
INVARIANTS
    GrantWasAnswered
    LateAnswersAreBound
