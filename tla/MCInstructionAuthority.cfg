SPECIFICATION AuthoritySpec
CONSTANTS
  Contents = {"c1", "c2"}
  Promoters = {"p1", "p2"}
  Requests = {"r1", "r2"}
  Registry <- MCRegistry
  Transforms <- MCTransforms
  MaxHistoryHops = 2
  MaxLifetime = 2
  FutureSkew = 1
  SignedHops = 1
  SignedEdits = 0
  MaxTampers = 2
  MaxMade = 3
  MaxSigned = 1
  MaxClock = 2
  MaxAdmitted = 2
CHECK_DEADLOCK FALSE
INVARIANTS
    AuthorityHolds
    VerificationSound
    AdmittedOnceAsSigned
