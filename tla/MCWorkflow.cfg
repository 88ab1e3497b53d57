SPECIFICATION WorkflowSpec
CONSTANTS
  c1 = c1 c2 = c2 v1 = v1 v2 = v2 v3 = v3
  Contracts = {c1, c2}
  Task <- MCTask
  Versions = {v1, v2, v3}
  Changes <- MCChanges
  Escaping = {"l"}
  Bases = {"b1", "b2"}
  Start <- MCStart
  Runners = {"r1", "r2"}
  ReviewPool <- MCReviewPool
  MaxReviews = 3
  Budgets <- MCBudgets
CHECK_DEADLOCK FALSE
INVARIANTS
    EvidenceHolds
    ReviewsHold
PROPERTIES
    NewSpecReviewStartsOver
