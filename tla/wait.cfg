SPECIFICATION FairSpec
CONSTANTS
  Ceiling = 120
  Slack = 20
  MinSlice = 4
  Floor = 1
  Never = Never
  Deadlines <- Budgets
INVARIANTS TypeOK DecisionIsReal DeadlineIsOwned
PROPERTIES NoHotSpin DecisionReturns DeadlineReturns
CHECK_DEADLOCK FALSE
