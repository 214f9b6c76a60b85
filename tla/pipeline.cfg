SPECIFICATION FairSpec
CONSTANTS
  c1 = c1
  c2 = c2
  Caller = {c1, c2}
  Requests <- AnyAndRead
  Clients <- Varied
  Expiries = 1
INVARIANTS TypeOK NoSecondEffect AttemptBudget ErrorsTellTheTruth
PROPERTY CallReturns
