SPECIFICATION Spec
CONSTANTS
  c1 = c1
  c2 = c2
  Caller = {c1, c2}
  Requests <- AnyAndRead
  Clients <- Default
  Expiries = 1
INVARIANT RejectionKeepsItsCode
