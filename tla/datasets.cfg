SPECIFICATION Spec
CONSTANTS
  g1 = g1
  g2 = g2
  d1 = d1
  d2 = d2
  Unset = Unset
  Nil = Nil
  Torn = Torn
  Goroutine = {g1, g2}
  Dataset = {d1, d2}
  Requests <- Kept
  Attempts = 2
  Calls = 3
INVARIANTS TypeOK HandleDecides CommitsAddUp
SYMMETRY Symmetry
CHECK_DEADLOCK FALSE
