SPECIFICATION BusySpec
CONSTANTS
  p1 = p1
  p2 = p2
  c1 = c1
  c2 = c2
  c3 = c3
  Nobody = Nobody
  Proc = {p1, p2}
  Caller = {c1, c2, c3}
  Home <- MCHome
  Origin <- Shared
  Answers <- Rotates
  Budget <- ExpiryOnly
PROPERTIES Heals ImplementsLineage
