SPECIFICATION FairSpec
CONSTANTS
  p1 = p1
  p2 = p2
  c1 = c1
  c2 = c2
  c3 = c3
  Nobody = Nobody
  Proc = {p1, p2}
  Caller = {c1, c3}
  Home <- PairHome
  Origin <- Private
  Answers <- AccessOnly
  Budget <- NoRpcFault
PROPERTIES KeepsRenewable CallReturns
