SPECIFICATION FairSpec
CONSTANTS
  c1 = c1
  c2 = c2
  ann = ann
  bob = bob
  ci = ci
  NoToken = NoToken
  Client = {c1, c2}
  User = {ann, bob}
  Service = {ci}
  Programs <- TwoPrograms
  Files <- AnyFile
  Events = 2
INVARIANTS TypeOK NoMixedSession SpeaksAsGiven
PROPERTIES LeavesTheFile StartRefusedOnlyIfDead LoginHeals
