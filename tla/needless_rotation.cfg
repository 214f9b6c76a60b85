SPECIFICATION Spec
CONSTANTS
  c1 = c1
  c2 = c2
  ann = ann
  bob = bob
  ci = ci
  NoToken = NoToken
  Client = {c1}
  User = {ann, bob}
  Service = {ci}
  Programs <- OneProgram
  Files <- AnnsFile
  Events = 2
PROPERTY RotatesOnlyIfRefused
