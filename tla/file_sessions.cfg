SPECIFICATION Spec
CONSTANTS
  Proc = {p1, p2}
  Value = {a, b}
  Inode = {i1, i2, i3, i4}
  NoFile = NoFile
  NoSession = NoSession
  Torn = Torn
  Budget <- Failures
SYMMETRY Symmetry
INVARIANTS TypeOK ReadsWhole DurableWhole NoStrayTemps
PROPERTY ImplementsRegister
