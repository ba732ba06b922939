\* Three calls on two files.
CONSTANTS
  Calls = {c1, c2, c3}
  Paths = {p1, p2}
  Earlier = Earlier
  NoFile = NoFile
  NoPath = NoPath
SPECIFICATION Spec
SYMMETRY Symmetry
INVARIANTS
  TypeOK
  WrittenIsThere
  ReadIsLastWrite
  DamageIsExplained
CHECK_DEADLOCK FALSE
