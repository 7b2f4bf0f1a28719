SPECIFICATION Spec
CONSTANTS
  p1 = p1
  p2 = p2
  s1 = s1
  s2 = s2
  NoSink = NoSink
  Instances = {p1, p2}
  Sinks = {s1, s2}
  MaxRefs = 2
  MaxFailures = 2
SYMMETRY MCSymmetry
INVARIANTS
  TypeOK
  RefsAccounted
  UnloadSafe
  SinksBalanced
