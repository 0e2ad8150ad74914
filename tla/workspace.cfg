SPECIFICATION Spec
CONSTANTS
  e1 = e1
  r1 = r1
  n1 = n1
  m1 = m1
  x1 = x1
  s1 = s1
  s2 = s2
  Absent = Absent
  NodeId = {e1, r1, n1, m1, x1}
  RawInput = {r1}
  Evidence = {e1}
  SchemeId = {s1, s2}
  Object = {e1, r1, n1, m1, x1, s1, s2}
  Rows = {"manual"}
  Starter <- MCStarter
  NodeDrafts <- MCNodeDrafts
  SchemeDrafts <- MCSchemeDrafts
  Movable <- MCMovable
  MaxChanges = 3
INVARIANTS
  ExecutableIsCurrent
  RunLocksTheValidated
PROPERTIES
  DeactivationIsExact
CHECK_DEADLOCK FALSE
