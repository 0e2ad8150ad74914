\* Every kind of request, sent again at any time, an import, a change behind the session, crashes.
CONSTANTS
  o1 = o1
  o2 = o2
  c1 = c1
  c2 = c2
  t1 = t1
  t2 = t2
  t3 = t3
  Object = {o1, o2}
  Starter = {o1}
  Content = {c1, c2}
  Absent = Absent
  None = None
  Tx = {t1, t2, t3}
  Kinds = {"edit", "undo", "redo", "save", "discard"}
  MayRepeat = TRUE
  MaxImports = 1
  MaxOutside = 1
  MaxCrashes = 2
SPECIFICATION Spec
SYMMETRY SessionSymmetry
INVARIANTS
  OpeningSucceeds
  CleanShowsCanonical
  EffectOnceInSession
  EndsOnce
PROPERTIES
  SaveOverwritesNothing
  ImplementsDrafts
