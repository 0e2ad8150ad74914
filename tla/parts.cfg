SPECIFICATION PartsSpec
CONSTANTS
  o1 = o1
  c1 = c1
  c2 = c2
  k1 = k1
  k2 = k2
  at1 = at1
  at2 = at2
  ok = ok
  bad = bad
  Absent = Absent
  Object = {o1}
  Client = {c1, c2}
  Content = {k1, k2}
  Layout = {at1, at2}
  Notes = {ok, bad}
  Proposal <- MCProposal
  MaxEvents = 6
  Processes = {p1, p2}
  Packages = {s1, s2}
  Migrations = 2
  MaxStarts = 4
  None = None
SYMMETRY MCSymmetry
INVARIANTS
  RevisionNamesContent
  StartsAgain
PROPERTIES
  EditsAreInformed
  ImplementsTimeline
CHECK_DEADLOCK FALSE
