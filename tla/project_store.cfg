SPECIFICATION ImportSpec
CONSTANTS
  i1 = i1
  i2 = i2
  w1 = w1
  c1 = c1
  c2 = c2
  c3 = c3
  s1 = s1
  p1 = p1
  p2 = p2
  main = main
  worker = worker
  report = report
  owner1 = owner1
  other = other
  None = None
  Absent = Absent
  Partial = Partial
  Thread = {main, worker}
  Tx = {i1, i2, w1}
  ImportTx <- MCImportTx
  Content <- MCContent
  Raw <- MCRaw
  Asked <- MCAsked
  Session = {s1}
  Pilot = {p1, p2}
  SessionOf <- MCSessionOf
  PilotOf <- MCPilotOf
  Requester = main
  Report = report
  Meta = {report, other}
  Digest <- MCDigest
  Owner <- MCOwner
  Put <- MCPut
  MaxFaults = 1
INVARIANTS
  PayloadKept
  RevisionUsable
  TreesAreAccounted
PROPERTIES
  RecoveredClean
  ImplementsStore
CHECK_DEADLOCK FALSE
