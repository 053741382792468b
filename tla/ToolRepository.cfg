SPECIFICATION RepoSpec
CONSTANTS
  c1 = c1
  c2 = c2
  c3 = c3
  s1 = s1
  s2 = s2
  s3 = s3
  link = link
  other = other
  turn = turn
  NoSession = NoSession
  Calls = {c1, c2, c3}
  Sessions = {s1, s2, s3}
  Clients = {link, other}
  ClientOf <- TwoLinks
  Turns = {turn}
  TurnOf <- OneTurn
  MaxCallsPerTurn = 2
  MaxParallelCalls = 1
SYMMETRY CallSymmetry
INVARIANTS
  RepoTypeOK
  ParallelLimit
  TurnLimit
  LedgerAgrees
  AuditTrailIsComplete
PROPERTIES
  OutcomeIsFinal
