SPECIFICATION Spec
CONSTANTS
  c1 = c1
  c2 = c2
  c3 = c3
  s1 = s1
  s2 = s2
  link = link
  None = None
  NoSession = NoSession
  Calls = {c1, c2, c3}
  Sessions = {s1}
  Clients = {link}
  ClientOf <- OneLink
  Turns = {c1}
  TurnOf <- OneTurn
  MaxCallsPerTurn = 2
  MaxParallelCalls = 1
  NeedsApproval = {}
  TerminalRetention = 1
  MaxCancels = 0
  MaxFaults = 0
  MaxRestarts = 0
  CapabilityChurn = FALSE
  LinkKinds <- AllKinds
INVARIANTS
  NoLateSuccess
