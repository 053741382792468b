SPECIFICATION Spec
CONSTANTS
  c1 = c1
  c2 = c2
  c3 = c3
  s1 = s1
  s2 = s2
  link = link
  None = None
  NoSession = NoSession
  Calls = {c1}
  Sessions = {s1, s2}
  Clients = {link}
  ClientOf <- OneLink
  Turns = {c1, c2}
  TurnOf <- OwnTurn
  MaxCallsPerTurn = 1
  MaxParallelCalls = 1
  NeedsApproval = {c1}
  TerminalRetention = 8
  MaxCancels = 1
  MaxFaults = 0
  MaxRestarts = 0
  CapabilityChurn = TRUE
  LinkKinds <- AllKinds
INVARIANTS
  TypeOK
  ToldIsTerminal
  WaiterIsGuarded
  GoneSessionLeavesNothing
PROPERTIES
  KeepsPromise
