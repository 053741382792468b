SPECIFICATION WorkersSpec
CONSTANTS
  c1 = c1
  c2 = c2
  c3 = c3
  NoGrant = NoGrant
  NoRequest = NoRequest
  Calls = {c1, c2}
  Offers <- FewTools
  MaxSessions = 2
  MaxAccepted = 2
  MaxEntries = 1
  MaxSpent = 1
  MaxTasks = 1
  MaxTerminals = 1
  Overlap = FALSE
  u1 = u1
  u2 = u2
  Uploads = {u1, u2}
  ContentOf <- TheUploads
  NeedsDecoder = {u1}
  NoJob = NoJob
  MaxRetainedJobs = 1
  MaxStops = 2
PROPERTIES
  AgentKeepsPromise
  CallIsAnswered
  FilesAreRemoved
CHECK_DEADLOCK FALSE
