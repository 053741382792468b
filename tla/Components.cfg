SPECIFICATION AllSpec
CONSTANTS
  t1 = t1
  t2 = t2
  t3 = t3
  NoMessage = NoMessage
  Requests = {t1, t2, t3}
  Asked <- TheRequests
  Providers = {1, 2}
  MaxUpsets = 2
  u1 = u1
  u2 = u2
  u3 = u3
  Uploads = {u1, u2, u3}
  ContentOf <- TheUploads
  NeedsDecoder = {u1}
  NoJob = NoJob
  MaxRetainedJobs = 1
  MaxStops = 2
  Sections = {"server", "models"}
  Fields = {1, 2}
  Rests = {1}
  LeftOut = LeftOut
  Override = 1
  Saves = {s1, s2, s3}
  Nobody = Nobody
  MaxMishaps = 1
  Texts = {1, 2}
  Histories <- TheHistories
  Recent = 4
  Budgets = {3, 5}
  FixedSizes = {1, 2}
  MaxEdits = 2
  MaxAccidents = 2
  d1 = d1
  l1 = l1
  l2 = l2
  Devices = {d1, d2, d3}
  Links = {l1, l2}
  DeviceOf <- BothOfOne
  MaxCodes = 3
  Memories = {m1, m2}
  Old = {m1, m2}
  Contents = {"ram 16", "RAM 16", "ram 32"}
  NormalOf <- Spelling
  SubjectOf <- Subject
  NoSubject = "none"
  NoMemory = NoMemory
  Attached = {m1}
  IncludeInactive = TRUE
  TopK = 2
  MaxWrites = 2
  Versions = {1, 2, 3, 4, 5, 6, 7, 8, 9}
  Transactional = {4, 5, 6, 7, 8}
  MaxStarts = 3
  c1 = c1
  c2 = c2
  c3 = c3
  NoGrant = NoGrant
  NoRequest = NoRequest
  Calls = {c1, c2}
  Offers <- AnyTools
  MaxSessions = 2
  MaxAccepted = 2
  MaxEntries = 1
  MaxSpent = 1
  MaxTasks = 1
  MaxTerminals = 1
  Overlap = FALSE
  p1 = p1
  p2 = p2
  Profiles = {p1, p2}
  Saved <- SavedList
  Entered <- EnteredLists
  NoProfile = NoProfile
  Pending = Pending
  Starters = {s1, s2}
  OldDatabase = "nozomi.db"
  NewDatabase = "nivelle.db"
  OtherFiles = {"settings"}
  MaxOpenings = 3
  MaxLegacyWrites = 1
  ArtifactSize = 2
  DownloadAttempts = 3
  MaxInstalls = 3
  MaxAlterations = 1
  la = la
  lb = lb
  Launchers = {la, lb}
  LocalEndpoint = TRUE
  RingCapacity = 3
  Hop = 2
  QueueCapacity = 2
  ChunkSizes = {1, 2, 4}
  MaxSamples = 8
  MaxCaptures = 2
  Cores = {k1, k2}
  Nothing = Nothing
  MaxTurns = 2
  MaxDeltas = 2
  MaxFaults = 1
INVARIANTS
  AllTypesOK
  
  ConversationHasOneTurn
  RetryMeansInterrupted
  NoSplicedAnswer
  OneJobPerContent
  
  RevocationEndsSockets
  OneFactIsTold
  OutcomesAreTrue
  RetryFollowsIntent
  NothingIsStranded
  ViewIsFaithful
  UpgradeIsWhole
  RingKeepsLatest
PROPERTY AnAdminRemains
CHECK_DEADLOCK FALSE
