SPECIFICATION Services
CONSTANTS
  a1 = a1
  a2 = a2
  b1 = b1
  w1 = w1
  w2 = w2
  kbA = kbA
  kbB = kbB
  kbW = kbW
  q1 = q1
  q2 = q2
  c1 = c1
  c2 = c2
  Chunks <- MCChunks
  Clients = {u1, u2}
  Workers = {p1, p2}
  MaxWrites = 2
  MaxFaults = 1
  IndexedChunks = {a1, a2, b1}
  Pages = {w1, w2}
  Summary = GraphContext
  RetrievalKbs = {kbA, kbB, kbW}
  KbOf <- MCKbOf
  WikiKbs = {kbW}
  FileOf <- MCFileOf
  LinksOf <- MCLinksOf
  Contentless = {a2}
  LowQuality = {a2}
  OffTopic = {b1}
  ProjectContext = {a1}
  Queries = {q1, q2}
  KindOf <- MCKindOf
  Requests <- MCRequests
  TopK = 2
  RerankTopK = 2
  MinCandidates = 1
  CandidateFactor = 0
  MaxCandidates = 2
  Alphabet = {"<", "/", ">"}
  Open <- MCOpen
  Close <- MCClose
  MaxText = 7
  MaxChunk = 3
  Addresses = {addr1}
  Cost = 2
  Full = 4
  Interval = 4
  MaxTime = 9
  Callers = {z1, z2}
  KnowledgeBases = {kbA, kbB}
  Orgs = {o1}
  Users <- MCUsers
  UserOf <- MCUserOf
  Questions <- MCQuestions
  BlankId = " "
  PageSize = 1
  DefaultRole = 1
  Rows <- MCRows
  MaxRequests = 2
  MaxGrants = 1
  MaxFailures = 1
  e1 = e1
  e2 = e2
  Enrichments = {e1, e2}
  MaxUploads = 2
  MaxStatusFaults = 1
  d1 = d1
  d2 = d2
  d3 = d3
  WikiSources = {d1, d2, d3}
  Wikis = {kbA, kbW}
  WikiOf <- MCWikiOf
  Outputs <- MCOutputs
  IndexPath = "index"
  MaxWikiFaults = 1
  r1 = r1
  r2 = r2
  r3 = r3
  x1 = x1
  x2 = x2
  CodeClients = {x1, x2}
  Repos = {r1, r2, r3}
  OnDisk = {r1, r2}
  LabelOf <- MCLabelOf
  Code <- MCCode
  FunctionContains <- MCFunctionContains
  MaxIndexers = 2
  MaxCallRows = 2
  MaxRepoRequests = 2
  MaxRepoFaults = 1
  y1 = y1
  y2 = y2
  Admins = {y1, y2}
  Forms <- MCForms
  Initial <- MCInitial
  Streaming = {"m2"}
  MaxForms = 2
  MaxFailedCalls = 1
  MaxRestarts = 1
  o1 = o1
  z1 = z1
  z2 = z2
  n1 = n1
  n2 = n2
  m1 = m1
  m2 = m2
  m3 = m3
  m4 = m4
  v1 = v1
  Builds = {n1, n2}
  GraphOf <- MCGraphOf
  ChunksOf <- MCChunksOf
  Deletions = {v1}
  GraphKbs = {kbA, kbB}
  Names = {"k8s", "etcd", "k8s api", "r"}
  Says <- MCSays
  ContainsName <- MCContains
  Short = {"r"}
  MaxRows = 4
  GraphTopK = 2
  Other = "Other"
  Concurrency = 2
  MaxDrawn = 3
  MaxGraphFaults = 1
INVARIANTS
  ScopeRespected
  CommonVerdictKept
  AnswerHasEvidence
  HidesThinking
  HistoryKept
  IndexHoldsOwnText
  StatusShown
  LinksResolved
  IndexShowsCode
  AckSurvives
  ToolsServed
  VerdictHeld
  BuiltIsFound
  TextKept
  HeadingsKept
PROPERTIES
  AdmitsExactly
