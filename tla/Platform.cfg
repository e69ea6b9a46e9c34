SPECIFICATION PlatformSpec
CONSTANTS
  u1 = u1
  u2 = u2
  e1 = e1
  e2 = e2
  e3 = e3
  ad2 = ad2
  qr2 = qr2
  cl2 = cl2
  m1 = m1
  r1 = r1
  r2 = r2
  w1 = w1
  f1 = f1
  p1 = p1
  p2 = p2
  ch2 = ch2
  n1 = n1
  n2 = n2
  c1 = c1
  c2 = c2
  open = open
  owned = owned
  unique = unique
  long = long
  short = short
  search = search
  a1 = a1
  b1 = b1
  k1 = k1
  g1 = g1
  o1 = o1
  s1 = s1
  s2 = s2
  s3 = s3
  x1 = x1
  x2 = x2
  t1 = t1
  d1 = d1
  d2 = d2
  i2 = i2
  NoEmail = NoEmail
  NoAppUser = NoAppUser
  NoRole = NoRole
  NoAdminEmail = NoAdminEmail
  NoReplica = NoReplica
  NoParent = NoParent
  Absent = Absent
  DefaultDeny = DefaultDeny
  NoCollection = NoCollection
  NoTable = NoTable
  NoField = NoField
  NoTarget = NoTarget
  Own = Own
  Missing = Missing
  Nobody = Nobody
  NoDocument = NoDocument
  NoRule = NoRule
  Everyone = Everyone
  NoRequest = NoRequest
  NoDecision = NoDecision
  Unset = Unset
  NoCipher = NoCipher
  NoSecret = NoSecret
  Blank = Blank
  NoProvider = NoProvider
  NoUpdate = NoUpdate
  AppUsers = {u1, u2}
  Emails = {e1, e2, e3}
  AppRequests = {q1, q2}
  MaxAppUsers = 2
  MaxKeys = 1
  MaxAppSessions = 4
  MaxAuthTokens = 2
  MaxEnrolments = 1
  ProviderUsers = {y1}
  MaxOAuthStates = 2
  Orgs = {og1}
  MaxInvitations = 2
  InviteRoles = {"admin", "viewer"}
  Admins = {ad1, ad2}
  AdminEmails = {m1, m2}
  AdminRequests = {q1, q2}
  MaxPasswords = 2
  MaxAdminSessions = 2
  Replicas = {r1, r2}
  Subscriptions = {sub1}
  SubscriptionKind <- RecordsOnly
  Filter <- Everything
  Topics = {topic1}
  MaxEvents = 2
  BufferSize = 1
  PollLimit = 1
  MaxRestarts = 1
  MaxInsertFailures = 1
  Uploads = {f1}
  Directs = {f2}
  FileRecords = {rec1}
  Chunks = {1}
  Contents = {"a", "b"}
  Mixed = "mixed"
  Nothing = "nothing"
  Declared = "a"
  ChunkRequests = {w1, w2}
  Parents = {p1, p2}
  Children = {ch1, ch2}
  Amounts = {1}
  Transactions = {tx1, tx2}
  BatchSize = 2
  MaxVersions = 2
  MaxSize = 2
  AnyField <- SomeFields
  LoggedRequests = {q1, q2, q3}
  RefusedRows = {q1}
  LogBuffer = 2
  LogBatch = 2
  RetentionCount = 1
  CollectionNames = {c1, c2}
  SourceTables = {src1}
  FieldNames = {n1, n2}
  Rules = {open, owned}
  Mentions <- AllNames
  Constraints = {unique, long, short, search}
  SchemaWide = {long, short, search}
  ObjectName <- IndexNames
  SearchIndexes = {search}
  CollectionInputs <- TwoInputs
  CollectionEdits <- FewEdits
  Servers = {s1, s2, s3}
  Unmigrated = {s3}
  MaxSchemaChanges = 4
  Editors = {ed1, ed2}
  Secrets = {a1, b1}
  JwtSecrets = {k1, k2}
  ShortSecret = k0
  Origins = {o1}
  Wildcard = any
  LoginProviders = {g1}
  Deployments <- Environs
  Requests <- FewRequests
  MaxSaves = 3
  DocumentIds = {i1, i2}
  FolderRows <- Folders
  Subjects = {x1, x2}
  Tenants = {t1}
  ApiKeys = {key1}
  RuleSets <- ThreeRuleSets
  FolderRules <- FolderRuleSet
  RecordFilters <- SomeFilters
  NewDocuments <- ThreeDocuments
  Readers = {q1}
  MaxStatements = 2
  MaxGrants = 2
  Clients = {cl1, cl2}
  Uploaders = {up1, up2}
  RateWindow = 2
  AuthLimit = 2
  QuotaLimits <- FewQuotas
  ProjectRequests = {qr1, qr2}
  MaxLimiterKeys = 2
  MaxStorage = 2
  FileSizes = {1, 2}
  MaxTime = 4
INVARIANTS PlatformTypeOK OpensOnce RoleIsLastAccepted OneOwner SignedInWithCurrentPassword StreamOnceInOrder NothingSkipped ReferencedIsStored AssembledAsRecorded VersionHolds TotalsHold RequiredFilled DrainedOnClose PoliciesFollowRules ConstraintsAreDeclared SettingsHold
PROPERTIES FamiliesAsPromised SecondFactorAsked AccessTokensEnd RulesDecide WithinWindow
CHECK_DEADLOCK FALSE
