CONSTANTS
  r1 = r1
  r2 = r2
  r3 = r3
  r4 = r4
  r5 = r5
  s1 = s1
  s2 = s2
  c1 = c1
  c2 = c2
  p1 = p1
  p2 = p2
  base = base
  suf1 = suf1
  suf2 = suf2
  u1 = u1
  u2 = u2
  role1 = role1
  perm1 = perm1
  perm2 = perm2
  n1 = n1
  n2 = n2
  w1 = w1
  w2 = w2
  t1 = t1
  t2 = t2
  g1 = g1
  g2 = g2
  j1 = j1
  j2 = j2
  Tokens <- FourTokens
  Requests <- TwoRequests
  NoToken = NoToken
  TTL = 1
  MaxClock = 2
  States <- TwoStates
  Callbacks <- TwoCallbacks
  Servers <- TwoServers
  BaseName = base
  Suffixed <- TwoSuffixes
  Nobody = Nobody
  Accounts <- TwoAccounts
  Admin = Admin
  UserNames <- ThreeNames
  Passwords <- TwoPasswords
  Seed = w1
  NoName = NoName
  NoHash = NoHash
  UserRequests <- TwoRequests
  People <- TwoPeople
  RoleIds <- OneRole
  Permissions <- TwoPermissions
  Changes <- TwoRequests
  Editors <- TwoRequests
  Texts <- TwoTexts
  NoText = NoText
  TagLists <- TwoTagLists
  MaxPostVersion = 3
  Uploads <- TwoUploads
  NoFile = NoFile
  Metas <- OneMeta
  NoMeta = NoMeta
  PostIds <- FourPosts
  SortKeys <- TwoKeys
  Limit = 2
  MaxEdits = 2
  SeqSize = 2
  MaxTime = 3
  MaxBack = 2
  JobIds <- TwoJobs
  NoJob = NoJob
  MaxStreams = 2
  UploadRequests <- FiveRequests
  MaxConcurrentUploads = 2
  MaxUploadQueue = 2
SPECIFICATION Spec
INVARIANTS
  TypeOK
  OneTokenPerSession
  RemovalEndsSessions
  OneAccount
  RacesAreCaught
  ShownIsCurrent
  RemovedRoleIsBare
  FilesExact
  MetaKept
  FeedExact
  IdsIncrease
  PanelExact
  PermitsExact
PROPERTIES
  RefreshTokensOnce
  OAuthCredentialsOnce
  NoLostUpdate
  ImplementsHistory
  ImplementsSemaphore
CHECK_DEADLOCK FALSE
