CONSTANTS
  t1 = t1
  t2 = t2
  k1 = k1
  c1 = c1
  c2 = c2
  c3 = c3
  q1 = q1
  q2 = q2
  q3 = q3
  q4 = q4
  p1 = p1
  p2 = p2
  h1 = h1
  h2 = h2
  a1 = a1
  a2 = a2
  n1 = n1
  n2 = n2
  o1 = o1
  r1 = r1
  read = read
  del = del
  SdkTasks = {t1, t2}
  SdkGrantIds = {k1}
  SdkLifetime = 2
  SdkRefresh = 1
  SdkRetries = 1
  SdkLag = 1
  SdkPatience = 1
  LimTasks = {t1, t2}
  LimBurst = 2
  LimPeriod = 2
  LimMinute = 3
  LimLoads = 2
  BrCalls = {c1, c2, c3}
  BrConfigs <- MCBrConfigs
  IfRequests = {q1, q2, q3, q4}
  IfMax = 2
  HlProbes = {p1, p2}
  McpIds = 2
  McpGrants = 2
  McpCalls = {c1}
  McpLag = 1
  McpPatience = 1
  McpLifetime = 2
  McpMargin = 1
  DemoTries = 2
  DemoPolls = 3
  DemoGrants = 2
  RegTasks = {h1, h2}
  RegAgents = {a1, a2}
  RegManifests <- MCManifests
  RegOtps = {o1}
  Replicas = {r1}
  PageTasks = {t1, t2}
  PageCaps = {read, del}
  PageTwoStep = {del}
  KeyVersions = 3
  EnvDays = {0, 5, 6}
  EnvDayLists = {{}, {5}, {5, 7}}
  EnvHour = {0, 1, 6, 9, 17, 22, 23, 24}
  EnvRates = {0, 1, 7, 600, 40000, 90000}
SPECIFICATION PartsSpec
CHECK_DEADLOCK FALSE
INVARIANT PartsTypeOK
INVARIANT SdkEndedGrantFades
INVARIANT LimRateHeld
INVARIANT BrMissesBounded
INVARIANT IfHeld
INVARIANT McpServesApproved
INVARIANT McpIdentityKept
INVARIANT McpRevokedFades
INVARIANT DemoServedOnlyGranted
INVARIANT DemoNeedsFailure
INVARIANT RegOtpOnce
INVARIANT RegDeletionHolds
INVARIANT PageHighRiskConfirmed
INVARIANT PageTellsTruth
INVARIANT EnvAsSaid
INVARIANT KeyPublishedVerifies
PROPERTY SdkServedAgain
PROPERTY BrRecovers
PROPERTY HlRouting
PROPERTY RegFirstStays
