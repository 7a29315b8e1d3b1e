SPECIFICATION FairSpec
CONSTANTS
  Repetitions = 2
  MaxAttempts = 3
  MaxRepairs = 1
  CostLimit = 3
  Prices = {1, 2}
  Unpriced = Unpriced
  Currencies = {USD, EUR}
  Records = {r1, r2, r3}
  Slots = {s1}
  NumVariants = 3
  SampleSize = 8
  Tasks = {t1, t2}
  MaxVersion = 12
  Writers = {w1, w2}
  Topics <- MCTopics
  Nobody = Nobody
  MaxEvents = 4
  Accounts = {a1, a2}
  Operator = Operator
  Publishers = {p1, p2}
  RawKeys <- MCRawKeys
  Payloads = {x}
  Malformed = Malformed
  Labels = {l1, l2}
  MaxRows = 2
  CallAttempts = 3
  MaxDelay = 2
  MaxRetryAfter = 4
  Hints = {1, 9}
  NoHint = NoHint
  Arrivals = {q1, q2, q3}
  Identities = {i1}
  Replicas = {1, 2}
  Ahead <- MCAhead
  RateLimit = 1
  Minute = 2
  KeyLifetime = 4
  Patience = 1
  MaxSends = 2
  LastTick = 4
  NoExpiry = NoExpiry
  Creations = {1, 2, 3}
  Readers = {u1}
  Slugs = {"A", "a", "b", "Bad"}
  Normal <- MCNormal
  BadSlug = "Bad"
  Principals <- MCPrincipals
  Projects = {1, 3}
  PageLimits = {1, 2}
  Versions <- MCVersions
  PlanRecords = {k1, k2}
  Builtin <- MCBuiltin
  Unregistered = "ghost"
  TaskTypes = {"generation", "rag"}
  RunRepetitions = {1}
  ErrorKinds = {"invalid_request", "timeout"}
  Suites <- MCSuites
  Estimates = {1}
  Budget = 2
  Bills = {2, Unbilled}
  Unbilled = Unbilled
  Monies = {"USD", "EUR"}
  MaxPaid = 2
  NoScore = NoScore
  MetricFailed = MetricFailed
  TaskFailed = TaskFailed
  VersionStrings <- MCVersionStrings
  NotFinite = NotFinite
  Histories <- MCHistories
  Chances = {0, 1, 5}
  PScale = 6
  Alpha = 1
  Reaches <- MCReaches
  Practical = 1
  Rules <- MCRules
  Ids = {2, NoId}
  NoId = NoId
  Blank = Blank
  Strata = {1, 2, 3}
  MaxLines = 4
  MaxImport = 4
  SeedOrders <- MCSeedOrders
  CommandNames <- AllCommands
  MaxReruns = 2
  Documents = {d1, d2, d3}
  Gains = {0, 2}
  MaxRanks = 4
  Discounts <- MCDiscounts
  Scale = 12
  Tools = {x1, x2}
  MaxSteps = 5
  Words = {"a", "b"}
  MaxWords = 3
  Scores = {1, 2, 3}
  NoRating = NoRating
  MaxRatings = 4
  Submissions = 3
  Judges = {j1, j2}
  Foci = {"stream"}
PROPERTIES
  StreamFollowsRun
CHECK_DEADLOCK FALSE
