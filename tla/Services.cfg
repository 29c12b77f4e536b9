SPECIFICATION Spec
CONSTANTS
  OAuthCallers = {c1, c2}
  OAuthCallbacks = {l1}
  OAuthFirst = first
  OAuthMaxFailures = 1
  OAuthMaxExpiries = 1
  InboundJobs = {i1, i2}
  InboundReplies = {1}
  InboundBounces = {2}
  InboundLastMail = 2
  InboundPageSize = 2
  InboundMaxFailures = 1
  ConsentsEdits = {e1, e2}
  ConsentsClicks = {k1}
  ConsentsMails = {m1}
  ConsentsMaxRequests = 2
  ConsentsMaxUnsubs = 1
  ImportJobs = {j1, j2}
  ImportFile <- MCFile
  ImportRows = 4
  ImportChunk = 2
  ImportMaxFailures = 2
  ChatDeliveries = {d1, d2}
  ChatMaxInbound = 2
  ChatMaxAttempts = 2
  ChatMaxReports = 1
  ChatMaxFailures = 1
  LimiterRequests = {r1, r2, r3, r4}
  LimiterWindows = 2
  LimiterLimit = 2
  TrackHits = {h1, h2, h3}
  TrackMaxRolls = 2
  TrackMaxFailures = 1
  VoiceDeliveries = {d1}
  VoiceHooks = {h1}
  VoiceEnds = {e1}
  VoiceMaxFailures = 1
  SetupRuns = {b1, b2}
  SetupMaxFailures = 1
  ConfigTabs = {t1, t2}
  ConfigMaxEdits = 1
  ConfigMaxKeys = 1
  ConfigMaxRequests = 2
  ConfigMaxFailures = 1
  GateRuns = {r1, r2}
  GateWindows <- MCWindows
  GateOffset <- MCOffset
  GateCap = 1
  GateHorizon = 50
  ScoringScorers = {s1, s2}
  ScoringTagSums = {50}
  ScoringMaxEvents = 1
  CronBackups = {k1, k2}
  CronMaxPolls = 1
  CronLifetime = 8
  CronAhead = 3
  BulkPeople = {1, 2, 3}
  BulkFound = {2}
  BulkPerPage = 1
  BulkMaxClicks = 4
  DeskDesks = {a, b}
  DeskMaxWrites = 1
  DeskMaxInFlight = 1
  DeskMaxFailures = 1
  LoginClients = {q1}
  LoginExp = 3
  LoginMinTtl = 1
  LoginKeyTtl = 1
  LoginHorizon = 4
  SecretsSaves = {s1, s2, s3}
  SecretsJobs = {j1}
  SecretsFirst = first
  SecretsMaxFailures = 1
  MemoryTimes = {1, 2}
  MemoryMaxEvents = 3
  MemoryWindow = 2
  NumbersCreates = {q1, q2, q3}
  NumbersLimit = 4
  NumbersBase = 2
  SpeechMaxPieces = 4
  FormSubmits = {s1, s2}
  FormChannels <- MCChannels
  FormConnected <- MCChannels
  FormMaxSteps = 2
  FormMaxEdits = 2
  FormMaxFailures = 1
  PlanRuns = {p1}
  PlanTriggers <- MCTriggers
  PlanAllowed <- MCAllowed
  PlanRisks <- MCRisks
  PlanMaxEdits = 1
  MailJobs = {j1, j2}
  MailDuplicated = {}
  MailMaxRetries = 0
  MailMaxAttempts = 1
  MailMaxConcurrency = 1
  MailDailyLimit = 1
INVARIANTS
  TypeOK CredentialsFollowLogins  HandledOncePerMarker ConsentHolds CreatedOnce
   DeferredToOpenHours OpensConserved ViewsAgree  
    InOrder CampaignIsAsWritten ActsWithinLimits
PROPERTY SharesFlights
CHECK_DEADLOCK FALSE
