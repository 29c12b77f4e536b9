------------------------------- MODULE Services -------------------------------
(***************************************************************************)
(* The services of the platform that share no state with one another: they *)
(* meet only at queues and at rows that the modules of each already take   *)
(* for inputs which may come at any time.  Each is an instance of its own  *)
(* module, with variables and constants of its own, named after it; one    *)
(* of them is at work in a behaviour and the others keep their initial     *)
(* states.  A behaviour of Services is thus a behaviour of every one of    *)
(* them, and each has all of its behaviours here.                          *)
(***************************************************************************)
EXTENDS Integers, FiniteSets

CONSTANTS
  OAuthCallers, OAuthCallbacks, OAuthFirst, OAuthMaxFailures, OAuthMaxExpiries,
  InboundJobs, InboundReplies, InboundBounces, InboundLastMail, InboundPageSize,
  InboundMaxFailures,
  ConsentsEdits, ConsentsClicks, ConsentsMails, ConsentsMaxRequests, ConsentsMaxUnsubs,
  ImportJobs, ImportFile, ImportRows, ImportChunk, ImportMaxFailures,
  ChatDeliveries, ChatMaxInbound, ChatMaxAttempts, ChatMaxReports, ChatMaxFailures,
  LimiterRequests, LimiterWindows, LimiterLimit,
  TrackHits, TrackMaxRolls, TrackMaxFailures,
  VoiceDeliveries, VoiceHooks, VoiceEnds, VoiceMaxFailures,
  SetupRuns, SetupMaxFailures,
  ConfigTabs, ConfigMaxEdits, ConfigMaxKeys, ConfigMaxRequests, ConfigMaxFailures,
  GateRuns, GateWindows, GateOffset, GateCap, GateHorizon,
  ScoringScorers, ScoringTagSums, ScoringMaxEvents,
  CronBackups, CronMaxPolls, CronLifetime, CronAhead,
  BulkPeople, BulkFound, BulkPerPage, BulkMaxClicks,
  DeskDesks, DeskMaxWrites, DeskMaxInFlight, DeskMaxFailures,
  LoginClients, LoginExp, LoginMinTtl, LoginKeyTtl, LoginHorizon,
  SecretsSaves, SecretsJobs, SecretsFirst, SecretsMaxFailures,
  MemoryTimes, MemoryMaxEvents, MemoryWindow,
  NumbersCreates, NumbersLimit, NumbersBase,
  SpeechMaxPieces,
  FormSubmits, FormChannels, FormConnected, FormMaxSteps, FormMaxEdits, FormMaxFailures,
  PlanRuns, PlanTriggers, PlanAllowed, PlanRisks, PlanMaxEdits,
  MailJobs, MailDuplicated, MailMaxRetries, MailMaxAttempts, MailMaxConcurrency,
  MailDailyLimit

ASSUME ServicesAssumption ==
  /\ OAuthFirst # "none" /\ "none" \notin OAuthCallbacks /\ IsFiniteSet(OAuthCallbacks)
  /\ InboundReplies \subseteq 1..InboundLastMail /\ InboundBounces \subseteq 1..InboundLastMail
  /\ InboundReplies \cap InboundBounces = {} /\ InboundPageSize \in Nat \ {0}
  /\ ImportRows \in Nat /\ ImportChunk \in Nat \ {0}
  /\ ImportFile \in [1..ImportRows -> {"address", "bare", "invalid"}]
  /\ LimiterWindows \in Nat \ {0} /\ LimiterLimit \in Nat /\ IsFiniteSet(LimiterRequests)
  /\ GateCap \in Nat \ {0} /\ IsFiniteSet(GateRuns)
  /\ IsFiniteSet(SecretsSaves) /\ PlanRisks \subseteq Int

(* The bounds of every part, and what each is a bound of. *)
ASSUME ServicesBounds ==
  /\ OAuthMaxFailures \in Nat /\ OAuthMaxExpiries \in Nat /\ OAuthFirst \notin OAuthCallbacks
  /\ InboundLastMail \in Nat /\ InboundMaxFailures \in Nat /\ IsFiniteSet(InboundJobs)
  /\ ConsentsMaxRequests \in Nat /\ ConsentsMaxUnsubs \in Nat
  /\ ImportMaxFailures \in Nat /\ IsFiniteSet(ImportJobs)
  /\ ChatMaxInbound \in Nat /\ ChatMaxReports \in Nat /\ ChatMaxFailures \in Nat
  /\ ChatMaxAttempts \in Nat \ {0} /\ IsFiniteSet(ChatDeliveries)
  /\ TrackMaxRolls \in Nat /\ TrackMaxFailures \in Nat
  /\ VoiceMaxFailures \in Nat /\ VoiceDeliveries \cap VoiceHooks = {}
  /\ VoiceDeliveries \cap VoiceEnds = {} /\ VoiceHooks \cap VoiceEnds = {}
  /\ SetupMaxFailures \in Nat /\ IsFiniteSet(SetupRuns)
  /\ ConfigMaxEdits \in Nat /\ ConfigMaxKeys \in Nat /\ ConfigMaxRequests \in Nat
  /\ ConfigMaxFailures \in Nat
  /\ GateHorizon \in Nat /\ GateOffset \in Int /\ GateWindows \subseteq [start : 0..47, end : 0..47]
  /\ ScoringTagSums \subseteq Nat /\ ScoringMaxEvents \in Nat
  /\ CronMaxPolls \in Nat /\ CronLifetime \in Nat /\ CronAhead \in Nat /\ CronAhead < CronLifetime
  /\ BulkPerPage \in Nat \ {0} /\ BulkMaxClicks \in Nat
  /\ IsFiniteSet(BulkPeople) /\ BulkFound \subseteq BulkPeople
  /\ DeskMaxWrites \in Nat /\ DeskMaxInFlight \in Nat /\ DeskMaxFailures \in Nat
  /\ LoginExp \in Nat /\ LoginMinTtl \in Nat /\ LoginKeyTtl \in Nat /\ LoginHorizon \in Nat
  /\ SecretsMaxFailures \in Nat
  /\ MemoryTimes \subseteq Int /\ MemoryMaxEvents \in Nat /\ MemoryWindow \in Nat
  /\ NumbersLimit \in Nat /\ NumbersBase \in Nat \ {0} /\ IsFiniteSet(NumbersCreates)
  /\ SpeechMaxPieces \in Nat
  /\ "email" \in FormChannels /\ FormMaxSteps \in Nat \ {0} /\ FormMaxEdits \in Nat
  /\ FormMaxFailures \in Nat /\ IsFiniteSet(FormSubmits)
  /\ PlanMaxEdits \in Nat /\ PlanAllowed \subseteq SUBSET {"email", "whatsapp", "voice"}
  /\ IsFiniteSet(MailJobs) /\ MailDuplicated \subseteq MailJobs /\ MailMaxRetries \in Nat
  /\ MailMaxAttempts \in Nat \ {0} /\ MailMaxConcurrency \in Nat \ {0} /\ MailDailyLimit \in Nat

VARIABLES
  part,  \* the service at work
  oauthActive, oauthRetired, oauthLogin, oauthState, oauthStates, oauthCodes, oauthOverlaps,
  oauthSender, oauthAnswer, oauthCached, oauthStage, oauthSharers, oauthLate, oauthFailures,
  oauthExpiries,
  inboundArrived, inboundWatermark, inboundJob, inboundPushed, inboundSince, inboundTodo,
  inboundMail, inboundStored, inboundReplyRuns, inboundCounted, inboundOverlaps,
  inboundPassed, inboundFailures,
  consentsExists, consentsConsent, consentsLiveToken, consentsRequests, consentsSuppressed,
  consentsUnsubs, consentsHalfway, consentsEdit, consentsClick, consentsToken, consentsMail,
  consentsStale, consentsLate, consentsDead, consentsAnswered,
  importStatus, importAt, importRow, importAccepted, importRejected, importShown,
  importKnown, importBare, importOverlaps, importFailures,
  chatMarker, chatOut, chatOverlaps, chatAccepts, chatKnown, chatStatus, chatAction,
  chatReports, chatReported, chatInbound, chatTries, chatAttempt, chatHandled, chatStored,
  chatRuns, chatFailures,
  limiterWindow, limiterBucket, limiterRequest, limiterIts, limiterSeen, limiterAllowed,
  limiterOverlaps,
  trackHit, trackKind, trackRead, trackKv, trackHits, trackRoll, trackTaken, trackRolls,
  trackFlushed, trackDisturbed, trackFailures,
  voiceJob, voiceMarked, voiceRow, voiceSession, voiceLine, voiceSaid, voiceHook,
  voiceEnder, voiceCrossed, voicePostcalls, voiceRuns, voiceFailures,
  setupAt, setupStep, setupKnown, setupMade, setupRaces, setupFailures,
  configKv, configStored, configVersion, configForm, configSave, configGen, configEdits,
  configKeys, configAsked, configOvertaken, configFailures,
  gateClock, gateWindow, gateAllowed, gateDone, gateDue, gateSent,
  scoringFacts, scoringVersion, scoringScorer, scoringRow, scoringLatest, scoringCrossed,
  cronLeft, cronNoted, cronChecked, cronOutage, cronBackup, cronArchive, cronStatus,
  bulkExists, bulkPending, bulkQuery, bulkPage, bulkShown, bulkTotal, bulkLoads, bulkTicked,
  bulkAll, bulkMeant, bulkMeantAll, bulkRequest, bulkStrays, bulkClicks,
  deskRow, deskView, deskPolls, deskDraft, deskDialog, deskRequest, deskOwner, deskMisled,
  deskWrote, deskWrites, deskFailures,
  loginClock, loginWithdrawn, loginCache, loginRevoked, loginOut, loginRequest, loginKind,
  loginKnown, loginLate, loginSlow, loginLeaked, loginOverdue,
  secretsKind, secretsLive, secretsSave, secretsOverlaps, secretsCrossed, secretsShown,
  secretsHeld, secretsJob, secretsFailures,
  memorySession, memoryInbox, memoryTotal, memoryLoaded, memoryPushed, memorySince,
  numbersTaken, numbersCreate, numbersNumber, numbersOverlaps, numbersEarly,
  speechStage, speechStream, speechPieces, speechAt, speechCut, speechTorn, speechOut,
  formChannel, formSteps, formBound, formLoaded, formLoads, formOpen, formSaving, formSubmit,
  formPayload, formStored, formEdits, formRemoved, formDoubled, formFailures,
  planControls, planRevoked, planReach, planEdits, planAt, planLimits, planCalls, planPlan,
  planSent,
  mailTransactional, mailDisp, mailAction, mailRef, mailMsg, mailDated, mailSeen, mailAt,
  mailTries, mailAttempt, mailAccepted, mailRevoking, mailRevoked, mailStopped

oauthVars ==
  <<oauthActive, oauthRetired, oauthLogin, oauthState, oauthStates, oauthCodes,
    oauthOverlaps, oauthSender, oauthAnswer, oauthCached, oauthStage, oauthSharers,
    oauthLate, oauthFailures, oauthExpiries>>
inboundVars ==
  <<inboundArrived, inboundWatermark, inboundJob, inboundPushed, inboundSince, inboundTodo,
    inboundMail, inboundStored, inboundReplyRuns, inboundCounted, inboundOverlaps,
    inboundPassed, inboundFailures>>
consentsVars ==
  <<consentsExists, consentsConsent, consentsLiveToken, consentsRequests,
    consentsSuppressed, consentsUnsubs, consentsHalfway, consentsEdit, consentsClick,
    consentsToken, consentsMail, consentsStale, consentsLate, consentsDead, consentsAnswered>>
importVars ==
  <<importStatus, importAt, importRow, importAccepted, importRejected, importShown,
    importKnown, importBare, importOverlaps, importFailures>>
chatVars ==
  <<chatMarker, chatOut, chatOverlaps, chatAccepts, chatKnown, chatStatus, chatAction,
    chatReports, chatReported, chatInbound, chatTries, chatAttempt, chatHandled, chatStored,
    chatRuns, chatFailures>>
limiterVars ==
  <<limiterWindow, limiterBucket, limiterRequest, limiterIts, limiterSeen, limiterAllowed,
    limiterOverlaps>>
trackVars ==
  <<trackHit, trackKind, trackRead, trackKv, trackHits, trackRoll, trackTaken, trackRolls,
    trackFlushed, trackDisturbed, trackFailures>>
voiceVars ==
  <<voiceJob, voiceMarked, voiceRow, voiceSession, voiceLine, voiceSaid, voiceHook,
    voiceEnder, voiceCrossed, voicePostcalls, voiceRuns, voiceFailures>>
setupVars ==
  <<setupAt, setupStep, setupKnown, setupMade, setupRaces, setupFailures>>
configVars ==
  <<configKv, configStored, configVersion, configForm, configSave, configGen, configEdits,
    configKeys, configAsked, configOvertaken, configFailures>>
gateVars ==
  <<gateClock, gateWindow, gateAllowed, gateDone, gateDue, gateSent>>
scoringVars ==
  <<scoringFacts, scoringVersion, scoringScorer, scoringRow, scoringLatest, scoringCrossed>>
cronVars ==
  <<cronLeft, cronNoted, cronChecked, cronOutage, cronBackup, cronArchive, cronStatus>>
bulkVars ==
  <<bulkExists, bulkPending, bulkQuery, bulkPage, bulkShown, bulkTotal, bulkLoads,
    bulkTicked, bulkAll, bulkMeant, bulkMeantAll, bulkRequest, bulkStrays, bulkClicks>>
deskVars ==
  <<deskRow, deskView, deskPolls, deskDraft, deskDialog, deskRequest, deskOwner, deskMisled,
    deskWrote, deskWrites, deskFailures>>
loginVars ==
  <<loginClock, loginWithdrawn, loginCache, loginRevoked, loginOut, loginRequest, loginKind,
    loginKnown, loginLate, loginSlow, loginLeaked, loginOverdue>>
secretsVars ==
  <<secretsKind, secretsLive, secretsSave, secretsOverlaps, secretsCrossed, secretsShown,
    secretsHeld, secretsJob, secretsFailures>>
memoryVars ==
  <<memorySession, memoryInbox, memoryTotal, memoryLoaded, memoryPushed, memorySince>>
numbersVars ==
  <<numbersTaken, numbersCreate, numbersNumber, numbersOverlaps, numbersEarly>>
speechVars ==
  <<speechStage, speechStream, speechPieces, speechAt, speechCut, speechTorn, speechOut>>
formVars ==
  <<formChannel, formSteps, formBound, formLoaded, formLoads, formOpen, formSaving, formSubmit,
    formPayload, formStored, formEdits, formRemoved, formDoubled, formFailures>>
planVars ==
  <<planControls, planRevoked, planReach, planEdits, planAt, planLimits, planCalls,
    planPlan, planSent>>
mailVars ==
  <<mailTransactional, mailDisp, mailAction, mailRef, mailMsg, mailDated, mailSeen, mailAt,
    mailTries, mailAttempt, mailAccepted, mailRevoking, mailRevoked, mailStopped>>

OAuth == INSTANCE OAuthRotator WITH
  Callers <- OAuthCallers, Callbacks <- OAuthCallbacks, First <- OAuthFirst,
  MaxFailures <- OAuthMaxFailures, MaxExpiries <- OAuthMaxExpiries,
  active <- oauthActive, retired <- oauthRetired, login <- oauthLogin, state <- oauthState,
  states <- oauthStates, codes <- oauthCodes, overlaps <- oauthOverlaps,
  sender <- oauthSender, answer <- oauthAnswer, cached <- oauthCached, stage <- oauthStage,
  sharers <- oauthSharers, late <- oauthLate, failures <- oauthFailures,
  expiries <- oauthExpiries

Inbound == INSTANCE InboundMail WITH
  Jobs <- InboundJobs, Replies <- InboundReplies, Bounces <- InboundBounces,
  LastMail <- InboundLastMail, PageSize <- InboundPageSize,
  MaxFailures <- InboundMaxFailures,
  arrived <- inboundArrived, watermark <- inboundWatermark, job <- inboundJob,
  pushed <- inboundPushed, since <- inboundSince, todo <- inboundTodo, mail <- inboundMail,
  stored <- inboundStored, replyRuns <- inboundReplyRuns, counted <- inboundCounted,
  overlaps <- inboundOverlaps, passed <- inboundPassed, failures <- inboundFailures

Consents == INSTANCE Consent WITH
  Edits <- ConsentsEdits, Clicks <- ConsentsClicks, Mails <- ConsentsMails,
  MaxRequests <- ConsentsMaxRequests, MaxUnsubs <- ConsentsMaxUnsubs,
  exists <- consentsExists, consent <- consentsConsent, liveToken <- consentsLiveToken,
  requests <- consentsRequests, suppressed <- consentsSuppressed, unsubs <- consentsUnsubs,
  halfway <- consentsHalfway, edit <- consentsEdit, click <- consentsClick,
  token <- consentsToken, mail <- consentsMail, stale <- consentsStale,
  late <- consentsLate, dead <- consentsDead, answered <- consentsAnswered

Import == INSTANCE ImportJob WITH
  Jobs <- ImportJobs, File <- ImportFile, Rows <- ImportRows, Chunk <- ImportChunk,
  MaxFailures <- ImportMaxFailures,
  status <- importStatus, at <- importAt, row <- importRow, accepted <- importAccepted,
  rejected <- importRejected, shown <- importShown, known <- importKnown,
  bare <- importBare, overlaps <- importOverlaps, failures <- importFailures

Chat == INSTANCE WhatsApp WITH
  Deliveries <- ChatDeliveries, MaxInbound <- ChatMaxInbound,
  MaxAttempts <- ChatMaxAttempts, MaxReports <- ChatMaxReports,
  MaxFailures <- ChatMaxFailures,
  marker <- chatMarker, out <- chatOut, overlaps <- chatOverlaps, accepts <- chatAccepts,
  known <- chatKnown, status <- chatStatus, action <- chatAction, reports <- chatReports,
  reported <- chatReported, inbound <- chatInbound, tries <- chatTries,
  attempt <- chatAttempt, handled <- chatHandled, stored <- chatStored, runs <- chatRuns,
  failures <- chatFailures

Limiter == INSTANCE RateLimit WITH
  Requests <- LimiterRequests, Windows <- LimiterWindows, Limit <- LimiterLimit,
  window <- limiterWindow, bucket <- limiterBucket, request <- limiterRequest,
  its <- limiterIts, seen <- limiterSeen, allowed <- limiterAllowed,
  overlaps <- limiterOverlaps

Track == INSTANCE Tracking WITH
  Hits <- TrackHits, MaxRolls <- TrackMaxRolls, MaxFailures <- TrackMaxFailures,
  hit <- trackHit, kind <- trackKind, read <- trackRead, kv <- trackKv, hits <- trackHits,
  roll <- trackRoll, taken <- trackTaken, rolls <- trackRolls, flushed <- trackFlushed,
  disturbed <- trackDisturbed, failures <- trackFailures

Voice == INSTANCE VoiceCall WITH
  Deliveries <- VoiceDeliveries, Hooks <- VoiceHooks, Ends <- VoiceEnds,
  MaxFailures <- VoiceMaxFailures,
  job <- voiceJob, marked <- voiceMarked, row <- voiceRow, session <- voiceSession,
  line <- voiceLine, said <- voiceSaid, hook <- voiceHook, ender <- voiceEnder,
  crossed <- voiceCrossed, postcalls <- voicePostcalls, runs <- voiceRuns,
  failures <- voiceFailures

Setup == INSTANCE VoiceSetup WITH
  Runs <- SetupRuns, MaxFailures <- SetupMaxFailures,
  at <- setupAt, step <- setupStep, known <- setupKnown, made <- setupMade,
  races <- setupRaces, failures <- setupFailures

Config == INSTANCE Settings WITH
  Tabs <- ConfigTabs, MaxEdits <- ConfigMaxEdits, MaxKeys <- ConfigMaxKeys,
  MaxRequests <- ConfigMaxRequests, MaxFailures <- ConfigMaxFailures,
  kv <- configKv, stored <- configStored, version <- configVersion, form <- configForm,
  save <- configSave, gen <- configGen, edits <- configEdits, keys <- configKeys,
  asked <- configAsked, overtaken <- configOvertaken, failures <- configFailures

Gate == INSTANCE SendGate WITH
  Runs <- GateRuns, Windows <- GateWindows, Offset <- GateOffset, Cap <- GateCap,
  Horizon <- GateHorizon,
  clock <- gateClock, window <- gateWindow, allowed <- gateAllowed, done <- gateDone,
  due <- gateDue, sent <- gateSent

Scoring == INSTANCE LeadScoring WITH
  Scorers <- ScoringScorers, TagSums <- ScoringTagSums, MaxEvents <- ScoringMaxEvents,
  facts <- scoringFacts, version <- scoringVersion, scorer <- scoringScorer,
  row <- scoringRow, latest <- scoringLatest, crossed <- scoringCrossed

Cron == INSTANCE Maintenance WITH
  Backups <- CronBackups, MaxPolls <- CronMaxPolls, Lifetime <- CronLifetime,
  Ahead <- CronAhead,
  left <- cronLeft, noted <- cronNoted, checked <- cronChecked, outage <- cronOutage,
  backup <- cronBackup, archive <- cronArchive, status <- cronStatus

Bulk == INSTANCE BulkSelect WITH
  People <- BulkPeople, Found <- BulkFound, PerPage <- BulkPerPage,
  MaxClicks <- BulkMaxClicks,
  exists <- bulkExists, pending <- bulkPending, query <- bulkQuery, page <- bulkPage,
  shown <- bulkShown, total <- bulkTotal, loads <- bulkLoads, ticked <- bulkTicked,
  all <- bulkAll, meant <- bulkMeant, meantAll <- bulkMeantAll, request <- bulkRequest,
  strays <- bulkStrays, clicks <- bulkClicks

Desk == INSTANCE ControlDesk WITH
  Desks <- DeskDesks, MaxWrites <- DeskMaxWrites, MaxInFlight <- DeskMaxInFlight,
  MaxFailures <- DeskMaxFailures,
  row <- deskRow, view <- deskView, polls <- deskPolls, draft <- deskDraft,
  dialog <- deskDialog, request <- deskRequest, owner <- deskOwner, misled <- deskMisled,
  wrote <- deskWrote, writes <- deskWrites, failures <- deskFailures

Login == INSTANCE Session WITH
  Clients <- LoginClients, Exp <- LoginExp, MinTtl <- LoginMinTtl, KeyTtl <- LoginKeyTtl,
  Horizon <- LoginHorizon,
  clock <- loginClock, withdrawn <- loginWithdrawn, cache <- loginCache,
  revoked <- loginRevoked, out <- loginOut, request <- loginRequest, kind <- loginKind,
  known <- loginKnown, late <- loginLate, slow <- loginSlow, leaked <- loginLeaked,
  overdue <- loginOverdue

Secrets == INSTANCE Credentials WITH
  Saves <- SecretsSaves, Jobs <- SecretsJobs, First <- SecretsFirst,
  MaxFailures <- SecretsMaxFailures,
  kind <- secretsKind, live <- secretsLive, save <- secretsSave,
  overlaps <- secretsOverlaps, crossed <- secretsCrossed, shown <- secretsShown,
  held <- secretsHeld, job <- secretsJob, failures <- secretsFailures

Memory == INSTANCE ContactMemory WITH
  Times <- MemoryTimes, MaxEvents <- MemoryMaxEvents, Window <- MemoryWindow,
  session <- memorySession, inbox <- memoryInbox, total <- memoryTotal,
  loaded <- memoryLoaded, pushed <- memoryPushed, since <- memorySince

Numbers == INSTANCE QuoteNumbers WITH
  Creates <- NumbersCreates, Limit <- NumbersLimit, Base <- NumbersBase,
  taken <- numbersTaken, create <- numbersCreate, number <- numbersNumber,
  overlaps <- numbersOverlaps, early <- numbersEarly

Speech == INSTANCE LlmStream WITH
  MaxPieces <- SpeechMaxPieces,
  stage <- speechStage, stream <- speechStream, pieces <- speechPieces, at <- speechAt,
  cut <- speechCut, torn <- speechTorn, out <- speechOut

Form == INSTANCE CampaignForm WITH
  Submits <- FormSubmits, Channels <- FormChannels, Connected <- FormConnected,
  MaxSteps <- FormMaxSteps, MaxEdits <- FormMaxEdits, MaxFailures <- FormMaxFailures,
  channel <- formChannel, steps <- formSteps, bound <- formBound, loaded <- formLoaded,
  loads <- formLoads, open <- formOpen, saving <- formSaving, submit <- formSubmit,
  payload <- formPayload, stored <- formStored, edits <- formEdits,
  removed <- formRemoved, doubled <- formDoubled, failures <- formFailures

Plan == INSTANCE Planner WITH
  Runs <- PlanRuns, Triggers <- PlanTriggers, Allowed <- PlanAllowed, Risks <- PlanRisks,
  MaxEdits <- PlanMaxEdits,
  controls <- planControls, revoked <- planRevoked, reach <- planReach, edits <- planEdits,
  at <- planAt, limits <- planLimits, calls <- planCalls, plan <- planPlan, sent <- planSent

Mail == INSTANCE EmailOut WITH
  Jobs <- MailJobs, Duplicated <- MailDuplicated, MaxRetries <- MailMaxRetries,
  MaxAttempts <- MailMaxAttempts, MaxConcurrency <- MailMaxConcurrency,
  DailyLimit <- MailDailyLimit,
  transactional <- mailTransactional, disp <- mailDisp, action <- mailAction,
  ref <- mailRef, msg <- mailMsg, dated <- mailDated, seen <- mailSeen, at <- mailAt,
  tries <- mailTries, attempt <- mailAttempt, accepted <- mailAccepted,
  revoking <- mailRevoking, revoked <- mailRevoked, stopped <- mailStopped

-----------------------------------------------------------------------------
Parts == {"oauth", "inbound", "consents", "import", "chat", "limiter", "track", "voice",
          "setup", "config", "gate", "scoring", "cron", "bulk", "desk", "login", "secrets",
          "memory", "numbers", "speech", "form", "plan", "mail"}

Init ==
  /\ part \in Parts
  /\ OAuth!Init /\ Inbound!Init /\ Consents!Init /\ Import!Init
  /\ Chat!Init /\ Limiter!Init /\ Track!Init /\ Voice!Init
  /\ Setup!Init /\ Config!Init /\ Gate!Init /\ Scoring!Init
  /\ Cron!Init /\ Bulk!Init /\ Desk!Init /\ Login!Init
  /\ Secrets!Init /\ Memory!Init /\ Numbers!Init /\ Speech!Init
  /\ Form!Init /\ Plan!Init /\ Mail!Init
  /\ part # "scoring" => scoringFacts = Scoring!NoFacts
  /\ part # "desk"    => deskRow = Desk!Missing
  /\ part # "secrets" => secretsKind = "whatsapp"
  /\ part # "numbers" => numbersTaken = {}
  /\ part # "speech"  => speechStream /\ speechPieces = 0
  /\ part # "mail"    => mailTransactional = {}

Works(p) ==  \* p is at work, the others are not
  /\ part = p /\ UNCHANGED part
  /\ p # "oauth"     => UNCHANGED oauthVars
  /\ p # "inbound"   => UNCHANGED inboundVars
  /\ p # "consents"  => UNCHANGED consentsVars
  /\ p # "import"    => UNCHANGED importVars
  /\ p # "chat"      => UNCHANGED chatVars
  /\ p # "limiter"   => UNCHANGED limiterVars
  /\ p # "track"     => UNCHANGED trackVars
  /\ p # "voice"     => UNCHANGED voiceVars
  /\ p # "setup"     => UNCHANGED setupVars
  /\ p # "config"    => UNCHANGED configVars
  /\ p # "gate"      => UNCHANGED gateVars
  /\ p # "scoring"   => UNCHANGED scoringVars
  /\ p # "cron"      => UNCHANGED cronVars
  /\ p # "bulk"      => UNCHANGED bulkVars
  /\ p # "desk"      => UNCHANGED deskVars
  /\ p # "login"     => UNCHANGED loginVars
  /\ p # "secrets"   => UNCHANGED secretsVars
  /\ p # "memory"    => UNCHANGED memoryVars
  /\ p # "numbers"   => UNCHANGED numbersVars
  /\ p # "speech"    => UNCHANGED speechVars
  /\ p # "form"      => UNCHANGED formVars
  /\ p # "plan"      => UNCHANGED planVars
  /\ p # "mail"      => UNCHANGED mailVars

OAuthStep   == Works("oauth") /\ OAuth!Next
InboundStep == Works("inbound") /\ Inbound!Next
ConsentsStep == Works("consents") /\ Consents!Next
ImportStep  == Works("import") /\ Import!Next
ChatStep    == Works("chat") /\ Chat!Next
LimiterStep == Works("limiter") /\ Limiter!Next
TrackStep   == Works("track") /\ Track!Next
VoiceStep   == Works("voice") /\ Voice!Next
SetupStep   == Works("setup") /\ Setup!Next
ConfigStep  == Works("config") /\ Config!Next
GateStep    == Works("gate") /\ Gate!Next
ScoringStep == Works("scoring") /\ Scoring!Next
CronStep    == Works("cron") /\ Cron!Next
BulkStep    == Works("bulk") /\ Bulk!Next
DeskStep    == Works("desk") /\ Desk!Next
LoginStep   == Works("login") /\ Login!Next
SecretsStep == Works("secrets") /\ Secrets!Next
MemoryStep  == Works("memory") /\ Memory!Next
NumbersStep == Works("numbers") /\ Numbers!Next
SpeechStep  == Works("speech") /\ Speech!Next
FormStep    == Works("form") /\ Form!Next
PlanStep    == Works("plan") /\ Plan!Next
MailStep    == Works("mail") /\ Mail!Next

Next ==
  \/ OAuthStep \/ InboundStep \/ ConsentsStep \/ ImportStep \/ ChatStep
  \/ LimiterStep \/ TrackStep \/ VoiceStep \/ SetupStep \/ ConfigStep
  \/ GateStep \/ ScoringStep \/ CronStep \/ BulkStep \/ DeskStep
  \/ LoginStep \/ SecretsStep \/ MemoryStep \/ NumbersStep \/ SpeechStep
  \/ FormStep \/ PlanStep \/ MailStep

vars == <<part, oauthVars, inboundVars, consentsVars, importVars, chatVars, limiterVars,
          trackVars, voiceVars, setupVars, configVars, gateVars, scoringVars, cronVars,
          bulkVars, deskVars, loginVars, secretsVars, memoryVars, numbersVars, speechVars,
          formVars, planVars, mailVars>>

Spec == Init /\ [][Next]_vars

-----------------------------------------------------------------------------
(* Types and ranges of the state of every service. *)
TypeOK ==
  /\ part \in Parts
  /\ OAuth!TypeOK /\ Inbound!TypeOK /\ Consents!TypeOK /\ Import!TypeOK /\ Chat!TypeOK
  /\ Limiter!TypeOK /\ Track!TypeOK /\ Voice!TypeOK /\ Setup!TypeOK /\ Config!TypeOK
  /\ Gate!TypeOK /\ Scoring!TypeOK /\ Cron!TypeOK /\ Bulk!TypeOK /\ Desk!TypeOK
  /\ Login!TypeOK /\ Secrets!TypeOK /\ Memory!TypeOK /\ Numbers!TypeOK /\ Speech!TypeOK
  /\ Form!TypeOK /\ Plan!TypeOK /\ Mail!TypeOK

(* The token rotators implement a single-flight service: whatever expires, fails or is     *)
(* evicted, concurrent callers share one refresh and its outcome (oauth-rotator.ts:56-62). *)
SharesFlights == OAuth!SharesFlights

(* After each login or save exactly one account, secret or key is live, but for logins and *)
(* saves that overlapped or died between retiring the old one and inserting the new one    *)
(* (icrv-api index.ts:189-217, misc.ts:615-700).                                           *)
CredentialsFollowLogins == OAuth!AccountsFollowLogins /\ Secrets!SecretsFollowSaves

(* The Gmail watermark passes no reply that was not stored and no bounce that was not      *)
(* counted, except those that a failed listing or a first page went past, in whatever      *)
(* order pushes come (icrv-consumer index.ts:83-262).                                      *)
WatermarkCovers == Inbound!WatermarkCovers

(* A reply is stored and answered once, and a WhatsApp message is sent once, through       *)
(* redeliveries and crashes, but for jobs that read a marker or a row while another was    *)
(* about to write it (icrv-consumer index.ts:116-258, icrv-whatsapp index.ts:38-116); and  *)
(* an inbound WhatsApp message once for each time its webhook is handled.                  *)
HandledOncePerMarker ==
  Inbound!RepliesHandledOnce /\ Chat!SentOncePerMarker /\ Chat!StoredIsAnswered

(* Nobody who has opted out, by whichever way, gets a marketing mail whose run had not     *)
(* read the consent before, and an answer through a replaced consent link is never         *)
(* recorded (context-loader.ts:150-188, policy-gate.ts:161-169, public.ts:215-230).        *)
ConsentHolds == Consents!LateMailWasCleared /\ Consents!SupersededLinksDead

(* An imported address gets one contact, a bootstrapped resource is created once, and a    *)
(* quote gets a number of its own, but for those that looked it up while another was about *)
(* to create it (import-processor.ts:72-95, icrv-voice index.ts:278-420, quotes.ts:283).   *)
CreatedOnce ==
  Import!OneContactPerAddress /\ Setup!ProvisionedOnce /\ Numbers!RefusedOnlyByRaces

(* Counters that are read, and written later, let through at most one request too many for *)
(* each that overlapped, one message too many for each other run at work, and one e-mail   *)
(* too many for each other worker at its send (rate-limit.ts:39-63, queue-helpers.ts:12-24, *)
(* context-loader.ts:265-270, icrv-email index.ts:97, 149).                                *)
OvershootBounded ==
  Limiter!LimitOvershootBounded /\ Gate!CapOvershootBounded /\ Mail!DailyOvershootBounded

(* A run deferred for quiet hours is told a time outside them, at most an hour after they  *)
(* end, across midnight and time zones (policy-gate.ts:122-145).                           *)
DeferredToOpenHours == Gate!DeferredToOpenHours

(* Opens that move from KV to D1 are neither lost nor doubled while nothing overlaps or    *)
(* fails (icrv-cron index.ts:222-258).                                                     *)
OpensConserved == Track!OpensConserved

(* The row of a call and the object of its session agree on whether it is over, unless a   *)
(* step failed between the two or two of them crossed (voice-session.ts:119, calls.ts).    *)
ViewsAgree == Voice!ViewsAgree

(* What is copied from elsewhere settles on it: the key that is mirrored in KV, the score  *)
(* of a contact, and the counts that an import shows (settings.ts:116, leads.ts:172-233,   *)
(* import-processor.ts:53-109).                                                            *)
CopiesSettle == Config!KeyIsMirrored /\ Scoring!ScoreSettles /\ Import!ImportAccounted

(* A bulk action hits only contacts that the operator picked (Contacts.tsx:568-640,        *)
(* contacts-bulk.ts:318).                                                                  *)
OnlyPickedAreHit == Bulk!OnlyPickedAreHit

(* A desk that switched the kill switch on keeps it on when it saves its draft             *)
(* (AIControlPanel.tsx:380-440).                                                           *)
OwnSwitchSurvivesSave == Desk!OwnSwitchSurvivesSave

(* What is withdrawn runs out in time: a token after its logout, one whose key is gone     *)
(* from the keyset, the access tokens of a retired account; and watches and subscriptions  *)
(* are renewed before they do (misc.ts:262-290, auth.ts:52-80, oauth-rotator.ts:64-92,     *)
(* icrv-cron index.ts:160-220).                                                            *)
WithdrawnRunsOut ==
  /\ Login!LoggedOutIsRefused /\ Login!WithdrawnKeyRunsOut
  /\ OAuth!RetiredRunsDry
  /\ Cron!RenewedInTime

(* The windows of a contact's events keep the latest, in order, and what is spoken is what *)
(* was answered, piece by piece (contact-inbox.ts:30-70, agent-session-do.ts:60-120,       *)
(* icrv-voice index.ts:602-646).                                                           *)
InOrder == Memory!InboxIsLatest /\ Memory!SessionIsRecent /\ Speech!SpokenIsAnswered

(* A campaign has the steps of its form, numbered as launches and ticks count them, each    *)
(* with a credential of its channel, and a form makes one campaign, but for steps taken out *)
(* and for clicks and failures in between (Campaigns.tsx:57-187, campaigns.ts:69-99).       *)
CampaignIsAsWritten ==
  Form!StepsAreNumbered /\ Form!CredentialsFit /\ Form!OneCampaignPerForm

(* A message of the agent is on the channel of the saved plan and within the limits its    *)
(* run has loaded, whatever the model answers and operators change meanwhile               *)
(* (icrv-agent index.ts:116-182, llm-planner.ts:400-570, dispatcher.ts:151-330).           *)
ActsWithinLimits == Plan!ActsWithinLimits
=============================================================================
