# ICRV in TLA+

A model of the concurrent core of ICRV, an outreach CRM that runs as eight
Cloudflare Workers around one D1 (SQLite) database, a set of queues, KV namespaces
and Durable Objects, with a React frontend. The modules follow the code under `src/`;
`PROJECT.json` maps each definition to the lines it stands for, and lists every
component with what of it is left out.

## 1. The system

| part | state | operations | talks to |
|---|---|---|---|
| **shared helpers** `packages/shared/src` | idempotency markers and counters in KV | `isDuplicate`, `rateAllow`, `checkRateLimit`, `scheduleRetry`, `deadLetter`, scoring | every worker |
| **icrv-email**, **icrv-whatsapp** | `messages.status`, `agent_actions.status` | `queue()`: look up, mark, check, send, record | Gmail, Meta, OAuthRotatorDO |
| **icrv-agent** pipeline (`index.ts`, `context-loader.ts`, `policy-gate.ts`, `llm-planner.ts`, `dispatcher.ts`) | `agent_runs`, `agent_actions` | `runAgentJob`: context → policy gate → planner → approval gate → dispatch | LLM, the out queues |
| **icrv-agent** control panel | `agent_controls` rows at four scopes; run and action statuses | kill switch, put and delete controls, approve, reject, edit, revoke | the pipeline, through D1 and the agent queue |
| **icrv-cron** | enrollments, tracking counters, subscriptions, backups | campaign tick each minute; renewals, roll, nightly work, backup | CampaignCoordinatorDO, agent queue |
| **icrv-api** campaigns | `campaigns`, `campaign_steps`, enrollments | create, launch, pause, resume, cancel, edit | the same |
| **icrv-api** accounts | `oauth_tokens`, `api_credentials`, keys, revoked tokens | Google login, integrations, bootstrap, logout | Google, KV |
| **OAuthRotatorDO**, **VoiceSessionDO**, **ContactInboxDO**, **AgentSessionDO**, **CampaignCoordinatorDO** | a token, a call, windows of events, the day's count | one handler each | workers |
| **icrv-consumer** | messages, imports, `webhook_deliveries`, the Gmail watermark | inbound Gmail, retries, imports, webhooks | all queues |
| **icrv-voice** | calls | dial, post-call, provision, LLM proxy | RingCentral, ElevenLabs, Anthropic |
| **icrv-hooks** | none of its own | verified ingress, tracking, unsubscribe | the in queues, D1, KV |
| **icrv-api** quotes, webhooks, consent, contacts, settings, leads | their rows | check-then-act handlers over D1 | out queues, webhook queue |
| **frontend** | selections, drafts, dialogs, polled copies | pages that load, edit and save | icrv-api |

**How parts interact.** A trigger (cron tick, launch, inbound mail, finished call)
writes an `agent_runs` row and sends an agent job. icrv-agent's consumer decides on
it and dispatches at most one action, mostly a message to an out queue. The consumer
of that queue sends it and writes the outcome back. Operators change controls, runs
and actions meanwhile, from pages that show an older state. Nothing holds a lock or a
transaction over more than one statement: every `await` is a point where any other
invocation may run. KV has only get and put.

**What is hard.** Queues deliver at least once and redeliver what was not
acknowledged; `isDuplicate` marks a message *before* the work; retries travel
through another queue with the payload's old id; ticks overlap; status updates are
unconditional; limits are read before and counted after the effect; rows are retired
and replaced in two statements; copies are read, changed and put back; answers of polls
overtake one another; an invocation can die at every await. The list, with lines, is
under `hazards` in `PROJECT.json`.

**What makes each part correct.** E-mail: the recorded statuses are true, nothing is
sent more often than delivered, a revocation in time holds, limits are exceeded by a
bounded amount. Campaigns: each step of each enrollment once, none lost, the cap,
ended stays ended, what is launched is what the form showed. Agent: gates cannot be
bypassed, no run acts twice, every run is settled. Quotes: only drafts change, numbers
are unique. Webhooks: attempts are bounded and the recorded outcome is the last one.
Accounts: one is live, one refresh is in flight, what is withdrawn runs out. Consent:
nothing is sent against a recorded refusal. Pages: an action hits what its operator
picked, and undoes no decision that was not meant.

## 2. Modules

| module | what it models | proofs |
|---|---|---|
| `Mailer`, `EmailOut` | what the outbound path promises of an e-mail; the e-mail jobs, which implement it: producer, queue, consumer, retry queue, operator | `EmailOutProofs` |
| `CampaignDrip` | one campaign: enrollments, coordinator, ticks, launches, operators | `CampaignDripProofs` |
| `AgentRun` | the runs of one contact: producers, consumer, controls, approvals | `AgentRunProofs` |
| `Quotes`, `WebhookDelivery` | a tenant's quotes, and the delivery of the events they make | `QuotesProofs` |
| `Services` | the sum of the services below, one instance of each, and of a small `EmailOut` | four modules, as below; `EmailOut` in `InboxProofs` |
| `SingleFlight`, `OAuthRotator` | what a refresh promises its callers; Google accounts and their tokens, which implement it | `ServicesProofs`, `ClockProofs` |
| `InboundMail` | pushes, watermark, replies and bounces of a mailbox | `InboxProofs` |
| `Consent` | the e-mail consent of a contact, its writers, and the mails that read it | `ServicesProofs` |
| `ImportJob` | the import of a file of contacts | `CopiesProofs` |
| `WhatsApp` | an outbound message, its reports, and an inbound one | `InboxProofs` |
| `RateLimit` | counters of requests per window | `ServicesProofs` |
| `Tracking` | opens and clicks, counted in KV and rolled to D1 | `ServicesProofs` |
| `VoiceCall`, `VoiceSetup`, `LlmStream` | a call; the bootstrap of a tenant; the translated stream of an answer | `ClockProofs`, `CopiesProofs`, `InboxProofs` |
| `Settings` | a section with a generated key that is mirrored in KV | `CopiesProofs` |
| `SendGate` | quiet hours and the daily cap of the policy gate | `ClockProofs`, `ServicesProofs` |
| `Planner` | the limits of a run, the model's answers, approval, the channel used | `ServicesProofs` |
| `LeadScoring` | the score's formula and its scorers | `CopiesProofs` |
| `Maintenance` | renewal of subscriptions, backup | `ClockProofs` |
| `BulkSelect`, `ControlDesk`, `CampaignForm` | the Contacts page, the kill-switch page and the campaign form with their handlers | `ServicesProofs` (two), `CopiesProofs` |
| `Session` | tokens, their keyset's cache and their revocation, in time | `ClockProofs` |
| `Credentials` | WhatsApp credential and API key, retired and replaced | `ServicesProofs` |
| `ContactMemory` | the two windows of a contact's events | `InboxProofs` |
| `QuoteNumbers` | the numbers of new quotes | `CopiesProofs` |
| `MC…` | constants for TLC | |

The first three fit together along the queues: the job `CampaignDrip` sends is the one
`AgentRun` receives (`InsertQueued`, `SendJob`), and the action `AgentRun` performs
in `Effect` is the producer of `EmailOut` (`InsertAction` … `MarkExecuted`) or
`StopSequence` of `CampaignDrip`. Each module keeps the others' part as a single
step, so that each can be explored with its own failures. `Quotes` instantiates
`WebhookDelivery` and shares its state: a request inserts the deliveries and sends their
messages with that module's actions.

**Services.** The other modules share no state: what one of them leaves in a row or a
queue is an input that the others already take at any time. Their interleaving product
would only multiply states, so `Services` composes them as a *sum*: `part` names the one
service at work, whose `Next` moves its own variables (prefixed by its name), while the
rest keep their initial states. A behaviour of a service is a behaviour of `Services`
and the other way round, so what holds there holds of each. One run and one type
invariant serve them all; a property of `Services` is the conjunction of
the services' own properties about one concern.

Conventions. An action is the code between two awaits: one D1 statement, KV call,
queue send, Durable Object or HTTP request. *Where* an invocation is (`at`, `pc`, `job`,
`request`, …) names the await it has reached. An envelope is a queue message; its place
tells whether it is queued, being worked on, in the retry queue, acknowledged or dead.
Statuses keep the source's strings. A Durable Object's handler is one step where it only
awaits its storage (input gates), and several where it fetches. Auxiliary variables
(`accepted`, `stopped`, `jobs`, `acted`, `slack`, `overlaps`, `races`, `late`, `strays`,
`meant`, …) record what happened and are read by no guard. An *overlap* is a step that
reads while another actor stands between its own read and its write.

### EmailOut
`disp` walks the producer through `dispatchAction`/`dispatchEmail`; a *transactional*
job is the consent e-mail of `contacts-bulk.ts`, which has no action row. `at` walks
each envelope through `queue()` and `sendEmail()`: marker looked up, marker put,
rate, `sending`, pre-flight, gates, token, provider, record, action. `Throws` is an
exception at any await after the `try`, `Crash` an invocation that dies, `Duplicate`
the queue's second delivery. `RevokeRead`/`RevokeWrite` are the two halves of the
revoke handler.

`Mailer` is the abstract specification: an e-mail has a number of chances to be sent,
which are used, given up, and never come back; what is stopped is not sent; a record is
true when it is made. `EmailOut` instantiates it with its jobs for e-mails and its
message rows for records (`record <- msg`, `sent <- accepted`), and for the chances
(`left <- Left`) the envelopes that may still reach the provider: those past the marker,
and those that have not looked at it while it is not written. So `InsertMessage` is
`Compose`, `MarkSending` is `TakeUp`, `ProviderAccepts` is `Accept`, a rejection or a late
pre-flight is `GiveUp` with a record, `RecordSent` is `Confirm`, `RevokeWrite` is `Stop`
if it comes in time; the marker, a crash, a throw or the retry queue give chances up
without a record or are stutters.

### CampaignDrip and CampaignForm
An actor is an invocation of `runCampaignTick` or of `/launch`. `todo[a]` is the
snapshot it works through, `hand[a]` the row it has a grant for. `CanSend`,
`Advance`, `Send` are the three awaits that matter; the agent_runs row between
grant and advance belongs to `AgentRun`. `Abandon` is the death of an actor,
`DispatchFails` the catch block of the launch. The order of the rows is left open.
`Serial` selects the schedules in which actors do not overlap.
`CampaignForm` comes before: the page's effects (`SetChannel`, `Loaded`), its list of
steps, the click and its inline template, and the handler that inserts the campaign and
its steps one by one under the unique index (`InsertStep`, `NumberTaken`).

### AgentRun, SendGate and Planner
`at` walks the envelope of each run through `runAgentJob`; the envelope of a request
is the message `/approve` sends. `Fresh` runs come without a `run_id` and get their
row from the consumer. The verdict of the policy gate is fixed when the context is
loaded (its reads are started together); the gates whose numbers are not in this module
may refuse any run (`OtherVerdict`). `control` is the `kill_switch` field of each
scope's row. `slack` is the number of invocations past the load when the merged
kill switch came on, less the actions since. `SendJobFails` leaves a row without a job.
`SendGate` has the numbers: a clock in half hours, windows that cross midnight, an
offset from UTC, the count of the day's messages at load time. `Planner` has the
content: allow-list, consents, thresholds (in tenths) as loaded; two answers of the
model, of any tool and risk; clamping, approval, and the dispatch on the answer's channel.

### Quotes, WebhookDelivery and QuoteNumbers
`pc` is where a request is between its read and its writes. `content` turns over with
each edit and `messages` counts what went to the WhatsApp queue, so that an action
property can tell an edit or a message from none. A subscription is a pass of
`Emit`, `EmitSend`; an event has any number of them.
In `WebhookDelivery` a message has the name of its way: each retry sent is a child of
the message that was handled, since redelivered handlers send a second one. `at` walks
it through the post and the marks; `tries` counts redeliveries in `icrv-webhooks`
(`max_retries` 1), the move to `icrv-dlq`, and that queue's own redelivery (1): the
dead-letter queue's consumer finds the type `webhook_event` first and posts it again.
The consent page makes events as quotes do. `QuoteNumbers` orders numbers as the
database does, as strings: padded to four digits, the order breaks at `Limit`.

### Accounts: OAuthRotator, Credentials, Session
`login` walks a Google callback through its state token, the exchange, the UPDATE that
retires accounts and the INSERT; `sender` and `sharers` are callers of a rotator,
`stage` its refresh. `OAuthRotator` instantiates `SingleFlight` (`flight <- sharers`).
`Credentials` is the same retire-then-insert for secrets, with the settings' copy of
the digits and the jobs that carry a credential's id. `Session` has a clock in seconds:
`fetched` keysets are put when they have come, revocations live until `exp`.

### Mail and messages: InboundMail, WhatsApp, Consent, Tracking
Mail *m* arrives with history id *m*, pushes name any id reached so far. `passed` are
mails that a failed listing or a first page went past. In `WhatsApp`, `handled` counts how often the
inbound webhook was worked on. `Consent` numbers tokens by request; `stale` are mails
whose run had read the consent before the last opt-out, `dead` answers whose link
was replaced when they came. `Tracking` writes the event and deletes the counter in one
`Promise.all`: `roll` is what of it is under way.

### Pages: BulkSelect, ControlDesk, Settings
What the page shows comes from answers in any order (`pending`, `polls`); what the
operator meant is recorded at the click (`meant`). The server looks the query up again
(`Resolve`), and takes an empty list without a query for everyone. `ControlDesk` keeps
of a row only its switch and a version; `draft` follows the row's id.

### Voice: VoiceCall, VoiceSetup, LlmStream
A call's row and its session object are written by the dialling worker (`job`), the
webhook (`hook`), the hang-up (`ender`). `line` is what RingCentral knows. `VoiceSetup`
is the two bootstraps of an admin: stages that look up, create and remember.
`LlmStream` is the stream as lines, of which the network cuts some.

### The rest
`ImportJob` walks the rows of a file with one address in it twice. `RateLimit` has
`seen`, the counter as read. `LeadScoring` has the formula as operators and its
scorers' four reads. `Maintenance` counts hours. `ContactMemory` has both windows, fed
with the same events.

## 3. Runs

| run | checks | shows |
|---|---|---|
| `EmailCopies` | `AcceptsBoundedByCopies` `RecordsAreTrue` `RevokedInTimeNotSent` `SendsAsPromised` `QueuesDrain` | one job, two copies, any failures: never more accepted than copies; the statuses are true up to the other copy; a revocation in time holds; each step is one of `Mailer`; every message is acknowledged or dead-lettered |
| `EmailRetryLost` | `FailedIsSentOrDeadLettered` (violated) | see 6 |
| `EmailRevokeIgnored` | `RevokeBeforeDeliveryHolds` (violated) | see 6 |
| `CampaignSerial` | `EachStepOnce` `LostStepsBounded` `ActiveHasStep` `SequencesEnd` | without overlap: steps once, one lost per failure, no enrollment stuck |
| `CampaignOverlap` | `TypeOK` `DailyCapOvershootBounded` `EndedStaysQuiet` | with a tick and a launch overlapping: the cap, and ended enrollments get no job from later snapshots |
| `CampaignMissed` | `CronRetriesMissed` (violated) | see 6 |
| `AgentJobs` | `TypeOK` `KillSwitchLeakBounded` `LoopBrake` `ActsAtMostOnce` `StrandedBounded` `SettlesWithoutFailure` | two runs, one approval request, a failure: the gates hold, no run acts twice, one failure strands one run |
| `AgentKillSwitch` | `AnyKillSwitchHalts` (violated) | see 6 |
| `AgentApproved` | `ApprovedIsDispatched` (violated) | see 6 |
| `PlannerBypass` | `OnlyAllowedChannels` (violated) | see 6 |
| `QuoteEvents` | `TypeOK` `SettledStays` `MessagesBounded` `DeliveriesAccountedFor` | two requests, one delivery, two failures: a quote is final once no request holds it as a draft; it is messaged at most once per concurrent request and failure; outcomes are true, and wrong, missing or repeated only after a failure |
| `Services` | `TypeOK` and the seventeen below | each service in all its behaviours |

| of `Services` | says |
|---|---|
| `SharesFlights` | callers of a rotator share one refresh and its answer (refinement of `SingleFlight`) |
| `CredentialsFollowLogins` | one account, secret, key is live, but for overlaps and deaths half-way |
| `WithdrawnRunsOut` | logged-out tokens, withdrawn keys and retired accounts are refused in time; watches are renewed before they lapse |
| `WatermarkCovers` | the watermark passes no mail that was not stored or counted |
| `HandledOncePerMarker` | a reply, a WhatsApp message: once, but for overlapping looks at the marker |
| `ConsentHolds` | no mail to whom had opted out when the run read it; no answer through a replaced link |
| `CreatedOnce` | one contact per address, one resource per tenant, one number per quote, but for races |
| `OvershootBounded` | counters in KV, the daily cap of a contact and the daily limit of the mail sender are exceeded by no more than the overlaps |
| `DeferredToOpenHours` | a deferred run is told an open time, and the first one to the hour |
| `OpensConserved` | opens are neither lost nor doubled on their way while nothing overlaps |
| `ViewsAgree` | the row and the object of a call agree at rest on whether it is over |
| `CopiesSettle` | the mirrored key, the score, and the import's counts are right at rest |
| `OnlyPickedAreHit` | a bulk action hits only the contacts that were picked |
| `OwnSwitchSurvivesSave` | a desk's own kill switch survives its own save |
| `InOrder` | windows keep the latest in order; the spoken answer is the model's, piece by piece |
| `CampaignIsAsWritten` | a created campaign has its form's steps, numbered from 0, with credentials of their channel; a form makes one |
| `ActsWithinLimits` | a message is on its plan's channel, below the threshold, and open if it was the gated one |

**Bounds.** `MaxFailures` bounds exceptions and deaths (1 or 2): the interleavings of
one failure with everything else are complete. `EmailOut` bounds them by the code's own
limits, `MaxRetries` and `MaxAttempts`, lowered from 3 and 5 to 1 and 2 so that both are
reached. Two copies of a message are enough for the race of a copy with another; in
`Services` two e-mail jobs without copies or retries compete for a limit of 1. Two
contacts, two steps and a cap of 1 let the cap bind and sequences end; one tick and one
launch overlap (a second tick races with the first as the launch does, except that it
adds one to the index where the launch sets it). `QuoteEvents` has two failures, so that
a message can be redelivered and then lost with `Redeliveries` 1 instead of 3, and two
attempts instead of 3. With one delivery the bounds per failure say: none without a
failure. `LoopRuns` is 2 instead of 3 so that two runs trip the brake. In `Services`
there are two or three actors of each kind, so that every read-then-write is crossed by
another, and windows, pages, chunks and limits of 1 or 2 where the code has 20, 50 or
500, so that they fill; clocks run over two days (`GateHorizon` 50 half hours) or past
every expiry; number strings have base 2 and break at 4 instead of 10000. The file of an import has
an address twice, a row without one and an invalid row. The proofs hold for all values.

**Deadlock** checking is off: all work done is a legitimate end.

**Fairness.** The platform delivers queued messages and running handlers continue:
weak fairness per envelope of delivery and of the next step. Ticks have strong fairness, because the
cron starts one every minute for ever, also when others were busy at most moments.
Failures, operators and triggers owe nothing, except that a handler that has done
its first half goes on (launch, approval, the producer's send). A property that
needs the absence of failures says so (`failures > 0` as an escape). `Services` has
none: its properties are about what is true whenever a service is at rest or over.

**Symmetry** is used in safety runs over jobs, over contacts and ticks, and over requests.

## 4. Proofs

TLAPS proves, for every value of the constants:

| module | theorems |
|---|---|
| `EmailOutProofs` | `TypeCorrect`, `AcceptsBounded`, `AtMostOnceWithoutDuplication`, `FailedRecordsAreTrue`, `SentRecordsAreTrue`, `AllRecordsAreTrue`, `RevocationInTimeHolds`, `MailIsSentAsPromised`, `OvershootBounded` |
| `CampaignDripProofs` | `TypeCorrect`, `CapOvershootBounded`, `EndedAreLeftAlone`; if `Serial`: `NoStepTwice`, `LossIsBounded`, `ActiveGoesOn` |
| `AgentRunProofs` | `TypeCorrect`, `NoSecondAction`, `CompletedRunsActed`, `LeakBounded`, `LoopBrakeHolds`, `FewStranded` |
| `QuotesProofs` | `TypeCorrect`, `SettledQuotesStay`, `FewMessages`, `DeliveredIsTrue`, `DeliveriesAccounted` |
| `ServicesProofs` | `TypeCorrect`, `OvershootIsBounded`, `OnlyThePickedAreHit`, `OwnSwitchIsKept`, `OpensAreConserved`, `ConsentIsHeld`, `RotatorsShareFlights`, `AgentActsWithinLimits`, `CredentialsAreFollowed` |
| `InboxProofs` | `WatermarkIsHonest`, `MessagesAreHandledOnce`, `EventsStayInOrder` |
| `CopiesProofs` | `RowsAreCreatedOnce`, `CopiesAreSettled`, `CampaignsAreAsWritten` |
| `ClockProofs` | `DeferralsAreOpen`, `WithdrawnIsRefused`, `CallViewsAgree` |

**Assumptions**: the named `ASSUME` of each module, which TLC evaluates in the runs.
`ServicesAssumption` has what the code needs (positive limits, finite sets, disjoint
names), `ServicesBounds` only that the bounds on failures, edits and the like are
numbers, sets of actors finite, windows half hours of a day, allow-lists sets of
channels, and a subscription's lifetime longer than the day ahead
(`CronAhead < CronLifetime`, as in the code).
Three theorems on `CampaignDrip` have the hypothesis `Serial`, as the run that checks
these properties has it: where ticks and launches overlap, steps can be sent twice.

Each argument is an inductive invariant, stronger than the property it gives.

*E-mail.* `AcceptsBounded` counts, for each job, the copies that may still reach the
provider (`Senders`): they hold the marker or nobody does. Accepting costs one of
them, and nothing makes a new one, because the marker is written before the work and
is never removed. The invariant `accepted + |Senders| <= |copies|` is inductive, the
bound alone is not. `OvershootBounded` counts the invocations past the gate the same
way, and `InboxProofs` repeats it for the instance of `EmailOut` in `Services`
(`MailWithinLimit`).
`AllRecordsAreTrue` joins two of the others. `MailIsSentAsPromised` is the refinement of
`Mailer`, for any jobs, copies, retries and limits. Its invariant joins those of the
theorems before it (an envelope past the marker has its job's marker, what is past the
provider was accepted, what was stopped in time does not pass the pre-flight) with
`ComposedInv`: a message row exists before any envelope of its job is under way. The
lemmas then say of each step whose `Senders` it changes: none, one that leaves by sending,
or some that give up, of one job only; `Left` follows with the cardinalities.

*Campaign.* `CapInv` adds the actors that hold a grant: a job counted today was
granted today or is owed by an actor that held it at midnight. `SerialInv` says what the
actor at work has in its hand: its snapshot agrees with the rows it has not yet come to,
the row moved last is the one it owes a job, nobody else holds anything, and a step was
sent at most once and only behind the index. `LostInv` counts the steps behind the index
that were not sent and are in nobody's hand: only an actor that fails leaves one more.
`EndedAreLeftAlone` needs no more than that a
snapshot takes only active rows, whoever overlaps.

*Agent.* `RunInv` says the marker is set past the marker, so the pipeline of a run is
walked once, and whether it has acted can be told from its envelope's place; a run
waiting for an operator has left the pipeline unacted. `LeakInv`: while the switch is
on, the invocations past the load are at most the slack. `LoopInv`: the recent runs
past the load are fewer than the threshold, since a load that passes saw few recent
runs and rows are inserted uncommitted. `StrandedInv` counts the runs that nothing
will settle; each step strands at most one, and then has used up a failure.

*Quotes.* `MessagesInv`: a draft was messaged only by requests that are at the mark or
died there, and the messages and the requests about to send stay within the bound
together. `AnswerInv`: a message is at `markDelivered` only after an answer.
`SpoiledInv`: a delivery that no failure touched is a chain of messages of which only the
last is under way, and its row tells where. `PostsInv` bounds the posts of a delivery
that are past and those that its live messages may still make (`Ahead`), weighted by
their depth in the chain; a failure adds at most one whole round to the sum.

*Services.* `StepOfPart` says that a step of `Services` is a step of a part or leaves that
part's state alone; each theorem then has an inductive invariant of its own part, or one
for each part its property speaks of.
- Limits. `LimiterInv`: what a request will put is behind those let through by no more
  than the overlaps. `GateInv`: runs between gate and send, with what was sent, are within
  the bound, because a run passes only below the cap and the others are all the rest.
- Pages. `BulkInv`: what is ticked is what the clicks meant, through the empty list that
  the server takes for everyone. `DeskInv`: what a desk was told is no newer than the row,
  and a desk that wrote last and was not misled has the row's switch in its draft or in
  its request. `FormInv`: the steps are numbered while none was taken out, a click
  carries such a list, what is stored is its beginning, and of the clicks only those
  doubled make a second campaign.
- Consent and counters. `ConsentInv`: a row whose link was replaced has no token only if
  its contact is gone. `TrackInv`: while undisturbed at most one hit has read, and the
  counter to be deleted was taken whole.
- Accounts. `RotatorInv`: who shares a refresh waits for no other, which makes each step
  of the rotators a step or a stutter of `SingleFlight`. `LoginInv`, `SecretsInv`: the live
  rows and those about to be inserted are as many as one and the overlaps, which needs
  that a retirement leaves none behind. `RetiredInv`: a retired account is cached at most
  once more, by the refresh that was at Google when it was retired. `SessionInv`:
  a keyset in the cache is no older than its lifetime, and a revocation outlives its token.
- Agent. `PlanInv`: a run past a gate has the gate's fact for the limits it loaded.
- Mailbox. `InboundInv`: what a job has listed below its watermark is stored, counted or
  still in its hands, and a watermark that goes back loses nothing. `ReplyInv` and `ChatInv`
  count the jobs that have found no marker with those that acted.
- Created once. `ContactsInv`, `SetupInv` and `NumbersInv` count the actors between look-up
  and insert; the third also says that the number of one of them is still free, since the
  overlaps alone would leave one creation too few.
- Copies. `ImportShows`, `ScoringInv` (an older scorer is marked as overtaken) and
  `ConfigInv` (while calm, whatever a tab would write has the newest key).
- Time. `DueInv` with lemmas on half hours modulo a day, by the cases of a window across
  midnight; `CronInv`: the hours left and those of failed renewals make up the day ahead.
- Calls. `VoiceInv`: the row and the object differ only while somebody is half-way, and
  that one knows the end it has still to write.
- Order. `MemoryInv` gives each event its rank by time and arrival: the window holds the
  highest ranks, sorted, and an insertion moves the ranks above it by one. `SpeechInv`:
  what was sent has its texts in order below the next line, each whole line passed is among them,
  and the end is sent exactly when one of the two last lines has passed whole.

- Types. `TypeCorrect` joins the invariants above with the ranges they had no use for
  (`FlowInv`, `CountInv`, `PeopleInv`, part by part). Some are no mere bookkeeping: a desk
  shows no newer version than was written, because the row's version and the requests
  under way are together no more than the writes asked for (`DeskWritten`); a run asks
  the model at most twice, because one that is asked again has asked once (`PlanRows`); a
  score stays within 0..84, by the formula and the decays of each factor; a deferred run
  is told a later time, the first open one of the next 25 hours or a day later
  (`GateTimes`); a counter of opens never falls below zero (`TrackCounts`).

`ServicesProofs` extends `InboxProofs`, that `CopiesProofs`, that `ClockProofs`, so that
`TypeCorrect` can cite the lemmas of all four. The lemmas these need again and again (a set with a member more or fewer, lists joined,
cut and trimmed, ranks, intervals) stand before the part that uses them.

**Only model-checked:** the liveness properties `QueuesDrain`, `SequencesEnd` and
`SettlesWithoutFailure`, which with fairness are beyond this prover. Every invariant, every
action property and both refinements of the passing runs are proved. The runs that end in
a counterexample (6) are about what does not hold.

## 5. Not modelled
* Rendering, MIME, encryption, signatures and role checks: no state of their own, or
  library calls. The LLM, Google, Meta, RingCentral and ElevenLabs may answer anything.
* Statements guarded by one status in the same handler, without a copy elsewhere: edit
  and deletion of a campaign or a template, webhook subscriptions, PATCH of a pending
  decision, PUT integrations/elevenlabs, bulk tags.
* The upload dialog of the Contacts page and the contact editor; the other pages, which
  show what the server keeps.
* The nightly digest and the sweep over scores as wholes (a scorer of `LeadScoring` is
  one contact's share of the sweep); transcripts and in-call tools of the ElevenLabs webhook.
* Analytics and search routes only read. Scripts and migrations are no behaviour.
* No inbound text revokes a consent in this code, so `WhatsApp`, `InboundMail` and
  `Consent` do not meet.

## 6. Where the code and its own words differ

Shown by runs:
* `EmailRetryLost`: a failed e-mail is retried with its old payload id and dropped as a
  duplicate; it is never retried nor dead-lettered (`queue-helpers.ts:39`).
* `EmailRevokeIgnored`: a revocation before `result_ref` is written is not seen
  (`dispatcher.ts:9-10`).
* `CampaignMissed`: the cron does not retry a launch's failed dispatch, as the
  enrollment is already past the step (`campaigns.ts:263`).
* `AgentKillSwitch`: a more specific row with `kill_switch: false`, which clearing a
  switch leaves behind, overrides a wider switch (`policy-gate.ts:34`).
* `AgentApproved`: an approved run fails with `missing_contact_id`
  (`AIControlPanel.tsx:419`).
* `PlannerBypass`: the gate looks at the channel inferred from the trigger, the message
  goes out on the one the model chose (`policy-gate.ts:37`, `65`).

Met while modelling, each visible in the module named, as a step or as an exception in a
property:
* Queues (`InboundMail`, `ImportJob`, `WhatsApp`, `VoiceCall`): `msg.retry()` after the
  marker is dropped at its redelivery, so a Gmail, import or voice job that failed once
  is lost, and its import stays 'processing'.
* `InboundMail`: a bounce's row has no contact and `INSERT OR IGNORE` drops it, so the
  next listing counts it again.
* `Consent`: `sendConsentRequests` takes no `filter.ids`, though every endpoint of
  `contacts-bulk.ts:11` "accepts the same filter"; an unsubscribe through icrv-api writes
  no suppression; the consent mail promises no marketing before a "Yes", the policy gate
  stops only at 'revoked'; an import or an edit form that is older than a revocation
  revives the consent.
* `BulkSelect`: after "select all matching" a click on a row ticks that row alone
  (`Contacts.tsx:568`); rows and total may belong to an older query; `POST /bulk` with no
  ids and no query means every contact.
* `ControlDesk`: `handleKillSwitch` goes by the state at the moment of the confirmation,
  so a confirmed "Activate" clears the switch if a poll has meanwhile told the desk that
  the agent is halted (`AIControlPanel.tsx:155`, `399`); a Save by a desk that shows
  "Halted" can switch the agent on, since the draft follows only the row's id.
* `Session`: a revocation entry runs out at `exp`, the token is accepted in that second;
  an unknown key id does not refetch the keyset for up to an hour.
* `OAuthRotator`, `Maintenance`: the watch's renewal asks a rotator by another name than
  the one that holds the token; the cron renews `rc:subscription:*`, the bootstraps write
  `rc_webhook_id` and `rc_subscription_id`; the response of a renewal is not looked at.
* `VoiceSetup`: one bootstrap registers two RingCentral subscriptions, one in each
  worker, though `misc.ts:313` calls it idempotent.
* `VoiceCall`: a hang-up before the call has a session answers `ended: true` and the call
  is dialled all the same; webhooks may set a terminal status back, and each terminal one
  starts another post-call run.
* `Credentials`: a WhatsApp job queued before its credential was replaced is refused, and
  its retry dropped.
* `Settings`: a panel whose load failed shows defaults, which Save writes; Generate puts
  back the section as it was at the click.
* `SendGate`: no code resumes a deferred run; a quiet window with equal ends is always quiet.
* `Planner`: a threshold of 1 ("never require approval") holds back a risk of 1.0, since
  the comparison is ≥.
* `AgentRun`: `setActionStatus('executed')` after the queue send overwrites what the
  consumer or an operator wrote meanwhile.
* `LlmStream`: lines cut by a chunk are skipped; `message_delta` and `message_stop` each
  make a finish and a `[DONE]`.
* `QuoteNumbers`: after 9999 the greatest string stays 9999 and every creation fails;
  the number of a deleted last draft is given again.
* `ContactMemory`: the session's events, called chronological, are in order of arrival;
  a late inbound resets the count of unanswered messages. Nothing calls ContactInboxDO.
* `CampaignForm`: each added step clears the bound credential and nothing binds it again,
  so a second step is refused until the channel is switched (`Campaigns.tsx:97`, `124`);
  a removed step leaves the other numbers, so that the next one collides, and the
  creation fails with the campaign and some steps left behind, or a gap is stored
  (`259`); a second click while the inline template is created makes a second campaign.
* `Tracking`: clicks are counted and never moved to D1; the hourly roll loses opens that
  come between its read and its delete.

Outside the models: the digest's joins multiply its counts (cron `290-302`); a second
upload leaves the first one's poll running past its "hard 5-minute deadline"
(`Contacts.tsx:170-290`); the filter by tag reads `contact_tags`, bulk tags write
`tags_json`.

## 7. What is left
1. Liveness of an import and of a refresh under the platform's fairness (by TLC).
2. The operations listed in 5 that write a copy: the upload dialog and its polls, the
   contact editor, the nightly digest.
