---------------------------- MODULE ClockProofs -----------------------------
(****************************************************************************)
(* What depends on clocks and on who is later: runs deferred for quiet       *)
(* hours, tokens, keys and subscriptions that run out, and the two views     *)
(* of a call. Every theorem is about any windows, time zones, lifetimes      *)
(* and numbers of clients, callbacks and deliveries.                         *)
(****************************************************************************)
EXTENDS Services, FiniteSetTheorems, SequenceTheorems, WellFoundedInduction, TLAPS

(* A step of the services is a step of a part or leaves its state alone. *)
LEMMA StepOfPart ==
  ASSUME [Next]_vars
  PROVE  /\ OAuth!Next \/ UNCHANGED oauthVars
         /\ Inbound!Next \/ UNCHANGED inboundVars
         /\ Consents!Next \/ UNCHANGED consentsVars
         /\ Import!Next \/ UNCHANGED importVars
         /\ Chat!Next \/ UNCHANGED chatVars
         /\ Limiter!Next \/ UNCHANGED limiterVars
         /\ Track!Next \/ UNCHANGED trackVars
         /\ Voice!Next \/ UNCHANGED voiceVars
         /\ Setup!Next \/ UNCHANGED setupVars
         /\ Config!Next \/ UNCHANGED configVars
         /\ Gate!Next \/ UNCHANGED gateVars
         /\ Scoring!Next \/ UNCHANGED scoringVars
         /\ Cron!Next \/ UNCHANGED cronVars
         /\ Bulk!Next \/ UNCHANGED bulkVars
         /\ Desk!Next \/ UNCHANGED deskVars
         /\ Login!Next \/ UNCHANGED loginVars
         /\ Secrets!Next \/ UNCHANGED secretsVars
         /\ Memory!Next \/ UNCHANGED memoryVars
         /\ Numbers!Next \/ UNCHANGED numbersVars
         /\ Speech!Next \/ UNCHANGED speechVars
         /\ Form!Next \/ UNCHANGED formVars
         /\ Plan!Next \/ UNCHANGED planVars
         /\ Mail!Next \/ UNCHANGED mailVars
  BY DEF Next, vars, Works, OAuthStep, InboundStep, ConsentsStep, ImportStep, ChatStep, LimiterStep,
     TrackStep, VoiceStep, SetupStep, ConfigStep, GateStep, ScoringStep, CronStep, BulkStep, DeskStep,
     LoginStep, SecretsStep, MemoryStep, NumbersStep, SpeechStep, FormStep, PlanStep, MailStep

-----------------------------------------------------------------------------
(* Quiet hours. *)
LEMMA LeastOf ==
  ASSUME NEW T \in SUBSET Nat, T # {}
  PROVE  \E x \in T : \A y \in T : x <= y
  <1>1. PICK x \in T : \A y \in T : ~ (<<y, x>> \in OpToRel(<, Nat))
    BY NatLessThanWellFounded, WFMin
  <1>2. \A y \in T : ~ (y < x)
    BY <1>1 DEF OpToRel
  <1> QED BY <1>2

(* Half hours past the window's start, over the day, against its length: the *)
(* code's two comparisons, the one within the day and the one across         *)
(* midnight, come to one.                                                    *)
Past(w, t) == (t + GateOffset - w.start) % 48
Length(w)  == (w.end - w.start - 1) % 48

LEMMA InQuietHours ==
  ASSUME NEW w \in GateWindows, NEW t \in Int, w # Gate!NoWindow
  PROVE  Gate!IsInQuietHours(w, t) <=> Past(w, t) <= Length(w)
  <1>1. w.start \in 0..47 /\ w.end \in 0..47 /\ t + GateOffset \in Int
    BY ServicesBounds
  <1>2. Gate!IsInQuietHours(w, t) <=>
          IF w.start < w.end
          THEN w.start <= (t + GateOffset) % 48 /\ (t + GateOffset) % 48 < w.end
          ELSE w.start <= (t + GateOffset) % 48 \/ (t + GateOffset) % 48 < w.end
    BY DEF Gate!IsInQuietHours, Gate!Day
  <1>3. ASSUME NEW b \in Int, NEW x \in 0..47, NEW y \in 0..47
        PROVE  (b - x) % 48 <= (y - x - 1) % 48 <=>
                 IF x < y THEN x <= b % 48 /\ b % 48 < y ELSE x <= b % 48 \/ b % 48 < y
    OBVIOUS
  <1> QED BY <1>1, <1>2, <1>3 DEF Past, Length

LEMMA PastMoves ==
  ASSUME NEW w \in GateWindows, NEW t \in Int
  PROVE  /\ Past(w, t) \in 0..47 /\ Length(w) \in 0..47
         /\ Past(w, t + 1) = IF Past(w, t) = 47 THEN 0 ELSE Past(w, t) + 1
         /\ Past(w, t - 1) = IF Past(w, t) = 0 THEN 47 ELSE Past(w, t) - 1
  <1>1. w.start \in 0..47 /\ w.end \in 0..47 /\ GateOffset \in Int
    BY ServicesBounds
  <1>2. \A b \in Int : /\ b % 48 \in 0..47
                       /\ (b + 1) % 48 = IF b % 48 = 47 THEN 0 ELSE (b % 48) + 1
                       /\ (b - 1) % 48 = IF b % 48 = 0 THEN 47 ELSE (b % 48) - 1
    OBVIOUS
  <1>3. /\ t + 1 + GateOffset - w.start = (t + GateOffset - w.start) + 1
        /\ t - 1 + GateOffset - w.start = (t + GateOffset - w.start) - 1
        /\ t + GateOffset - w.start \in Int /\ w.end - w.start - 1 \in Int
    BY <1>1
  <1> QED BY <1>2, <1>3 DEF Past, Length

(* Where a whole hour is open, no half hour is open alone. *)
LEMMA OpenInPairs ==
  ASSUME NEW w \in GateWindows, NEW s \in Int, NEW u \in Int,
         Past(w, s) > Length(w), Past(w, s + 1) > Length(w), Past(w, u) > Length(w)
  PROVE  Past(w, u - 1) > Length(w) \/ Past(w, u + 1) > Length(w)
  <1>1. Length(w) \in 0..47 /\ Past(w, s) \in 0..47 /\ Past(w, u) \in 0..47
    BY PastMoves
  <1>2. Length(w) <= 45
    BY PastMoves, <1>1
  <1>3. CASE Past(w, u) = Length(w) + 1
    BY <1>1, <1>2, <1>3, PastMoves
  <1>4. CASE Past(w, u) > Length(w) + 1
    BY <1>1, <1>4, PastMoves
  <1> QED BY <1>1, <1>3, <1>4

LEMMA NextOpens ==
  ASSUME NEW w \in GateWindows, w # Gate!NoWindow, NEW t \in Nat,
         Gate!IsInQuietHours(w, t), Gate!OpenHour(w, t)
  PROVE  /\ ~Gate!Quiet(w, Gate!NextWindowOpen(w, t))
         /\ \A u \in t..(Gate!NextWindowOpen(w, t) - Gate!Hour) : Gate!Quiet(w, u)
  <1> DEFINE quiet(u) == Past(w, u) <= Length(w)
             open == {i \in 1..25 : ~Gate!IsInQuietHours(w, t + i * 2)}
  <1>1. \A u \in Int : Gate!Quiet(w, u) <=> quiet(u)
    BY DEF Gate!Quiet, Past, Length, Gate!Day
  <1>2. \A u \in Int : Gate!IsInQuietHours(w, u) <=> quiet(u)
    BY InQuietHours
  <1>3. PICK s \in t..(t + 46) : ~quiet(s) /\ ~quiet(s + 1)
    <2>1. PICK s \in t..(t + 46) : \A u \in s..(s + 1) : ~Gate!Quiet(w, u)
      BY DEF Gate!OpenHour, Gate!Day, Gate!Hour
    <2>2. s \in Int /\ s + 1 \in Int /\ s \in s..(s + 1) /\ s + 1 \in s..(s + 1)
      OBVIOUS
    <2> QED BY <1>1, <2>1, <2>2
  <1>4. quiet(t)
    BY <1>2
  <1>q. \A u \in Int : quiet(u) \in BOOLEAN
    OBVIOUS
  <1>5. \A u \in Int : ~quiet(u) => ~quiet(u - 1) \/ ~quiet(u + 1)
    <2> SUFFICES ASSUME NEW u \in Int, ~quiet(u), quiet(u - 1), quiet(u + 1) PROVE FALSE
      OBVIOUS
    <2>1. s \in Int /\ s + 1 \in Int /\ u - 1 \in Int /\ u + 1 \in Int
      OBVIOUS
    <2>2. \A v \in Int : Past(w, v) \in Int /\ Length(w) \in Int
      BY PastMoves
    <2>3. Past(w, s) > Length(w) /\ Past(w, s + 1) > Length(w) /\ Past(w, u) > Length(w)
      BY <1>3, <2>1, <2>2
    <2>4. Past(w, u - 1) > Length(w) \/ Past(w, u + 1) > Length(w)
      BY <2>3, OpenInPairs
    <2> QED BY <2>1, <2>2, <2>4
  <1>6. open = {i \in 1..25 : ~quiet(t + i * 2)}
    BY <1>2
  <1> HIDE DEF quiet
  <1>7. open # {}
    <2>1. s # t
      BY <1>3, <1>4
    <2>2. PICK i \in 1..24 : t + i * 2 = s \/ t + i * 2 = s + 1
      <3> DEFINE k == (s - t + 1) \div 2
      <3>1. k \in 1..24 /\ (t + k * 2 = s \/ t + k * 2 = s + 1)
        BY <2>1
      <3> QED BY <3>1
    <2> QED BY <1>3, <1>6, <2>2, SMTT(40)
  <1>n. open \in SUBSET Nat /\ \A i \in open : i \in 1..25
    OBVIOUS
  <1>o. ASSUME NEW i \in 1..25 PROVE i \notin open <=> quiet(t + 2 * i)
    <2>1. t + i * 2 = t + 2 * i
      OBVIOUS
    <2> QED BY <1>6, <2>1
  <1> HIDE DEF open
  <1>8. PICK k \in open : \A j \in open : k <= j
    BY <1>7, <1>n, LeastOf
  <1>9. (CHOOSE i \in open : \A j \in open : i <= j) = k
    <2>1. \A i \in open : (\A j \in open : i <= j) => i = k
      BY <1>8, <1>n
    <2> QED BY <1>8, <2>1
  <1>10. Gate!NextWindowOpen(w, t) = t + 2 * k
    <2>1. Gate!NextWindowOpen(w, t) = t + 2 * (CHOOSE i \in open : \A j \in open : i <= j)
      BY <1>7 DEF open, Gate!NextWindowOpen, Gate!Hour, Gate!Day
    <2> QED BY <2>1, <1>9
  <1>11. ~quiet(t + 2 * k)
    BY <1>n, <1>o, <1>8
  <1>12. ASSUME NEW j \in 0..(k - 1) PROVE quiet(t + 2 * j)
    <2>1. CASE j = 0
      BY <1>4, <2>1
    <2>2. CASE j # 0
      BY <1>n, <1>o, <1>8, <2>2
    <2> QED BY <2>1, <2>2
  <1>13. ASSUME NEW u \in t..(t + 2 * k - 2) PROVE quiet(u)
    <2> DEFINE j == (u - t) \div 2
    <2>1. j \in 0..(k - 1) /\ (u = t + 2 * j \/ (u = t + 2 * j + 1 /\ j + 1 \in 0..(k - 1)))
      BY <1>n, <1>8, <1>13
    <2>2. CASE u = t + 2 * j
      BY <1>12, <2>1, <2>2
    <2>3. CASE u = t + 2 * j + 1 /\ j + 1 \in 0..(k - 1)
      <3>1. quiet(t + 2 * j) /\ quiet(t + 2 * (j + 1))
        BY <1>12, <2>1, <2>3
      <3>2. u - 1 = t + 2 * j /\ u + 1 = t + 2 * (j + 1) /\ u \in Int
        BY <2>1, <2>3
      <3> QED BY <3>1, <3>2, <1>5
    <2> QED BY <2>1, <2>2, <2>3
  <1>14. t + 2 * k \in Int /\ t + 2 * k - 2 \in Int /\ k \in 1..25
    BY <1>8, <1>n
  <1> QED BY <1>1, <1>10, <1>11, <1>13, <1>14 DEF Gate!Hour

(* What a run that waits for the window's end was told. *)
DueInv ==
  /\ gateClock \in Nat
  /\ gateWindow \in GateWindows \cup {Gate!NoWindow}
  /\ DOMAIN gateDue = GateRuns
  /\ \A r \in GateRuns : gateDue[r].window # Gate!NoWindow =>
       LET w == gateDue[r].window
           t == gateDue[r].since
       IN  /\ w \in GateWindows /\ t \in Nat
           /\ Gate!IsInQuietHours(w, t) /\ gateDue[r].at = Gate!NextWindowOpen(w, t)

LEMMA InitDueInv == Gate!Init => DueInv
  BY DEF Gate!Init, DueInv, Gate!NotDue

LEMMA NextDueInv ==
  ASSUME DueInv, Gate!Next \/ UNCHANGED gateVars
  PROVE  DueInv'
  <1> DEFINE Told(d) == d.window # Gate!NoWindow =>
               /\ d.window \in GateWindows /\ d.since \in Nat
               /\ Gate!IsInQuietHours(d.window, d.since) /\ d.at = Gate!NextWindowOpen(d.window, d.since)
             Steady == UNCHANGED <<gateClock, gateWindow>>
  <1>1. /\ gateClock \in Nat /\ gateWindow \in GateWindows \cup {Gate!NoWindow}
        /\ DOMAIN gateDue = GateRuns /\ \A r \in GateRuns : Told(gateDue[r])
    BY DEF DueInv
  <1>2. ASSUME gateClock' \in Nat, gateWindow' \in GateWindows \cup {Gate!NoWindow},
               DOMAIN gateDue' = GateRuns, \A r \in GateRuns : Told(gateDue'[r])
        PROVE  DueInv'
    BY <1>2 DEF DueInv
  <1>3. Told(Gate!NotDue)
    BY DEF Gate!NotDue
  <1> HIDE DEF Told
  <1>4. ASSUME NEW r \in GateRuns, NEW d, Told(d), gateDue' = [gateDue EXCEPT ![r] = d], Steady
        PROVE  DueInv'
    BY <1>1, <1>2, <1>4
  <1>5. CASE UNCHANGED gateVars
    BY <1>1, <1>2, <1>5 DEF gateVars
  <1>6. ASSUME NEW r \in GateRuns, Gate!DeferQuiet(r) PROVE DueInv'
    <2> DEFINE d == [at |-> Gate!NextWindowOpen(gateWindow, gateClock), since |-> gateClock,
                     window |-> gateWindow]
    <2>1. Told(d)
      BY <1>1, <1>6 DEF Told, Gate!DeferQuiet
    <2> QED BY <1>4, <1>6, <2>1 DEF Gate!DeferQuiet
  <1>7. ASSUME NEW r \in GateRuns, Gate!DeferCapped(r) PROVE DueInv'
    <2> DEFINE d == [at |-> (gateClock \div Gate!Day + 1) * Gate!Day + 9 * Gate!Hour,
                     since |-> gateClock, window |-> Gate!NoWindow]
    <2>1. Told(d)
      BY DEF Told
    <2> QED BY <1>4, <1>7, <2>1 DEF Gate!DeferCapped
  <1>8. ASSUME NEW r \in GateRuns, Gate!Allow(r) \/ Gate!Send(r) PROVE DueInv'
    BY <1>1, <1>2, <1>8 DEF Gate!Allow, Gate!Send
  <1>9. ASSUME NEW r \in GateRuns, Gate!Restart(r) PROVE DueInv'
    BY <1>3, <1>4, <1>9 DEF Gate!Restart
  <1>10. CASE Gate!SetWindow
    BY <1>1, <1>2, <1>10 DEF Gate!SetWindow
  <1>11. CASE Gate!Tick
    BY <1>1, <1>2, <1>3, <1>11 DEF Gate!Tick
  <1> QED BY <1>5, <1>6, <1>7, <1>8, <1>9, <1>10, <1>11 DEF Gate!Next

LEMMA DueHeld == DueInv => Gate!DeferredToOpenHours
  <1> SUFFICES ASSUME DueInv, NEW r \in GateRuns,
                      gateDue[r].window # Gate!NoWindow,
                      Gate!OpenHour(gateDue[r].window, gateDue[r].since)
               PROVE  /\ ~Gate!Quiet(gateDue[r].window, gateDue[r].at)
                      /\ \A u \in gateDue[r].since..(gateDue[r].at - Gate!Hour) :
                           Gate!Quiet(gateDue[r].window, u)
    BY DEF Gate!DeferredToOpenHours
  <1> DEFINE w == gateDue[r].window
             t == gateDue[r].since
  <1>1. /\ w \in GateWindows /\ t \in Nat
        /\ Gate!IsInQuietHours(w, t) /\ gateDue[r].at = Gate!NextWindowOpen(w, t)
    BY DEF DueInv
  <1> QED BY <1>1, NextOpens

(* A run deferred for quiet hours is told a time outside them, at most an  *)
(* hour after they end, across midnight and for every window and time zone *)
(* (policy-gate.ts:122-145).                                               *)
THEOREM DeferralsAreOpen == Spec => []DeferredToOpenHours
  <1>1. Init => DueInv
    BY InitDueInv DEF Init
  <1>2. DueInv /\ [Next]_vars => DueInv'
    BY NextDueInv, StepOfPart
  <1>3. DueInv => DeferredToOpenHours
    BY DueHeld DEF DeferredToOpenHours
  <1> QED BY <1>1, <1>2, <1>3, PTL DEF Spec

-----------------------------------------------------------------------------
(* The tokens of an account that a login has retired: its state has its *)
(* types, whatever the callers and the logins do.                       *)
LEMMA InitOAuthTypes == OAuth!Init => OAuth!TypeOK
  <1> OAuthMaxFailures \in Nat /\ OAuthMaxExpiries \in Nat
    BY ServicesAssumption, ServicesBounds
  <1> QED BY DEF OAuth!Init, OAuth!TypeOK, OAuth!accountVars, OAuth!rotatorVars, OAuth!Accounts,
             OAuth!Before, OAuth!GoOn, OAuth!InFlight, OAuth!Asks, OAuth!Land

LEMMA NextOAuthTypes ==
  ASSUME OAuth!TypeOK, OAuth!Next \/ UNCHANGED oauthVars
  PROVE  OAuth!TypeOK'
  <1> OAuthMaxFailures \in Nat /\ OAuthMaxExpiries \in Nat
    BY ServicesAssumption, ServicesBounds
  <1> USE DEF OAuth!TypeOK, OAuth!accountVars, OAuth!rotatorVars, OAuth!Accounts, OAuth!Before, OAuth!GoOn, OAuth!InFlight, OAuth!Asks, OAuth!Land
  <1>1. CASE UNCHANGED oauthVars
    BY <1>1 DEF oauthVars
  <1>2. ASSUME NEW l \in OAuthCallbacks, OAuth!CheckState(l) PROVE OAuth!TypeOK'
    BY <1>2 DEF OAuth!CheckState
  <1>3. ASSUME NEW l \in OAuthCallbacks, OAuth!ConsumeState(l) PROVE OAuth!TypeOK'
    BY <1>3 DEF OAuth!ConsumeState
  <1>4. ASSUME NEW l \in OAuthCallbacks, OAuth!ExchangeCode(l) PROVE OAuth!TypeOK'
    BY <1>4 DEF OAuth!ExchangeCode
  <1>5. ASSUME NEW l \in OAuthCallbacks, OAuth!RetireAccounts(l) PROVE OAuth!TypeOK'
    <2>1. OAuth!Cardinality(OAuth!Inserting) \in Nat
      BY ServicesAssumption, FS_Subset, FS_CardinalityType DEF OAuth!Inserting, OAuth!Cardinality,
         Cardinality
    <2> QED BY <1>5, <2>1 DEF OAuth!RetireAccounts
  <1>6. ASSUME NEW l \in OAuthCallbacks, OAuth!InsertAccount(l) PROVE OAuth!TypeOK'
    BY <1>6 DEF OAuth!InsertAccount
  <1>7. ASSUME NEW l \in OAuthCallbacks, OAuth!CallbackDies(l) PROVE OAuth!TypeOK'
    BY <1>7 DEF OAuth!CallbackDies
  <1>8. ASSUME NEW c \in OAuthCallers, OAuth!PickSender(c) PROVE OAuth!TypeOK'
    BY <1>8 DEF OAuth!PickSender
  <1>9. ASSUME NEW c \in OAuthCallers, NEW a \in OAuth!Accounts, OAuth!AnswerFromCache(c, a) PROVE OAuth!TypeOK'
    BY <1>9 DEF OAuth!AnswerFromCache
  <1>10. ASSUME NEW c \in OAuthCallers, NEW a \in OAuth!Accounts, OAuth!JoinRefresh(c, a) PROVE OAuth!TypeOK'
    BY <1>10 DEF OAuth!JoinRefresh
  <1>11. ASSUME NEW c \in OAuthCallers, NEW a \in OAuth!Accounts, OAuth!StartRefresh(c, a) PROVE OAuth!TypeOK'
    BY <1>11 DEF OAuth!StartRefresh
  <1>12. ASSUME NEW a \in OAuth!Accounts, OAuth!SelectToken(a) PROVE OAuth!TypeOK'
    BY <1>12 DEF OAuth!SelectToken
  <1>13. ASSUME NEW a \in OAuth!Accounts, OAuth!RefreshFails(a) PROVE OAuth!TypeOK'
    BY <1>13 DEF OAuth!RefreshFails
  <1>14. ASSUME NEW a \in OAuth!Accounts, OAuth!StoreToken(a) PROVE OAuth!TypeOK'
    BY <1>14 DEF OAuth!StoreToken
  <1>15. ASSUME NEW a \in OAuth!Accounts, OAuth!MirrorToken(a) PROVE OAuth!TypeOK'
    BY <1>15 DEF OAuth!MirrorToken
  <1>16. ASSUME NEW a \in OAuth!Accounts, OAuth!Evict(a) PROVE OAuth!TypeOK'
    BY <1>16 DEF OAuth!Evict
  <1>17. ASSUME NEW a \in OAuth!Accounts, OAuth!TokenExpires(a) PROVE OAuth!TypeOK'
    BY <1>17 DEF OAuth!TokenExpires
  <1> QED BY <1>1, <1>2, <1>3, <1>4, <1>5, <1>6, <1>7, <1>8, <1>9, <1>10, <1>11, <1>12, <1>13,
             <1>14, <1>15, <1>16, <1>17 DEF OAuth!Next, OAuth!CallbackStep, OAuth!CallerStep,
             OAuth!RotatorStep

RetiredInv ==
  /\ OAuth!TypeOK
  /\ \A a \in oauthActive \cup oauthRetired : a = OAuthFirst \/ oauthLogin[a] = "done"
  /\ oauthActive \cap oauthRetired = {}
  /\ \A a \in OAuth!Accounts : a \notin oauthRetired => oauthLate[a] = 0
  /\ \A a \in OAuth!Accounts : oauthStage[a] = "google" => oauthLate[a] = 0
  /\ \A a \in OAuth!Accounts : oauthLate[a] \in {0, 1}

LEMMA InitRetiredInv == OAuth!Init => RetiredInv
  <1> SUFFICES ASSUME OAuth!Init PROVE RetiredInv
    OBVIOUS
  <1>1. OAuth!TypeOK
    BY InitOAuthTypes
  <1> QED BY <1>1 DEF OAuth!Init, RetiredInv

LEMMA NextRetiredInv ==
  ASSUME RetiredInv, OAuth!Next \/ UNCHANGED oauthVars
  PROVE  RetiredInv'
  <1> OAuth!TypeOK /\ OAuth!TypeOK'
    BY NextOAuthTypes DEF RetiredInv
  <1>t. /\ DOMAIN oauthLogin = OAuthCallbacks /\ DOMAIN oauthLate = OAuth!Accounts
        /\ DOMAIN oauthStage = OAuth!Accounts /\ OAuthCallbacks \subseteq OAuth!Accounts
        /\ oauthActive \subseteq OAuth!Accounts /\ oauthRetired \subseteq OAuth!Accounts
        /\ OAuthFirst \notin OAuthCallbacks
    BY ServicesBounds DEF OAuth!TypeOK, OAuth!Accounts
  <1> DEFINE Rows == /\ \A a \in oauthActive \cup oauthRetired : a = OAuthFirst \/ oauthLogin[a] = "done"
                     /\ oauthActive \cap oauthRetired = {}
             Late == /\ \A a \in OAuth!Accounts : a \notin oauthRetired => oauthLate[a] = 0
                     /\ \A a \in OAuth!Accounts : oauthStage[a] = "google" => oauthLate[a] = 0
                     /\ \A a \in OAuth!Accounts : oauthLate[a] \in {0, 1}
  <1> SUFFICES Rows' /\ Late'
    BY DEF RetiredInv
  <1> Rows /\ Late
    BY DEF RetiredInv
  <1>a. \A a \in OAuth!Accounts : a = OAuthFirst \/ a \in OAuthCallbacks
    BY DEF OAuth!Accounts
  <1> HIDE DEF RetiredInv, OAuth!TypeOK, OAuth!Accounts
  <1>1. CASE UNCHANGED oauthVars
    BY <1>1 DEF oauthVars
  <1>2. ASSUME NEW l \in OAuthCallbacks, OAuth!CallbackStep(l) PROVE Rows' /\ Late'
    <2>1. UNCHANGED <<oauthLate, oauthStage>>
      BY <1>2 DEF OAuth!CallbackStep, OAuth!CheckState, OAuth!ConsumeState, OAuth!ExchangeCode,
           OAuth!RetireAccounts, OAuth!InsertAccount, OAuth!CallbackDies, OAuth!rotatorVars
    <2>2. CASE OAuth!RetireAccounts(l)
      <3>1. Rows'
        BY <2>2, <1>t, <1>a DEF OAuth!RetireAccounts, OAuth!GoOn
      <3>2. oauthRetired \subseteq oauthRetired'
        BY <2>2 DEF OAuth!RetireAccounts
      <3> QED BY <3>1, <3>2, <2>1
    <2>3. CASE OAuth!InsertAccount(l)
      <3>1. l \notin oauthRetired /\ l # OAuthFirst
        BY <2>3, <1>t DEF OAuth!InsertAccount
      <3> QED BY <2>3, <3>1, <2>1, <1>t, <1>a DEF OAuth!InsertAccount, OAuth!GoOn
    <2>4. CASE OAuth!CheckState(l) \/ OAuth!ConsumeState(l) \/ OAuth!ExchangeCode(l) \/ OAuth!CallbackDies(l)
      <3>1. /\ UNCHANGED <<oauthActive, oauthRetired>>
            /\ oauthLogin[l] # "done"
            /\ \A k \in OAuthCallbacks : k # l => oauthLogin'[k] = oauthLogin[k]
        BY <2>4, <1>t DEF OAuth!CheckState, OAuth!ConsumeState, OAuth!ExchangeCode,
           OAuth!CallbackDies, OAuth!GoOn
      <3> QED BY <3>1, <2>1, <1>t, <1>a
    <2> QED BY <1>2, <2>2, <2>3, <2>4 DEF OAuth!CallbackStep
  <1>3. ASSUME NEW c \in OAuthCallers, OAuth!CallerStep(c) PROVE Rows' /\ Late'
    <2>1. UNCHANGED <<oauthActive, oauthRetired, oauthLogin, oauthLate>>
          /\ \A a \in OAuth!Accounts : oauthStage'[a] = "google" => oauthStage[a] = "google"
      BY <1>3, <1>t DEF OAuth!CallerStep, OAuth!PickSender, OAuth!AnswerFromCache,
         OAuth!JoinRefresh,
           OAuth!StartRefresh, OAuth!accountVars
    <2> QED BY <2>1
  <1>4. ASSUME NEW b \in OAuth!Accounts, OAuth!RotatorStep(b) PROVE Rows' /\ Late'
    <2>1. UNCHANGED <<oauthActive, oauthRetired, oauthLogin>>
      BY <1>4 DEF OAuth!RotatorStep, OAuth!SelectToken, OAuth!RefreshFails, OAuth!StoreToken,
           OAuth!MirrorToken, OAuth!Evict, OAuth!TokenExpires, OAuth!accountVars
    <2>2. CASE OAuth!SelectToken(b)
      <3>1. b \notin oauthRetired
        BY <2>2 DEF OAuth!SelectToken
      <3> QED BY <2>1, <2>2, <3>1, <1>t DEF OAuth!SelectToken
    <2>3. CASE OAuth!StoreToken(b)
      <3>1. oauthLate[b] = 0 /\ oauthStage' = [oauthStage EXCEPT ![b] = "mirror"]
        BY <2>3 DEF OAuth!StoreToken
      <3>2. CASE b \in oauthRetired
        <4>1. oauthLate' = [oauthLate EXCEPT ![b] = @ + 1]
          BY <2>3, <3>2 DEF OAuth!StoreToken
        <4> QED BY <4>1, <3>1, <3>2, <2>1, <1>t
      <3>3. CASE b \notin oauthRetired
        <4>1. oauthLate' = [oauthLate EXCEPT ![b] = @]
          BY <2>3, <3>3 DEF OAuth!StoreToken
        <4> QED BY <4>1, <3>1, <3>3, <2>1, <1>t
      <3> QED BY <3>2, <3>3
    <2>4. CASE OAuth!RefreshFails(b) \/ OAuth!MirrorToken(b) \/ OAuth!Evict(b) \/ OAuth!TokenExpires(b)
      <3>1. /\ oauthLate' = oauthLate
            /\ \A a \in OAuth!Accounts : oauthStage'[a] = "google" => oauthStage[a] = "google"
        BY <2>4, <1>t DEF OAuth!RefreshFails, OAuth!MirrorToken, OAuth!Evict, OAuth!TokenExpires,
           OAuth!Land
      <3> QED BY <3>1, <2>1
    <2> QED BY <1>4, <2>2, <2>3, <2>4 DEF OAuth!RotatorStep
  <1> QED BY <1>1, <1>2, <1>3, <1>4 DEF OAuth!Next

LEMMA RetiredHeld == RetiredInv => OAuth!RetiredRunsDry
  BY DEF RetiredInv, OAuth!RetiredRunsDry

-----------------------------------------------------------------------------
(* Watches and subscriptions. *)
(* What is left of the subscription and the hours of failed renewals add up to *)
(* the day ahead at which the renewals begin.                                  *)
CronInv ==
  /\ cronLeft \in Nat /\ cronNoted \in Int /\ cronOutage \in Nat /\ cronChecked \in BOOLEAN
  /\ cronNoted >= -1 /\ cronNoted <= cronLeft
  /\ cronLeft + cronOutage >= CronAhead
  /\ cronChecked => cronLeft + cronOutage > CronAhead

LEMMA InitCronInv == Cron!Init => CronInv
  <1> CronLifetime \in Nat /\ CronAhead \in Nat /\ CronAhead < CronLifetime
    BY ServicesBounds
  <1> SUFFICES ASSUME Cron!Init PROVE CronInv
    OBVIOUS
  <1>1. cronLeft = CronLifetime /\ cronNoted = CronLifetime /\ cronOutage = 0 /\ cronChecked = FALSE
    BY DEF Cron!Init
  <1>2. cronLeft \in Nat /\ cronNoted \in Int /\ cronOutage \in Nat
    BY <1>1
  <1>3. cronNoted >= -1 /\ cronNoted <= cronLeft
    BY <1>1
  <1>4. cronLeft + cronOutage >= CronAhead
    BY <1>1
  <1>5. cronChecked \in BOOLEAN /\ ~cronChecked
    BY <1>1
  <1> QED BY <1>2, <1>3, <1>4, <1>5 DEF CronInv

LEMMA NextCronInv ==
  ASSUME CronInv, Cron!Next \/ UNCHANGED cronVars
  PROVE  CronInv'
  <1>b. CronLifetime \in Nat /\ CronAhead \in Nat /\ CronAhead < CronLifetime
    BY ServicesBounds
  <1>1. CASE UNCHANGED cronVars
    BY <1>1 DEF cronVars, CronInv
  <1>2. CASE Cron!NotSoon
    BY <1>2, <1>b DEF Cron!NotSoon, Cron!backupVars, CronInv
  <1>3. CASE Cron!Renew
    BY <1>3, <1>b DEF Cron!Renew, Cron!backupVars, CronInv
  <1>4. CASE Cron!RenewFails
    BY <1>4, <1>b DEF Cron!RenewFails, Cron!backupVars, CronInv
  <1>5. CASE Cron!HourPasses
    <2>1. /\ cronLeft \in Nat /\ cronNoted \in Int /\ cronOutage \in Nat
          /\ cronNoted >= -1 /\ cronNoted <= cronLeft /\ cronLeft + cronOutage > CronAhead
          /\ cronChecked' = FALSE /\ cronOutage' = cronOutage
      BY <1>5 DEF Cron!HourPasses, CronInv
    <2>2. \/ cronLeft = 0 /\ cronLeft' = 0
          \/ cronLeft > 0 /\ cronLeft' = cronLeft - 1
      BY <1>5, <2>1 DEF Cron!HourPasses
    <2>3. \/ cronNoted = -1 /\ cronNoted' = -1
          \/ cronNoted >= 0 /\ cronNoted' = cronNoted - 1
      BY <1>5, <2>1 DEF Cron!HourPasses
    <2>4. cronLeft' \in Nat /\ cronNoted' \in Int /\ cronNoted' >= -1 /\ cronNoted' <= cronLeft'
      BY <2>1, <2>2, <2>3
    <2>5. cronLeft' + cronOutage >= CronAhead
      BY <2>1, <2>2, <1>b
    <2> QED BY <2>1, <2>4, <2>5, <1>b DEF CronInv
  <1>6. CASE cronLeft' = cronLeft /\ cronNoted' = cronNoted /\ cronOutage' = cronOutage
             /\ cronChecked' = cronChecked
    BY <1>6 DEF CronInv
  <1> QED
    BY <1>1, <1>2, <1>3, <1>4, <1>5, <1>6
       DEF Cron!Next, Cron!StartBackup, Cron!PollAgain, Cron!SignedUrl, Cron!Download, Cron!StoreDump,
           Cron!ReportOk, Cron!ReportFailure, Cron!renewalVars

LEMMA RenewedHeld == CronInv => Cron!RenewedInTime
  BY ServicesBounds DEF CronInv, Cron!RenewedInTime

-----------------------------------------------------------------------------
(* Sessions. A revocation outlives its token, and the keyset that is  *)
(* cached outlives a withdrawn key by no more than its time, unless a *)
(* fetch from before the withdrawal was written after it.             *)
SessionTypes ==
  /\ loginClock \in Nat /\ loginClock <= LoginHorizon
  /\ loginWithdrawn \in Nat /\ loginWithdrawn <= LoginHorizon + 1
  /\ loginOut \in Nat /\ loginRevoked \in Nat
  /\ loginCache \in [known : BOOLEAN, until : Nat]
  /\ DOMAIN loginRequest = LoginClients /\ DOMAIN loginKnown = LoginClients
  /\ DOMAIN loginLate = LoginClients
  /\ \A r \in LoginClients : loginKnown[r] \in BOOLEAN /\ loginLate[r] \in BOOLEAN
  /\ loginSlow \in BOOLEAN /\ loginLeaked \in BOOLEAN /\ loginOverdue \in BOOLEAN

RevokedInv ==
  /\ loginOut # Login!Never => loginRevoked >= LoginExp
  /\ ~loginLeaked

KeyInv ==
  /\ loginWithdrawn = Login!Never => ~loginSlow /\ (loginCache.known => loginCache.until <= loginClock + LoginKeyTtl)
  /\ loginWithdrawn # Login!Never /\ ~loginSlow =>
       /\ loginCache.known => loginCache.until <= loginWithdrawn + LoginKeyTtl
       /\ \A r \in LoginClients : loginRequest[r] = "fetched" => ~loginKnown[r]
  /\ \A r \in LoginClients : loginRequest[r] \in {"check", "revoke"} => loginKnown[r]
  /\ ~loginSlow => ~loginOverdue /\ \A r \in LoginClients : loginLate[r] => ~loginKnown[r]

SessionInv == SessionTypes /\ RevokedInv /\ KeyInv

LEMMA InitSessionInv == Login!Init => SessionInv
  <1> SUFFICES ASSUME Login!Init PROVE SessionInv
    OBVIOUS
  <1> LoginHorizon \in Nat /\ LoginKeyTtl \in Nat
    BY ServicesBounds
  <1> USE DEF Login!Init, Login!Never
  <1>1. loginCache \in [known : BOOLEAN, until : Nat]
    OBVIOUS
  <1>2. SessionTypes
    <2>1. /\ loginClock \in Nat /\ loginClock <= LoginHorizon
          /\ loginWithdrawn \in Nat /\ loginWithdrawn <= LoginHorizon + 1
          /\ loginOut \in Nat /\ loginRevoked \in Nat
      OBVIOUS
    <2>3. loginSlow \in BOOLEAN /\ loginLeaked \in BOOLEAN /\ loginOverdue \in BOOLEAN
      OBVIOUS
    <2>2. /\ DOMAIN loginRequest = LoginClients /\ DOMAIN loginKnown = LoginClients
          /\ DOMAIN loginLate = LoginClients
          /\ \A r \in LoginClients : loginKnown[r] \in BOOLEAN /\ loginLate[r] \in BOOLEAN
      OBVIOUS
    <2> QED BY <1>1, <2>1, <2>2, <2>3 DEF SessionTypes
  <1>3. KeyInv
    BY DEF KeyInv
  <1> QED BY <1>2, <1>3 DEF SessionInv, RevokedInv

LEMMA NextSessionInv ==
  ASSUME SessionInv, Login!Next \/ UNCHANGED loginVars
  PROVE  SessionInv'
  <1>b. /\ LoginHorizon \in Nat /\ LoginExp \in Nat /\ LoginMinTtl \in Nat /\ LoginKeyTtl \in Nat
        /\ SessionTypes /\ RevokedInv /\ KeyInv
    BY ServicesBounds DEF SessionInv
  <1> SUFFICES SessionTypes' /\ RevokedInv' /\ KeyInv'
    BY DEF SessionInv
  <1> USE DEF Login!Never, Login!Goes, Login!Keeps, Login!Over
  <1>1. CASE UNCHANGED loginVars
    BY <1>1, <1>b DEF loginVars, SessionTypes, RevokedInv, KeyInv
  <1>2. CASE Login!Tick
    <2>1. SessionTypes'
      BY <1>2, <1>b DEF Login!Tick, SessionTypes
    <2>2. RevokedInv'
      BY <1>2, <1>b DEF Login!Tick, RevokedInv
    <2>3. KeyInv'
      BY <1>2, <1>b DEF Login!Tick, SessionTypes, KeyInv
    <2> QED BY <2>1, <2>2, <2>3
  <1>3. CASE Login!Withdraw
    <2>1. SessionTypes'
      BY <1>3, <1>b DEF Login!Withdraw, SessionTypes
    <2>2. RevokedInv'
      BY <1>3, <1>b DEF Login!Withdraw, RevokedInv
    <2>3. KeyInv'
      BY <1>3, <1>b DEF Login!Withdraw, SessionTypes, KeyInv
    <2> QED BY <2>1, <2>2, <2>3
  <1>4. ASSUME NEW r \in LoginClients, Login!ReadCache(r) PROVE SessionTypes' /\ RevokedInv' /\ KeyInv'
    <2>1. /\ loginRequest[r] = "new"
          /\ loginLate' = [loginLate EXCEPT ![r] = loginClock >= loginWithdrawn + LoginKeyTtl]
          /\ UNCHANGED <<loginClock, loginWithdrawn, loginCache, loginRevoked, loginOut,
                         loginSlow, loginLeaked, loginOverdue>>
      BY <1>4 DEF Login!ReadCache
    <2>2. /\ loginLate'[r] <=> loginClock >= loginWithdrawn + LoginKeyTtl
          /\ loginLate'[r] \in BOOLEAN
          /\ DOMAIN loginLate' = LoginClients
          /\ \A s \in LoginClients \ {r} : loginLate'[s] = loginLate[s]
      <3> DEFINE Overdue == loginClock >= loginWithdrawn + LoginKeyTtl
      <3>1. DOMAIN loginLate = LoginClients /\ loginLate' = [loginLate EXCEPT ![r] = Overdue]
        BY <2>1, <1>b DEF SessionTypes
      <3>2. Overdue \in BOOLEAN
        OBVIOUS
      <3> HIDE DEF Overdue
      <3>3. /\ loginLate'[r] = Overdue /\ DOMAIN loginLate' = LoginClients
            /\ \A s \in LoginClients \ {r} : loginLate'[s] = loginLate[s]
        BY <3>1
      <3> QED BY <3>2, <3>3 DEF Overdue
    <2>3. RevokedInv'
      BY <2>1, <1>b DEF RevokedInv
    <2>4. CASE /\ loginClock < loginCache.until
               /\ loginKnown' = [loginKnown EXCEPT ![r] = loginCache.known]
               /\ loginRequest' = [loginRequest EXCEPT ![r] = "verify"]
      <3>1. /\ loginKnown'[r] = loginCache.known /\ loginCache.known \in BOOLEAN
            /\ loginRequest'[r] = "verify"
            /\ DOMAIN loginKnown' = LoginClients /\ DOMAIN loginRequest' = LoginClients
            /\ \A s \in LoginClients \ {r} :
                 loginKnown'[s] = loginKnown[s] /\ loginRequest'[s] = loginRequest[s]
        BY <2>4, <1>b DEF SessionTypes
      <3>2. SessionTypes'
        BY <2>1, <2>2, <3>1, <1>b DEF SessionTypes
      <3>3. ASSUME loginLate'[r], ~loginSlow PROVE ~loginCache.known
        <4>1. loginClock \in Nat /\ loginWithdrawn \in Nat /\ loginCache.until \in Nat
              /\ loginClock <= LoginHorizon
          BY <1>b DEF SessionTypes
        <4>2. loginWithdrawn # Login!Never
          BY <4>1, <3>3, <2>2, <1>b
        <4> QED BY <4>1, <4>2, <3>3, <2>2, <2>4, <1>b DEF KeyInv
      <3>4. KeyInv'
        BY <2>1, <2>2, <3>1, <3>3, <1>b DEF KeyInv
      <3> QED BY <2>3, <3>2, <3>4
    <2>5. CASE /\ loginKnown' = [loginKnown EXCEPT ![r] = loginWithdrawn = Login!Never]
               /\ loginRequest' = [loginRequest EXCEPT ![r] = "fetched"]
      <3>1. /\ loginKnown'[r] <=> loginWithdrawn = Login!Never
            /\ loginKnown'[r] \in BOOLEAN
            /\ loginRequest'[r] = "fetched"
            /\ DOMAIN loginKnown' = LoginClients /\ DOMAIN loginRequest' = LoginClients
            /\ \A s \in LoginClients \ {r} :
                 loginKnown'[s] = loginKnown[s] /\ loginRequest'[s] = loginRequest[s]
        BY <2>5, <1>b DEF SessionTypes
      <3>2. SessionTypes'
        BY <2>1, <2>2, <3>1, <1>b DEF SessionTypes
      <3>3. loginLate'[r] => loginWithdrawn # Login!Never
        <4>1. loginClock \in Nat /\ loginWithdrawn \in Nat /\ loginClock <= LoginHorizon
          BY <1>b DEF SessionTypes
        <4> QED BY <4>1, <2>2, <1>b
      <3>4. KeyInv'
        BY <2>1, <2>2, <3>1, <3>3, <1>b DEF KeyInv
      <3> QED BY <2>3, <3>2, <3>4
    <2> QED BY <1>4, <2>4, <2>5 DEF Login!ReadCache
  <1>5. ASSUME NEW r \in LoginClients,
               Login!FetchFails(r) \/ Login!VerifyFails(r) \/ Login!FoundRevoked(r)
        PROVE SessionTypes' /\ RevokedInv' /\ KeyInv'
    <2>1. /\ UNCHANGED <<loginClock, loginWithdrawn, loginCache, loginRevoked, loginOut,
                         loginSlow, loginLeaked, loginOverdue>>
          /\ Login!Over(r)
      BY <1>5 DEF Login!FetchFails, Login!VerifyFails, Login!FoundRevoked
    <2>2. SessionTypes'
      BY <2>1, <1>b DEF SessionTypes
    <2>3. RevokedInv'
      BY <2>1, <1>b DEF RevokedInv
    <2>4. KeyInv'
      BY <2>1, <1>b DEF KeyInv, SessionTypes
    <2> QED BY <2>2, <2>3, <2>4
  <1>6. ASSUME NEW r \in LoginClients, Login!PutCache(r) PROVE SessionTypes' /\ RevokedInv' /\ KeyInv'
    <2>0. /\ loginRequest[r] = "fetched"
          /\ loginCache' = [known |-> loginKnown[r], until |-> loginClock + LoginKeyTtl]
          /\ loginRequest' = [loginRequest EXCEPT ![r] = "verify"]
          /\ UNCHANGED <<loginKind, loginKnown, loginLate, loginClock, loginWithdrawn, loginRevoked,
                         loginOut, loginSlow, loginLeaked, loginOverdue>>
      BY <1>6 DEF Login!PutCache
    <2>1. /\ loginCache' \in [known : BOOLEAN, until : Nat]
          /\ loginCache'.known = loginKnown[r] /\ loginCache'.until = loginClock + LoginKeyTtl
      BY <2>0, <1>b DEF SessionTypes
    <2>2. SessionTypes'
      BY <2>0, <2>1, <1>b DEF SessionTypes
    <2>3. RevokedInv'
      BY <2>0, <1>b DEF RevokedInv
    <2>4. KeyInv'
      BY <2>0, <2>1, <1>b DEF KeyInv, SessionTypes
    <2> QED BY <2>2, <2>3, <2>4
  <1>7. ASSUME NEW r \in LoginClients, Login!Verify(r) PROVE SessionTypes' /\ RevokedInv' /\ KeyInv'
    <2>2. SessionTypes'
      BY <1>7, <1>b DEF SessionTypes, Login!Verify
    <2>3. RevokedInv'
      BY <1>7, <1>b DEF RevokedInv, Login!Verify
    <2>4. KeyInv'
      BY <1>7, <1>b DEF KeyInv, SessionTypes, Login!Verify
    <2> QED BY <2>2, <2>3, <2>4
  <1>8. ASSUME NEW r \in LoginClients, Login!LetIn(r) PROVE SessionTypes' /\ RevokedInv' /\ KeyInv'
    <2>0. /\ loginRequest[r] = "check" /\ loginClock >= loginRevoked
          /\ UNCHANGED <<loginClock, loginWithdrawn, loginCache, loginRevoked, loginOut, loginSlow>>
      BY <1>8 DEF Login!LetIn
    <2>1. CASE /\ loginRequest' = [loginRequest EXCEPT ![r] = "revoke"]
               /\ UNCHANGED <<loginKind, loginKnown, loginLate, loginLeaked, loginOverdue>>
      <3>2. SessionTypes'
        BY <2>0, <2>1, <1>b DEF SessionTypes
      <3>3. RevokedInv'
        BY <2>0, <2>1, <1>b DEF RevokedInv
      <3>4. KeyInv'
        BY <2>0, <2>1, <1>b DEF KeyInv, SessionTypes
      <3> QED BY <3>2, <3>3, <3>4
    <2>2. CASE /\ Login!Over(r)
               /\ loginLeaked' = (loginLeaked \/ (loginOut < loginClock /\ loginClock < LoginExp))
               /\ loginOverdue' = (loginOverdue \/ loginLate[r])
      <3>1. loginLeaked' \in BOOLEAN /\ loginOverdue' \in BOOLEAN
        BY <2>2
      <3>2. SessionTypes'
        BY <2>0, <2>2, <3>1, <1>b DEF SessionTypes
      <3>3. loginClock \in Nat /\ loginOut \in Nat /\ loginRevoked \in Nat /\ loginClock <= LoginHorizon
        BY <1>b DEF SessionTypes
      <3>4. ~(loginOut < loginClock /\ loginClock < LoginExp)
        BY <3>3, <2>0, <1>b DEF RevokedInv
      <3>5. ~loginLeaked'
        BY <3>4, <2>2, <1>b DEF RevokedInv
      <3>6. RevokedInv'
        BY <2>0, <3>5, <1>b DEF RevokedInv
      <3>7. ~loginSlow => ~loginOverdue'
        BY <2>2, <2>0, <1>b DEF KeyInv
      <3>8. KeyInv'
        BY <2>0, <2>2, <3>7, <1>b DEF KeyInv, SessionTypes
      <3> QED BY <3>2, <3>6, <3>8
    <2> QED BY <1>8, <2>1, <2>2 DEF Login!LetIn
  <1>9. ASSUME NEW r \in LoginClients, Login!Revoke(r) PROVE SessionTypes' /\ RevokedInv' /\ KeyInv'
    <2>0. /\ loginRevoked' = loginClock + Login!Larger(LoginMinTtl, LoginExp - loginClock)
          /\ loginOut' = IF loginOut = Login!Never THEN loginClock ELSE loginOut
          /\ Login!Over(r)
          /\ UNCHANGED <<loginClock, loginWithdrawn, loginCache, loginSlow, loginLeaked, loginOverdue>>
      BY <1>9 DEF Login!Revoke
    <2>1. loginClock \in Nat /\ loginOut \in Nat
      BY <1>b DEF SessionTypes
    <2>2. loginRevoked' \in Nat /\ loginRevoked' >= LoginExp /\ loginOut' \in Nat
      BY <2>0, <2>1, <1>b DEF Login!Larger
    <2>3. SessionTypes'
      BY <2>0, <2>2, <1>b DEF SessionTypes
    <2>4. RevokedInv'
      BY <2>0, <2>2, <1>b DEF RevokedInv
    <2>5. KeyInv'
      BY <2>0, <1>b DEF KeyInv, SessionTypes
    <2> QED BY <2>3, <2>4, <2>5
  <1> QED BY <1>1, <1>2, <1>3, <1>4, <1>5, <1>6, <1>7, <1>8, <1>9 DEF Login!Next

LEMMA SessionHeld == SessionInv => Login!LoggedOutIsRefused /\ Login!WithdrawnKeyRunsOut
  BY DEF SessionInv, RevokedInv, KeyInv, Login!LoggedOutIsRefused, Login!WithdrawnKeyRunsOut

(* What is withdrawn runs out in time: a token after its logout, one whose *)
(* key is gone from the keyset, the access tokens of a retired account;    *)
(* and watches and subscriptions are renewed before they do, for any       *)
(* lifetimes and any number of requests, callbacks and callers             *)
(* (misc.ts:262-290, auth.ts:52-80, oauth-rotator.ts:64-92, icrv-cron      *)
(* index.ts:160-220).                                                      *)
THEOREM WithdrawnIsRefused == Spec => []WithdrawnRunsOut
  <1>1. Init => SessionInv /\ RetiredInv /\ CronInv
    BY InitSessionInv, InitRetiredInv, InitCronInv DEF Init
  <1>2. SessionInv /\ RetiredInv /\ CronInv /\ [Next]_vars => SessionInv' /\ RetiredInv' /\ CronInv'
    BY NextSessionInv, NextRetiredInv, NextCronInv, StepOfPart
  <1>3. SessionInv /\ RetiredInv /\ CronInv => WithdrawnRunsOut
    BY SessionHeld, RetiredHeld, RenewedHeld DEF WithdrawnRunsOut
  <1> QED BY <1>1, <1>2, <1>3, PTL DEF Spec

-----------------------------------------------------------------------------
(* The row of a call and the object of its session. An update writes one *)
(* and then the other: while none crosses another and none fails, an     *)
(* update between its two writes knows what the second will make of it,  *)
(* and when none is open they agree.                                     *)
Calls          == VoiceDeliveries \cup {Voice!NoCall}
SessionRecords == [by: Calls, status: Voice!Statuses, rc: Calls]
HookRecords    == [at: {"idle", "row", "tell", "queue", "done"}, rc: Calls, status: Voice!Statuses]
EndRecords     == [at: {"idle", "session", "hang", "row", "done"}, by: Calls, rc: Calls]

VoiceTypes ==
  /\ Voice!TypeOK
  /\ \A e \in VoiceEnds : voiceEnder[e].at = "hang" => voiceEnder[e].rc \in VoiceDeliveries

LEMMA InitVoiceTypes == Voice!Init => VoiceTypes
  <1> SUFFICES ASSUME Voice!Init PROVE VoiceTypes
    OBVIOUS
  <1> VoiceMaxFailures \in Nat
    BY ServicesAssumption, ServicesBounds
  <1> USE DEF Voice!Init, Voice!Statuses, Calls, SessionRecords, HookRecords, EndRecords
  <1>1. voiceRow \in [status: Voice!Statuses, rc: VoiceDeliveries \cup {Voice!NoCall}]
    OBVIOUS
  <1>2. voiceSession \in SessionRecords
    OBVIOUS
  <1>3. [at |-> "idle", rc |-> Voice!NoCall, status |-> "queued"] \in HookRecords
    OBVIOUS
  <1>4. voiceHook \in [VoiceHooks -> HookRecords]
    OBVIOUS
  <1>5. [at |-> "idle", by |-> Voice!NoCall, rc |-> Voice!NoCall] \in EndRecords
    OBVIOUS
  <1>6. voiceEnder \in [VoiceEnds -> EndRecords]
    OBVIOUS
  <1>7. /\ voiceJob \in [VoiceDeliveries -> {"queued", "new", "init", "ring", "dial", "note", "bridge",
                                         "link", "bind", "done"}]
        /\ voiceLine \in [VoiceDeliveries -> {"none", "setup", "answered", "over"}]
    OBVIOUS
  <1>8. /\ voiceMarked \in BOOLEAN /\ voiceCrossed \in BOOLEAN
        /\ voiceSaid \subseteq VoiceDeliveries \X Voice!Codes
    OBVIOUS
  <1>9. voicePostcalls \in Nat /\ voiceRuns \in Nat /\ voiceFailures \in 0..VoiceMaxFailures
    OBVIOUS
  <1>10. \A e \in VoiceEnds : voiceEnder[e].at # "hang"
    OBVIOUS
  <1> QED BY <1>1, <1>2, <1>3, <1>4, <1>5, <1>6, <1>7, <1>8, <1>9, <1>10 DEF Voice!TypeOK,
             VoiceTypes

LEMMA NextVoiceTypes ==
  ASSUME VoiceTypes, Voice!Next \/ UNCHANGED voiceVars
  PROVE  VoiceTypes'
  <1> VoiceMaxFailures \in Nat
    BY ServicesAssumption, ServicesBounds
  <1> USE DEF Voice!TypeOK, Voice!callVars, Voice!workVars, Voice!Terminal, Voice!Statuses, Voice!NoCall, Voice!Codes, Voice!GoTo, VoiceTypes
  <1>1. CASE UNCHANGED voiceVars
    BY <1>1 DEF voiceVars
  <1>2. ASSUME NEW d \in VoiceDeliveries, Voice!CheckMarker(d) PROVE VoiceTypes'
    BY <1>2 DEF Voice!CheckMarker
  <1>3. ASSUME NEW d \in VoiceDeliveries, Voice!SetMarker(d) PROVE VoiceTypes'
    BY <1>3 DEF Voice!SetMarker
  <1>4. ASSUME NEW d \in VoiceDeliveries, Voice!InitSession(d) PROVE VoiceTypes'
    BY <1>4 DEF Voice!InitSession, Voice!Crosses
  <1>5. ASSUME NEW d \in VoiceDeliveries, Voice!RowRinging(d) PROVE VoiceTypes'
    BY <1>5 DEF Voice!RowRinging, Voice!Crosses
  <1>6. ASSUME NEW d \in VoiceDeliveries, Voice!Dial(d) PROVE VoiceTypes'
    BY <1>6 DEF Voice!Dial
  <1>7. ASSUME NEW d \in VoiceDeliveries, Voice!DialRefused(d) PROVE VoiceTypes'
    BY <1>7 DEF Voice!DialRefused
  <1>8. ASSUME NEW d \in VoiceDeliveries, Voice!NoteConversation(d) PROVE VoiceTypes'
    BY <1>8 DEF Voice!NoteConversation
  <1>9. ASSUME NEW d \in VoiceDeliveries, Voice!RingOut(d) PROVE VoiceTypes'
    BY <1>9 DEF Voice!RingOut
  <1>10. ASSUME NEW d \in VoiceDeliveries, Voice!LinkRow(d) PROVE VoiceTypes'
    BY <1>10 DEF Voice!LinkRow
  <1>11. ASSUME NEW d \in VoiceDeliveries, Voice!BindSession(d) PROVE VoiceTypes'
    BY <1>11 DEF Voice!BindSession
  <1>12. ASSUME NEW d \in VoiceDeliveries, Voice!PlaceFails(d) PROVE VoiceTypes'
    BY <1>12 DEF Voice!PlaceFails
  <1>13. ASSUME NEW d \in VoiceDeliveries, NEW code \in Voice!Codes, Voice!Progress(d, code) PROVE VoiceTypes'
    BY <1>13 DEF Voice!Progress
  <1>14. ASSUME NEW h \in VoiceHooks, Voice!HookFind(h) PROVE VoiceTypes'
    BY <1>14, SMTT(40) DEF Voice!HookFind, Voice!StatusOf
  <1>15. ASSUME NEW h \in VoiceHooks, Voice!HookRow(h) PROVE VoiceTypes'
    BY <1>15 DEF Voice!HookRow, Voice!Crosses
  <1>16. ASSUME NEW h \in VoiceHooks, Voice!HookTell(h) PROVE VoiceTypes'
    <2>1. voiceHook[h] \in [at: {"idle", "row", "tell", "queue", "done"},
                            rc: VoiceDeliveries \cup {"none"}, status: Voice!Statuses]
      OBVIOUS
    <2>2. voiceSession' \in [by: VoiceDeliveries \cup {"none"}, status: Voice!Statuses,
                             rc: VoiceDeliveries \cup {"none"}]
      BY <1>16, <2>1 DEF Voice!HookTell
    <2> QED BY <1>16, <2>2 DEF Voice!HookTell, Voice!Crosses
  <1>17. ASSUME NEW h \in VoiceHooks, Voice!HookQueue(h) PROVE VoiceTypes'
    BY <1>17 DEF Voice!HookQueue
  <1>18. ASSUME NEW h \in VoiceHooks, Voice!HookDies(h) PROVE VoiceTypes'
    BY <1>18 DEF Voice!HookDies
  <1>19. ASSUME NEW e \in VoiceEnds, Voice!EndRead(e) PROVE VoiceTypes'
    BY <1>19 DEF Voice!EndRead
  <1>20. ASSUME NEW e \in VoiceEnds, Voice!EndUnbound(e) PROVE VoiceTypes'
    BY <1>20 DEF Voice!EndUnbound, Voice!Crosses
  <1>21. ASSUME NEW e \in VoiceEnds, Voice!EndBound(e) PROVE VoiceTypes'
    BY <1>21 DEF Voice!EndBound, Voice!Crosses
  <1>22. ASSUME NEW e \in VoiceEnds, Voice!HangUp(e) PROVE VoiceTypes'
    <2>1. voiceLine' \in [VoiceDeliveries -> {"none", "setup", "answered", "over"}]
      BY <1>22 DEF Voice!HangUp
    <2>2. voiceSession' \in [by: VoiceDeliveries \cup {"none"}, status: Voice!Statuses,
                             rc: VoiceDeliveries \cup {"none"}]
      BY <1>22 DEF Voice!HangUp
    <2>3. voiceSaid' \subseteq VoiceDeliveries \X Voice!Codes
      <3>1. CASE UNCHANGED voiceSaid
        BY <3>1
      <3>2. CASE voiceLine[voiceEnder[e].rc] \in {"setup", "answered"}
                  /\ voiceSaid' = voiceSaid \cup {<<voiceEnder[e].rc, "disconnected">>}
        <4>1. voiceEnder[e].rc \in VoiceDeliveries
          BY <1>22 DEF Voice!HangUp
        <4> QED BY <3>2, <4>1
      <3> QED BY <1>22, <3>1, <3>2 DEF Voice!HangUp
    <2> QED BY <1>22, <2>1, <2>2, <2>3 DEF Voice!HangUp, Voice!Crosses
  <1>23. ASSUME NEW e \in VoiceEnds, Voice!EndRow(e) PROVE VoiceTypes'
    BY <1>23 DEF Voice!EndRow, Voice!Crosses
  <1>24. CASE Voice!PostCall
    BY <1>24 DEF Voice!PostCall
  <1> QED BY <1>1, <1>2, <1>3, <1>4, <1>5, <1>6, <1>7, <1>8, <1>9, <1>10, <1>11, <1>12, <1>13,
             <1>14, <1>15, <1>16, <1>17, <1>18, <1>19, <1>20, <1>21, <1>22, <1>23, <1>24,
             SMTT(40) DEF Voice!Next, Voice!Place, Voice!HookStep, Voice!EndStep

Smooth == ~voiceCrossed /\ voiceFailures = 0

Ringing(d) == d \in VoiceDeliveries /\ voiceJob[d] = "ring"
Telling(h) == h \in VoiceHooks /\ voiceHook[h].at = "tell"
Ending(e)  == e \in VoiceEnds /\ voiceEnder[e].at \in {"hang", "row"}

(* What an update that has written one place knows of the other. *)
Agree ==
  voiceSession.by # Voice!NoCall =>
    \/ voiceSession.status = voiceRow.status
    \/ voiceSession.status = "queued" /\ voiceRow.status = "ringing"

EndKnows(e) ==
  /\ voiceEnder[e].at = "hang" => voiceEnder[e].by = voiceSession.by
  /\ voiceEnder[e].at = "row" => voiceSession.by = Voice!NoCall \/ voiceSession.status = "ended"

HalfWritten ==
  /\ \A d : Ringing(d) => voiceSession.status = "queued"
  /\ \A h : Telling(h) => voiceRow.status = voiceHook[h].status
  /\ \A e : Ending(e) => EndKnows(e)
  /\ (\A x : ~Ringing(x) /\ ~Telling(x) /\ ~Ending(x)) => Agree

VoiceInv == VoiceTypes /\ (Smooth => HalfWritten)

LEMMA InitVoiceInv == Voice!Init => VoiceInv
  <1> SUFFICES ASSUME Voice!Init PROVE HalfWritten
    BY InitVoiceTypes DEF VoiceInv
  <1>1. \A x : ~Ringing(x) /\ ~Telling(x) /\ ~Ending(x)
    BY DEF Voice!Init, Ringing, Telling, Ending
  <1>2. Agree
    BY DEF Voice!Init, Agree
  <1> QED BY <1>1, <1>2 DEF HalfWritten

LEMMA OpenOnes == \A x : x \in Voice!Open <=> Ringing(x) \/ Telling(x) \/ Ending(x)
  BY DEF Voice!Open, Ringing, Telling, Ending

(* A step that writes a status while another update is open crosses it. *)
LEMMA CrossesOthers ==
  ASSUME NEW self, Voice!Crosses(self), VoiceTypes, ~voiceCrossed'
  PROVE  ~voiceCrossed /\ \A x : x # self => ~Ringing(x) /\ ~Telling(x) /\ ~Ending(x)
  <1>1. voiceCrossed' = (voiceCrossed \/ Voice!Open \ {self} # {})
    BY DEF Voice!Crosses
  <1>2. ~voiceCrossed /\ Voice!Open \ {self} = {}
    BY <1>1
  <1> QED BY <1>2, OpenOnes

LEMMA NextVoiceInv ==
  ASSUME VoiceInv, Voice!Next \/ UNCHANGED voiceVars
  PROVE  VoiceInv'
  <1> VoiceTypes /\ VoiceTypes'
    BY NextVoiceTypes DEF VoiceInv
  <1> SUFFICES ASSUME ~voiceCrossed', voiceFailures' = 0 PROVE HalfWritten'
    BY DEF VoiceInv, Smooth
  <1>t. /\ DOMAIN voiceJob = VoiceDeliveries /\ DOMAIN voiceHook = VoiceHooks /\ DOMAIN voiceEnder = VoiceEnds
        /\ voiceSession \in [by: VoiceDeliveries \cup {Voice!NoCall}, status: Voice!Statuses,
                             rc: VoiceDeliveries \cup {Voice!NoCall}]
        /\ voiceRow \in [status: Voice!Statuses, rc: VoiceDeliveries \cup {Voice!NoCall}]
        /\ voiceFailures \in Nat
    BY ServicesBounds DEF VoiceTypes, Voice!TypeOK
  <1>u. /\ \A h \in VoiceHooks : voiceHook[h] \in [at: {"idle", "row", "tell", "queue", "done"},
                     rc: VoiceDeliveries \cup {Voice!NoCall}, status: Voice!Statuses]
        /\ \A e \in VoiceEnds : voiceEnder[e] \in [at: {"idle", "session", "hang", "row", "done"},
                     by: VoiceDeliveries \cup {Voice!NoCall}, rc: VoiceDeliveries \cup {Voice!NoCall}]
    BY DEF VoiceTypes, Voice!TypeOK
  <1>v. /\ VoiceDeliveries \cap VoiceHooks = {}
        /\ VoiceDeliveries \cap VoiceEnds = {} /\ VoiceHooks \cap VoiceEnds = {}
    BY ServicesBounds
  <1>f. ASSUME voiceFailures' = voiceFailures + 1 PROVE FALSE
    <2>1. \A n \in Nat : n + 1 # 0
      OBVIOUS
    <2> QED BY <1>f, <1>t, <2>1
  <1>i. ASSUME ~voiceCrossed, voiceFailures = 0 PROVE HalfWritten
    BY <1>i DEF VoiceInv, Smooth
  <1> HIDE DEF VoiceTypes, VoiceInv
  <1> USE DEF Voice!callVars, Voice!workVars, Voice!GoTo
  (* No status is written, and no update opens or closes. *)
  <1>s. ASSUME voiceCrossed' = voiceCrossed, voiceFailures' = voiceFailures,
               voiceRow'.status = voiceRow.status, voiceSession'.by = voiceSession.by,
               voiceSession'.status = voiceSession.status,
               \A d \in VoiceDeliveries : voiceJob'[d] = "ring" <=> voiceJob[d] = "ring",
               \A h \in VoiceHooks : voiceHook'[h].at = "tell" <=> voiceHook[h].at = "tell",
               \A h \in VoiceHooks : voiceHook[h].at = "tell" => voiceHook'[h].status = voiceHook[h].status,
               \A e \in VoiceEnds : voiceEnder[e].at \in {"hang", "row"} => voiceEnder'[e] = voiceEnder[e],
               \A e \in VoiceEnds : voiceEnder'[e].at \in {"hang", "row"} => voiceEnder[e].at \in {"hang", "row"}
        PROVE  HalfWritten'
    <2>1. HalfWritten
      BY <1>i, <1>s
    <2>2. \A d : Ringing(d)' <=> Ringing(d)
      BY <1>s DEF Ringing
    <2>3. \A h : (Telling(h)' <=> Telling(h)) /\ (Telling(h) => voiceHook'[h].status = voiceHook[h].status)
      BY <1>s DEF Telling
    <2>4. \A e : (Ending(e)' <=> Ending(e)) /\ (Ending(e) => voiceEnder'[e] = voiceEnder[e])
      BY <1>s DEF Ending
    <2>5. Agree' <=> Agree
      BY <1>s DEF Agree
    <2>6. \A e : Ending(e) => (EndKnows(e) => EndKnows(e)')
      BY <1>s, <2>4 DEF EndKnows
    <2> QED BY <2>1, <2>2, <2>3, <2>4, <2>5, <2>6, <1>s DEF HalfWritten
  <1>1. CASE UNCHANGED voiceVars
    BY <1>1, <1>s DEF voiceVars
  <1>2. ASSUME NEW d \in VoiceDeliveries, Voice!InitSession(d) PROVE HalfWritten'
    <2>1. /\ \A x : x # d => ~Ringing(x) /\ ~Telling(x) /\ ~Ending(x)
      BY <1>2, CrossesOthers DEF Voice!InitSession
    <2>2. /\ UNCHANGED <<voiceHook, voiceEnder>>
          /\ voiceJob' = [voiceJob EXCEPT ![d] = "ring"] /\ voiceSession'.status = "queued"
      BY <1>2 DEF Voice!InitSession
    <2>3. \A x : x # d => ~Ringing(x)' /\ ~Telling(x)' /\ ~Ending(x)'
      BY <2>1, <2>2, <1>t DEF Ringing, Telling, Ending
    <2>4. Ringing(d)' /\ ~Telling(d)' /\ ~Ending(d)'
      BY <2>2, <1>t, <1>v DEF Ringing, Telling, Ending
    <2> QED BY <2>2, <2>3, <2>4 DEF HalfWritten
  <1>3. ASSUME NEW d \in VoiceDeliveries, Voice!RowRinging(d) PROVE HalfWritten'
    <2>1. ~voiceCrossed /\ \A x : x # d => ~Ringing(x) /\ ~Telling(x) /\ ~Ending(x)
      BY <1>3, CrossesOthers DEF Voice!RowRinging
    <2>2. /\ UNCHANGED <<voiceHook, voiceEnder, voiceSession, voiceFailures>>
          /\ voiceJob[d] = "ring"
          /\ voiceJob' = [voiceJob EXCEPT ![d] = "dial"] /\ voiceRow'.status = "ringing"
      BY <1>3, <1>t DEF Voice!RowRinging
    <2>3. \A x : x # d => ~Ringing(x)' /\ ~Telling(x)' /\ ~Ending(x)'
      BY <2>1, <2>2, <1>t DEF Ringing, Telling, Ending
    <2>4. ~Ringing(d)' /\ ~Telling(d)' /\ ~Ending(d)'
      BY <2>2, <1>t, <1>v DEF Ringing, Telling, Ending
    <2>5. voiceSession.status = "queued"
      BY <1>i, <2>1, <2>2 DEF HalfWritten, Ringing
    <2>6. Agree'
      BY <2>2, <2>5 DEF Agree
    <2> QED BY <2>3, <2>4, <2>6 DEF HalfWritten
  <1>4. ASSUME NEW h \in VoiceHooks, Voice!HookRow(h) PROVE HalfWritten'
    <2>1. \A x : x # h => ~Ringing(x) /\ ~Telling(x) /\ ~Ending(x)
      BY <1>4, CrossesOthers DEF Voice!HookRow
    <2>2. /\ UNCHANGED <<voiceJob, voiceEnder>>
          /\ voiceHook' = [voiceHook EXCEPT ![h].at = "tell"] /\ voiceRow'.status = voiceHook[h].status
      BY <1>4, <1>t DEF Voice!HookRow
    <2>3. \A x : x # h => ~Ringing(x)' /\ ~Telling(x)' /\ ~Ending(x)'
      BY <2>1, <2>2, <1>t DEF Ringing, Telling, Ending
    <2>4. ~Ringing(h)' /\ Telling(h)' /\ ~Ending(h)' /\ voiceHook'[h].status = voiceHook[h].status
      BY <2>2, <1>t, <1>u, <1>v DEF Ringing, Telling, Ending
    <2> QED BY <2>2, <2>3, <2>4 DEF HalfWritten
  <1>5. ASSUME NEW h \in VoiceHooks, Voice!HookTell(h) PROVE HalfWritten'
    <2>1. ~voiceCrossed /\ \A x : x # h => ~Ringing(x) /\ ~Telling(x) /\ ~Ending(x)
      BY <1>5, CrossesOthers DEF Voice!HookTell
    <2>2. /\ UNCHANGED <<voiceJob, voiceEnder, voiceRow, voiceFailures>>
          /\ voiceHook[h].at = "tell"
          /\ voiceHook'[h].at # "tell"
          /\ \A x \in VoiceHooks : x # h => voiceHook'[x] = voiceHook[x]
      BY <1>5, <1>t, <1>u DEF Voice!HookTell
    <2>3. \A x : x # h => ~Ringing(x)' /\ ~Telling(x)' /\ ~Ending(x)'
      BY <2>1, <2>2, <1>t DEF Ringing, Telling, Ending
    <2>4. ~Ringing(h)' /\ ~Telling(h)' /\ ~Ending(h)'
      BY <2>2, <1>t, <1>v DEF Ringing, Telling, Ending
    <2>5. voiceRow.status = voiceHook[h].status
      BY <1>i, <2>1, <2>2 DEF HalfWritten, Telling
    <2>6. Agree'
      <3>1. CASE voiceSession.by = Voice!NoCall
        BY <1>5, <3>1 DEF Voice!HookTell, Agree
      <3>2. CASE voiceSession.by # Voice!NoCall
        <4>1. voiceSession'.status = voiceHook[h].status
          BY <1>5, <3>2, <1>t DEF Voice!HookTell
        <4> QED BY <4>1, <2>2, <2>5 DEF Agree
      <3> QED BY <3>1, <3>2
    <2> QED BY <2>3, <2>4, <2>6 DEF HalfWritten
  <1>6. ASSUME NEW e \in VoiceEnds, Voice!EndUnbound(e) PROVE HalfWritten'
    <2>1. \A x : x # e => ~Ringing(x) /\ ~Telling(x) /\ ~Ending(x)
      BY <1>6, CrossesOthers DEF Voice!EndUnbound
    <2>2. /\ UNCHANGED <<voiceJob, voiceHook>>
          /\ voiceEnder' = [voiceEnder EXCEPT ![e].at = "row"]
      BY <1>6 DEF Voice!EndUnbound
    <2>3. \A x : x # e => ~Ringing(x)' /\ ~Telling(x)' /\ ~Ending(x)'
      BY <2>1, <2>2, <1>t DEF Ringing, Telling, Ending
    <2>4. ~Ringing(e)' /\ ~Telling(e)' /\ Ending(e)' /\ voiceEnder'[e].at = "row"
      BY <2>2, <1>t, <1>u, <1>v DEF Ringing, Telling, Ending
    <2>5. EndKnows(e)'
      <3>1. CASE voiceSession.by = Voice!NoCall
        BY <1>6, <3>1, <2>4 DEF Voice!EndUnbound, EndKnows
      <3>2. CASE voiceSession.by # Voice!NoCall
        <4>1. voiceSession'.status = "ended"
          BY <1>6, <3>2, <1>t DEF Voice!EndUnbound
        <4> QED BY <4>1, <2>4 DEF EndKnows
      <3> QED BY <3>1, <3>2
    <2> QED BY <2>3, <2>4, <2>5 DEF HalfWritten
  <1>7. ASSUME NEW e \in VoiceEnds, Voice!EndBound(e) PROVE HalfWritten'
    <2>1. \A x : x # e => ~Ringing(x) /\ ~Telling(x) /\ ~Ending(x)
      BY <1>7, CrossesOthers DEF Voice!EndBound
    <2>2. /\ UNCHANGED <<voiceJob, voiceHook, voiceSession>>
          /\ voiceEnder' = [voiceEnder EXCEPT ![e] =
               [at |-> "hang", by |-> voiceSession.by, rc |-> voiceSession.rc]]
      BY <1>7 DEF Voice!EndBound
    <2>3. \A x : x # e => ~Ringing(x)' /\ ~Telling(x)' /\ ~Ending(x)'
      BY <2>1, <2>2, <1>t DEF Ringing, Telling, Ending
    <2>4. ~Ringing(e)' /\ ~Telling(e)' /\ Ending(e)' /\ EndKnows(e)'
      BY <2>2, <1>t, <1>v DEF Ringing, Telling, Ending, EndKnows
    <2> QED BY <2>3, <2>4 DEF HalfWritten
  <1>8. ASSUME NEW e \in VoiceEnds, Voice!HangUp(e) PROVE HalfWritten'
    <2>1. ~voiceCrossed /\ \A x : x # e => ~Ringing(x) /\ ~Telling(x) /\ ~Ending(x)
      BY <1>8, CrossesOthers DEF Voice!HangUp
    <2>2. /\ UNCHANGED <<voiceJob, voiceHook, voiceFailures>>
          /\ voiceEnder[e].at = "hang"
          /\ voiceEnder' = [voiceEnder EXCEPT ![e].at = "row"]
          /\ voiceSession' = IF voiceSession.by = voiceEnder[e].by
                             THEN [voiceSession EXCEPT !.status = "ended"] ELSE voiceSession
      BY <1>8 DEF Voice!HangUp
    <2>3. \A x : x # e => ~Ringing(x)' /\ ~Telling(x)' /\ ~Ending(x)'
      BY <2>1, <2>2, <1>t DEF Ringing, Telling, Ending
    <2>4. ~Ringing(e)' /\ ~Telling(e)' /\ Ending(e)' /\ voiceEnder'[e].at = "row"
      BY <2>2, <1>t, <1>u, <1>v DEF Ringing, Telling, Ending
    <2>5. voiceEnder[e].by = voiceSession.by
      BY <1>i, <2>1, <2>2 DEF HalfWritten, Ending, EndKnows
    <2>6. voiceSession'.status = "ended"
      BY <2>2, <2>5, <1>t
    <2>7. EndKnows(e)'
      BY <2>4, <2>6 DEF EndKnows
    <2> QED BY <2>3, <2>4, <2>7 DEF HalfWritten
  <1>9. ASSUME NEW e \in VoiceEnds, Voice!EndRow(e) PROVE HalfWritten'
    <2>1. ~voiceCrossed /\ \A x : x # e => ~Ringing(x) /\ ~Telling(x) /\ ~Ending(x)
      BY <1>9, CrossesOthers DEF Voice!EndRow
    <2>2. /\ UNCHANGED <<voiceJob, voiceHook, voiceSession, voiceFailures>>
          /\ voiceEnder[e].at = "row"
          /\ voiceEnder' = [voiceEnder EXCEPT ![e].at = "done"]
          /\ voiceRow'.status = "ended"
      BY <1>9, <1>t DEF Voice!EndRow
    <2>3. \A x : x # e => ~Ringing(x)' /\ ~Telling(x)' /\ ~Ending(x)'
      BY <2>1, <2>2, <1>t DEF Ringing, Telling, Ending
    <2>4. ~Ringing(e)' /\ ~Telling(e)' /\ ~Ending(e)'
      BY <2>2, <1>t, <1>u, <1>v DEF Ringing, Telling, Ending
    <2>5. voiceSession.by = Voice!NoCall \/ voiceSession.status = "ended"
      BY <1>i, <2>1, <2>2 DEF HalfWritten, Ending, EndKnows
    <2>6. Agree'
      BY <2>2, <2>5 DEF Agree
    <2> QED BY <2>3, <2>4, <2>6 DEF HalfWritten
  <1>10. ASSUME NEW d \in VoiceDeliveries,
                \/ Voice!CheckMarker(d) \/ Voice!SetMarker(d) \/ Voice!Dial(d) \/ Voice!NoteConversation(d)
                \/ Voice!RingOut(d)
         PROVE  HalfWritten'
    <2>1. /\ UNCHANGED <<voiceCrossed, voiceFailures, voiceRow, voiceSession, voiceHook, voiceEnder>>
          /\ \A x \in VoiceDeliveries : voiceJob'[x] = "ring" <=> voiceJob[x] = "ring"
      BY <1>10, <1>t DEF Voice!CheckMarker, Voice!SetMarker, Voice!Dial, Voice!NoteConversation,
         Voice!RingOut
    <2> QED BY <2>1, <1>s
  <1>11. ASSUME NEW d \in VoiceDeliveries, Voice!LinkRow(d) PROVE HalfWritten'
    <2>1. /\ UNCHANGED <<voiceCrossed, voiceFailures, voiceSession, voiceHook, voiceEnder>>
          /\ voiceRow'.status = voiceRow.status
          /\ \A x \in VoiceDeliveries : voiceJob'[x] = "ring" <=> voiceJob[x] = "ring"
      BY <1>11, <1>t DEF Voice!LinkRow
    <2> QED BY <2>1, <1>s
  <1>12. ASSUME NEW d \in VoiceDeliveries, Voice!BindSession(d) PROVE HalfWritten'
    <2>1. /\ UNCHANGED <<voiceCrossed, voiceFailures, voiceRow, voiceHook, voiceEnder>>
          /\ voiceSession'.by = voiceSession.by /\ voiceSession'.status = voiceSession.status
          /\ \A x \in VoiceDeliveries : voiceJob'[x] = "ring" <=> voiceJob[x] = "ring"
      BY <1>12, <1>t DEF Voice!BindSession
    <2> QED BY <2>1, <1>s
  <1>13. ASSUME NEW d \in VoiceDeliveries, Voice!DialRefused(d) \/ Voice!PlaceFails(d) PROVE HalfWritten'
    BY <1>13, <1>f DEF Voice!DialRefused, Voice!PlaceFails
  <1>14. ASSUME NEW d \in VoiceDeliveries, NEW code \in Voice!Codes, Voice!Progress(d, code)
         PROVE  HalfWritten'
    BY <1>14, <1>s DEF Voice!Progress
  <1>15. ASSUME NEW h \in VoiceHooks, Voice!HookFind(h) PROVE HalfWritten'
    <2>1. PICK m \in voiceSaid :
            voiceHook' = [voiceHook EXCEPT ![h] = [at |-> IF voiceRow.rc = m[1] THEN "row" ELSE "done",
                                    rc |-> m[1], status |-> Voice!StatusOf(m[2])]]
      BY <1>15 DEF Voice!HookFind
    <2>2. /\ voiceHook[h].at # "tell" /\ voiceHook'[h].at # "tell"
          /\ \A x \in VoiceHooks : x # h => voiceHook'[x] = voiceHook[x]
      BY <1>15, <2>1, <1>t DEF Voice!HookFind
    <2>3. UNCHANGED <<voiceCrossed, voiceFailures, voiceRow, voiceSession, voiceJob, voiceEnder>>
      BY <1>15 DEF Voice!HookFind
    <2> QED BY <2>2, <2>3, <1>s
  <1>16. ASSUME NEW h \in VoiceHooks, Voice!HookQueue(h) PROVE HalfWritten'
    <2>1. /\ voiceHook[h].at # "tell" /\ voiceHook'[h].at # "tell"
          /\ \A x \in VoiceHooks : x # h => voiceHook'[x] = voiceHook[x]
          /\ UNCHANGED <<voiceCrossed, voiceFailures, voiceRow, voiceSession, voiceJob, voiceEnder>>
      BY <1>16, <1>t, <1>u DEF Voice!HookQueue
    <2> QED BY <2>1, <1>s
  <1>17. ASSUME NEW h \in VoiceHooks, Voice!HookDies(h) PROVE HalfWritten'
    BY <1>17, <1>f DEF Voice!HookDies
  <1>18. ASSUME NEW e \in VoiceEnds, Voice!EndRead(e) PROVE HalfWritten'
    <2>1. /\ voiceEnder[e].at \notin {"hang", "row"} /\ voiceEnder'[e].at \in {"done", "session"}
          /\ \A x \in VoiceEnds : x # e => voiceEnder'[x] = voiceEnder[x]
          /\ UNCHANGED <<voiceCrossed, voiceFailures, voiceRow, voiceSession, voiceJob, voiceHook>>
      BY <1>18, <1>t, <1>u DEF Voice!EndRead
    <2> QED BY <2>1, <1>s
  <1>19. CASE Voice!PostCall
    BY <1>19, <1>f, <1>s DEF Voice!PostCall
  <1> QED BY <1>1, <1>2, <1>3, <1>4, <1>5, <1>6, <1>7, <1>8, <1>9, <1>10, <1>11, <1>12, <1>13,
             <1>14,
             <1>15, <1>16, <1>17, <1>18, <1>19
          DEF Voice!Next, Voice!Place, Voice!HookStep, Voice!EndStep

LEMMA ViewsHeld == VoiceInv => Voice!ViewsAgree
  <1> SUFFICES ASSUME VoiceInv, Voice!Open = {}, ~voiceCrossed, voiceFailures = 0 PROVE Agree
    BY DEF Voice!ViewsAgree, Agree
  <1>1. \A x : ~Ringing(x) /\ ~Telling(x) /\ ~Ending(x)
    BY OpenOnes
  <1> QED BY <1>1 DEF VoiceInv, Smooth, HalfWritten

(* The row of a call and the object of its session agree on whether it is *)
(* over, unless a step failed between the two or two of them crossed, for *)
(* any number of deliveries, hooks and ends (voice-session.ts:119,        *)
(* calls.ts).                                                             *)
THEOREM CallViewsAgree == Spec => []ViewsAgree
  <1>1. Init => VoiceInv
    BY InitVoiceInv DEF Init
  <1>2. VoiceInv /\ [Next]_vars => VoiceInv'
    BY NextVoiceInv, StepOfPart
  <1>3. VoiceInv => ViewsAgree
    BY ViewsHeld DEF ViewsAgree
  <1> QED BY <1>1, <1>2, <1>3, PTL DEF Spec
=============================================================================
