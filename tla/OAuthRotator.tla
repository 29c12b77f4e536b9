---------------------------- MODULE OAuthRotator ----------------------------
(***************************************************************************)
(* Gmail accounts and their access tokens.  The callback of a Google login *)
(* (icrv-api/src/index.ts) retires the tenant's accounts and inserts a new *)
(* one; senders pick an active account and ask its OAuthRotatorDO, one     *)
(* object per account, for an access token (oauth-rotator.ts).             *)
(*                                                                         *)
(* The object reads its storage, and joins or starts the refresh, in one   *)
(* step: no event is delivered to a Durable Object that awaits its storage *)
(* (input gates).  Its fetches and KV writes do not hold that gate.        *)
(***************************************************************************)
EXTENDS Integers, FiniteSets

CONSTANTS Callers,     \* invocations that send mail or read the inbox
          Callbacks,   \* Google logins that come back to the callback
          First,       \* the account connected at the start
          MaxFailures, \* bound: callbacks that die, rotators that are evicted
          MaxExpiries  \* bound: access tokens that run out

VARIABLES
  active,   \* oauth_tokens rows with is_active = 1; a row is named by its callback
  retired,  \* oauth_tokens rows with is_active = 0
  login,    \* where each callback is
  state,    \* the oauth_state key each callback carries
  states,   \* oauth_state:* keys in KV_OAUTH
  codes,    \* authorization codes not yet exchanged: one comes with each state
  overlaps, \* callbacks that retired the accounts while another was about to insert its own
  sender,   \* the account each caller has picked and not been answered for, or "none"
  answer,   \* what the rotator last told each caller
  cached,   \* cached_token in the storage of each object
  stage,    \* where the refresh of each object is
  sharers,  \* callers that await it
  late,     \* tokens obtained for an account after it was retired
  failures, expiries

accountVars == <<active, retired, login, state, states, codes, overlaps>>
rotatorVars == <<sender, answer, cached, stage, sharers, late>>
vars        == <<accountVars, rotatorVars, failures, expiries>>

Accounts == Callbacks \cup {First}

Before == {"start", "checked", "consumed", "exchanged"}

TypeOK ==
  /\ active \subseteq Accounts /\ retired \subseteq Accounts
  /\ login \in [Callbacks -> Before \cup {"insert", "done", "failed", "lost"}]
  /\ state \in [Callbacks -> Callbacks]
  /\ states \subseteq Callbacks /\ codes \subseteq Callbacks
  /\ overlaps \in Nat
  /\ sender \in [Callers -> Accounts \cup {"none"}]
  /\ answer \in [Callers -> {"none", "token", "error"}]
  /\ cached \in [Accounts -> {"none", "fresh", "stale"}]
  /\ stage \in [Accounts -> {"idle", "select", "google", "mirror"}]
  /\ sharers \in [Accounts -> SUBSET Callers]
  /\ late \in [Accounts -> Nat]
  /\ failures \in 0..MaxFailures /\ expiries \in 0..MaxExpiries

Init ==
  /\ active = {First} /\ retired = {}
  /\ login = [l \in Callbacks |-> "start"]
  /\ state = [l \in Callbacks |-> l]
  /\ states = Callbacks /\ codes = Callbacks
  /\ overlaps = 0
  /\ sender = [c \in Callers |-> "none"]
  /\ answer = [c \in Callers |-> "none"]
  /\ cached = [a \in Accounts |-> "none"]
  /\ stage = [a \in Accounts |-> "idle"]
  /\ sharers = [a \in Accounts |-> {}]
  /\ late = [a \in Accounts |-> 0]
  /\ failures = 0 /\ expiries = 0

-----------------------------------------------------------------------------
(* GET /oauth/google/callback. *)

GoOn(l, p)   == login' = [login EXCEPT ![l] = p]
Inserting    == {l \in Callbacks : login[l] = "insert"}

(* The browser may come back twice with one state; a login whose state is gone ends with   *)
(* invalid_or_expired_state.                                                               *)
CheckState(l) ==
  /\ login[l] = "start"
  /\ \E k \in Callbacks :
       /\ state' = [state EXCEPT ![l] = k]
       /\ GoOn(l, IF k \in states THEN "checked" ELSE "failed")
  /\ UNCHANGED <<active, retired, states, codes, overlaps>>
  /\ UNCHANGED <<rotatorVars, failures, expiries>>

ConsumeState(l) ==
  /\ login[l] = "checked"
  /\ states' = states \ {state[l]}
  /\ GoOn(l, "consumed")
  /\ UNCHANGED <<active, retired, state, codes, overlaps>>
  /\ UNCHANGED <<rotatorVars, failures, expiries>>

(* Google takes an authorization code once; it may refuse one, or give no refresh_token. *)
ExchangeCode(l) ==
  /\ login[l] = "consumed"
  /\ \/ state[l] \in codes /\ codes' = codes \ {state[l]} /\ GoOn(l, "exchanged")
     \/ state[l] \notin codes /\ GoOn(l, "failed") /\ UNCHANGED codes
  /\ UNCHANGED <<active, retired, state, states, overlaps>>
  /\ UNCHANGED <<rotatorVars, failures, expiries>>

RetiresOlder(l) ==  \* mutant: the UPDATE comes after the INSERT and spares the new row
  /\ login[l] = "exchanged"
  /\ GoOn(l, "insert")
  /\ UNCHANGED <<active, retired, state, states, codes, overlaps>>
  /\ UNCHANGED <<rotatorVars, failures, expiries>>

RetireAccounts(l) ==
  /\ login[l] = "exchanged"
  /\ active' = {} /\ retired' = retired \cup active
  /\ overlaps' = overlaps + Cardinality(Inserting)
  /\ GoOn(l, "insert")
  /\ UNCHANGED <<state, states, codes>>
  /\ UNCHANGED <<rotatorVars, failures, expiries>>

InsertAccount(l) ==
  /\ login[l] = "insert"
  /\ active' = active \cup {l}
  /\ GoOn(l, "done")
  /\ UNCHANGED <<retired, state, states, codes, overlaps>>
  /\ UNCHANGED <<rotatorVars, failures, expiries>>

CallbackDies(l) ==
  /\ login[l] \in {"checked", "consumed", "exchanged", "insert"}
  /\ failures < MaxFailures
  /\ failures' = failures + 1
  /\ GoOn(l, IF login[l] = "insert" THEN "lost" ELSE "failed")
  /\ UNCHANGED <<active, retired, state, states, codes, overlaps>>
  /\ UNCHANGED <<rotatorVars, expiries>>

-----------------------------------------------------------------------------
(* OAuthRotatorDO and those that ask it. *)

(* pickActiveGmailSender and the like: the account is stored in the job and used later. *)
PickSender(c) ==
  /\ sender[c] = "none"
  /\ \E a \in active : sender' = [sender EXCEPT ![c] = a]
  /\ answer' = [answer EXCEPT ![c] = "none"]
  /\ UNCHANGED <<cached, stage, sharers, late>>
  /\ UNCHANGED <<accountVars, failures, expiries>>

InFlight(a) == stage[a] # "idle"

(* c asks the rotator of a, having picked a and not asked yet. *)
Asks(c, a) == sender[c] = a /\ c \notin sharers[a]

AnswerFromCache(c, a) ==
  /\ Asks(c, a) /\ cached[a] = "fresh"
  /\ sender' = [sender EXCEPT ![c] = "none"]
  /\ answer' = [answer EXCEPT ![c] = "token"]
  /\ UNCHANGED <<cached, stage, sharers, late>>
  /\ UNCHANGED <<accountVars, failures, expiries>>

JoinRefresh(c, a) ==
  /\ Asks(c, a) /\ cached[a] # "fresh" /\ InFlight(a)
  /\ sharers' = [sharers EXCEPT ![a] = @ \cup {c}]
  /\ UNCHANGED <<sender, answer, cached, stage, late>>
  /\ UNCHANGED <<accountVars, failures, expiries>>

StartsAnyway(c, a) ==  \* mutant: getOrRefresh does not look at this.inflight
  /\ Asks(c, a) /\ cached[a] # "fresh"
  /\ stage' = [stage EXCEPT ![a] = "select"]
  /\ sharers' = [sharers EXCEPT ![a] = {c}]
  /\ UNCHANGED <<sender, answer, cached, late>>
  /\ UNCHANGED <<accountVars, failures, expiries>>

StartRefresh(c, a) ==
  /\ Asks(c, a) /\ cached[a] # "fresh" /\ ~InFlight(a)
  /\ stage' = [stage EXCEPT ![a] = "select"]
  /\ sharers' = [sharers EXCEPT ![a] = {c}]
  /\ UNCHANGED <<sender, answer, cached, late>>
  /\ UNCHANGED <<accountVars, failures, expiries>>

(* The promise settles: all that await it get its outcome, and inflight is cleared. *)
Land(a, outcome) ==
  /\ answer' = [c \in Callers |-> IF c \in sharers[a] THEN outcome ELSE answer[c]]
  /\ sender' = [c \in Callers |-> IF c \in sharers[a] THEN "none" ELSE sender[c]]
  /\ stage' = [stage EXCEPT ![a] = "idle"]
  /\ sharers' = [sharers EXCEPT ![a] = {}]

SelectsAny(a) ==  \* mutant: no AND is_active = 1
  /\ stage[a] = "select"
  /\ stage' = [stage EXCEPT ![a] = "google"]
  /\ UNCHANGED <<sender, answer, cached, sharers, late>>
  /\ UNCHANGED <<accountVars, failures, expiries>>

SelectToken(a) ==
  /\ stage[a] = "select" /\ a \in active
  /\ stage' = [stage EXCEPT ![a] = "google"]
  /\ UNCHANGED <<sender, answer, cached, sharers, late>>
  /\ UNCHANGED <<accountVars, failures, expiries>>

(* oauth_token_not_found, or google_oauth_<status>. *)
RefreshFails(a) ==
  /\ \/ stage[a] = "select" /\ a \notin active
     \/ stage[a] = "google"
  /\ Land(a, "error")
  /\ UNCHANGED <<cached, late>>
  /\ UNCHANGED <<accountVars, failures, expiries>>

StoreToken(a) ==
  /\ stage[a] = "google"
  /\ cached' = [cached EXCEPT ![a] = "fresh"]
  /\ late' = [late EXCEPT ![a] = IF a \in retired THEN @ + 1 ELSE @]
  /\ stage' = [stage EXCEPT ![a] = "mirror"]
  /\ UNCHANGED <<sender, answer, sharers>>
  /\ UNCHANGED <<accountVars, failures, expiries>>

(* KV_OAUTH.put of the mirror: the refresh fails with it though the token is stored. *)
MirrorToken(a) ==
  /\ stage[a] = "mirror"
  /\ \/ Land(a, "token")
     \/ Land(a, "error")
  /\ UNCHANGED <<cached, late>>
  /\ UNCHANGED <<accountVars, failures, expiries>>

(* The object is evicted: its storage stays, the refresh in memory does not. *)
Evict(a) ==
  /\ InFlight(a)
  /\ failures < MaxFailures
  /\ failures' = failures + 1
  /\ Land(a, "error")
  /\ UNCHANGED <<cached, late>>
  /\ UNCHANGED <<accountVars, expiries>>

(* The cached token has no more than 60 s left. *)
TokenExpires(a) ==
  /\ cached[a] = "fresh" /\ expiries < MaxExpiries
  /\ expiries' = expiries + 1
  /\ cached' = [cached EXCEPT ![a] = "stale"]
  /\ UNCHANGED <<sender, answer, stage, sharers, late>>
  /\ UNCHANGED <<accountVars, failures>>

-----------------------------------------------------------------------------
CallbackStep(l) ==
  \/ CheckState(l) \/ ConsumeState(l) \/ ExchangeCode(l)
  \/ RetireAccounts(l) \/ InsertAccount(l) \/ CallbackDies(l)

CallerStep(c) ==
  \/ PickSender(c)
  \/ \E a \in Accounts : AnswerFromCache(c, a) \/ JoinRefresh(c, a) \/ StartRefresh(c, a)

RotatorStep(a) ==
  \/ SelectToken(a) \/ RefreshFails(a) \/ StoreToken(a) \/ MirrorToken(a)
  \/ Evict(a) \/ TokenExpires(a)

Next ==
  \/ \E l \in Callbacks : CallbackStep(l)
  \/ \E c \in Callers : CallerStep(c)
  \/ \E a \in Accounts : RotatorStep(a)

Spec == Init /\ [][Next]_vars

-----------------------------------------------------------------------------
(* The rotators of all accounts are a single-flight service to their callers. *)
Flights == INSTANCE SingleFlight WITH
  Names <- Accounts, Answers <- {"token", "error"}, NoAnswer <- "none",
  flight <- sharers

(* Concurrent callers with an expired token share one refresh and its outcome, through     *)
(* expiry, eviction and failures (oauth-rotator.ts:56-62).                                 *)
SharesFlights == Flights!Spec

(* An account that a new login has retired runs dry: only the one refresh that was under   *)
(* way may still get a token for it, and those that picked it are refused from then on     *)
(* (the row is read before Google is asked: oauth-rotator.ts:65-69, 78-87).                *)
RetiredRunsDry == \A a \in Accounts : late[a] <= 1

(* Of concurrent logins of a tenant at most one more account than overlapped is active;    *)
(* and the tenant is without an account only while a callback is between its UPDATE and    *)
(* its INSERT, or after one died there (index.ts:189-199).                                 *)
AccountsFollowLogins ==
  /\ Cardinality(active) + Cardinality(Inserting) <= 1 + overlaps
  /\ active = {} => \E l \in Callbacks : login[l] \in {"insert", "lost"}
=============================================================================
