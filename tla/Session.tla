------------------------------- MODULE Session -------------------------------
(***************************************************************************)
(* How the API tells who asks (authMiddleware) and forgets it (logout).    *)
(* Tokens are signed by Cloudflare Access, whose keyset is cached in       *)
(* KV_JWKS; a logout writes the token's jti to KV_REVOKED, for as long as  *)
(* the token is valid.  A request checks the signature and the expiry      *)
(* first, and the revocation after it.  The bearer tokens of services,     *)
(* which have no keyset, and the look-up of the user are left out.         *)
(***************************************************************************)
EXTENDS Integers

CONSTANTS Clients,  \* what sends requests with the token, one at a time
          Exp,      \* exp of the token, in seconds
          MinTtl,   \* the shortest life of a revocation (60 s)
          KeyTtl,   \* life of the cached keyset (one hour)
          Horizon   \* bound: how far the clock runs

VARIABLES
  clock,
  withdrawn,  \* when Access took the token's key out of its keyset, or Never
  cache,      \* whether the keyset in KV_JWKS has the key, and when it runs out
  revoked,    \* when the revocation of the token runs out, or 0
  out,        \* when a logout was answered first, or Never
  request,    \* where the request of each client is
  kind,       \* "call" or "logout"
  known,      \* the keyset it has has the key
  late,       \* it came in when the cached keyset should have run out
  slow,       \* a keyset had been fetched and was not put yet when the key was withdrawn
  leaked,     \* a call was let through after the logout, before the token's last second
  overdue     \* one was that began when the cached keyset should have run out

Never == Horizon + 1
vars == <<clock, withdrawn, cache, revoked, out, request, kind, known, late,
          slow, leaked, overdue>>

Places == {"new", "fetched", "verify", "check", "revoke"}

TypeOK ==
  /\ clock \in 0..Horizon
  /\ withdrawn \in 0..Never /\ out \in 0..Never
  /\ cache \in [known : BOOLEAN, until : Nat]
  /\ revoked \in Nat
  /\ request \in [Clients -> Places] /\ kind \in [Clients -> {"call", "logout"}]
  /\ known \in [Clients -> BOOLEAN] /\ late \in [Clients -> BOOLEAN]
  /\ slow \in BOOLEAN
  /\ leaked \in BOOLEAN /\ overdue \in BOOLEAN

Init ==
  /\ clock = 0
  /\ withdrawn = Never
  /\ cache = [known |-> FALSE, until |-> 0]
  /\ revoked = 0 /\ out = Never
  /\ request = [r \in Clients |-> "new"]
  /\ kind = [r \in Clients |-> "call"]
  /\ known = [r \in Clients |-> FALSE] /\ late = [r \in Clients |-> FALSE]
  /\ slow = FALSE /\ leaked = FALSE /\ overdue = FALSE

Tick ==
  /\ clock < Horizon
  /\ clock' = clock + 1
  /\ UNCHANGED <<withdrawn, cache, revoked, out, request, kind, known, late,
                 slow, leaked, overdue>>

Withdraw ==
  /\ withdrawn = Never
  /\ withdrawn' = clock
  /\ slow' = \E r \in Clients : request[r] = "fetched"
  /\ UNCHANGED <<clock, cache, revoked, out, request, kind, known, late, leaked, overdue>>

----------------------------------------------------------------------------

Goes(r, place) == request' = [request EXCEPT ![r] = place]

Keeps == UNCHANGED <<kind, known, late>>

Over(r) ==  \* answered: the client may send another
  /\ request' = [request EXCEPT ![r] = "new"]
  /\ kind' = [kind EXCEPT ![r] = "call"]
  /\ known' = [known EXCEPT ![r] = FALSE] /\ late' = [late EXCEPT ![r] = FALSE]

ReadCache(r) ==
  /\ request[r] = "new"
  /\ \E k \in {"call", "logout"} : kind' = [kind EXCEPT ![r] = k]
  /\ late' = [late EXCEPT ![r] = clock >= withdrawn + KeyTtl]
  /\ IF clock < cache.until
       THEN known' = [known EXCEPT ![r] = cache.known] /\ Goes(r, "verify")
       ELSE known' = [known EXCEPT ![r] = withdrawn = Never] /\ Goes(r, "fetched")
  /\ UNCHANGED <<clock, withdrawn, cache, revoked, out, slow, leaked, overdue>>

FetchFails(r) ==
  /\ request[r] = "fetched" /\ Over(r)
  /\ UNCHANGED <<clock, withdrawn, cache, revoked, out, slow, leaked, overdue>>

PutCache(r) ==
  /\ request[r] = "fetched"
  /\ cache' = [known |-> known[r], until |-> clock + KeyTtl]
  /\ Goes(r, "verify") /\ Keeps
  /\ UNCHANGED <<clock, withdrawn, revoked, out, slow, leaked, overdue>>

Verify(r) ==
  /\ request[r] = "verify" /\ known[r] /\ clock <= Exp
  /\ Goes(r, "check") /\ Keeps
  /\ UNCHANGED <<clock, withdrawn, cache, revoked, out, slow, leaked, overdue>>

VerifyFails(r) ==
  /\ request[r] = "verify" /\ ~(known[r] /\ clock <= Exp)
  /\ Over(r)
  /\ UNCHANGED <<clock, withdrawn, cache, revoked, out, slow, leaked, overdue>>

FoundRevoked(r) ==
  /\ request[r] = "check" /\ clock < revoked
  /\ Over(r)
  /\ UNCHANGED <<clock, withdrawn, cache, revoked, out, slow, leaked, overdue>>

LetIn(r) ==
  /\ request[r] = "check" /\ clock >= revoked
  /\ IF kind[r] = "logout" THEN Goes(r, "revoke") /\ Keeps /\ UNCHANGED <<leaked, overdue>>
     ELSE /\ Over(r)
          /\ leaked' = (leaked \/ (out < clock /\ clock < Exp))
          /\ overdue' = (overdue \/ late[r])
  /\ UNCHANGED <<clock, withdrawn, cache, revoked, out, slow>>

Larger(a, b) == IF a > b THEN a ELSE b

RevokesBriefly(r) ==  \* mutant: the shortest life in place of the longer one
  /\ request[r] = "revoke"
  /\ revoked' = clock + MinTtl
  /\ out' = IF out = Never THEN clock ELSE out
  /\ Over(r)
  /\ UNCHANGED <<clock, withdrawn, cache, slow, leaked, overdue>>

Revoke(r) ==
  /\ request[r] = "revoke"
  /\ revoked' = clock + Larger(MinTtl, Exp - clock)
  /\ out' = IF out = Never THEN clock ELSE out
  /\ Over(r)
  /\ UNCHANGED <<clock, withdrawn, cache, slow, leaked, overdue>>

Next ==
  \/ Tick \/ Withdraw
  \/ \E r \in Clients :
       \/ ReadCache(r) \/ FetchFails(r) \/ PutCache(r)
       \/ Verify(r) \/ VerifyFails(r) \/ FoundRevoked(r) \/ LetIn(r) \/ Revoke(r)

Spec == Init /\ [][Next]_vars

----------------------------------------------------------------------------

(* A call whose checks end after a logout was answered is refused as long   *)
(* as the token is valid, but for its very last second: the revocation runs *)
(* out at exp, the token only after it.                                     *)
LoggedOutIsRefused == ~leaked

(* A token whose key Access has withdrawn is let in no longer than the      *)
(* keyset is cached, by requests that came in later: unless the keyset was  *)
(* being fetched at that moment, since it is put when it has come.          *)
WithdrawnKeyRunsOut ==
  ~slow => ~overdue
=============================================================================
