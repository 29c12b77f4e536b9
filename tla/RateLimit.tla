------------------------------ MODULE RateLimit ------------------------------
(***************************************************************************)
(* The requests that a rate limit allows in a window (checkRateLimit, and  *)
(* rateAllow, whose windows are hours): a counter in KV, which only has    *)
(* get and put.                                                            *)
(***************************************************************************)
EXTENDS Integers, FiniteSets

CONSTANTS Requests,  \* requests under one key
          Windows,   \* bound: windows 1..Windows
          Limit      \* requests a window allows

VARIABLES
  window,    \* the current window
  bucket,    \* the counter of each window
  request,   \* where each request is
  its,       \* the window each request was counted in
  seen,      \* the count it has read
  allowed,   \* requests let through in each window
  overlaps   \* requests that read a bucket another had read and not yet put

vars == <<window, bucket, request, its, seen, allowed, overlaps>>

TypeOK ==
  /\ window \in 1..Windows
  /\ bucket \in [1..Windows -> Nat] /\ allowed \in [1..Windows -> Nat]
  /\ overlaps \in [1..Windows -> Nat]
  /\ request \in [Requests -> {"new", "read", "allowed", "denied"}]
  /\ its \in [Requests -> 1..Windows] /\ seen \in [Requests -> Nat]

Init ==
  /\ window = 1
  /\ bucket = [w \in 1..Windows |-> 0]
  /\ allowed = [w \in 1..Windows |-> 0] /\ overlaps = [w \in 1..Windows |-> 0]
  /\ request = [r \in Requests |-> "new"]
  /\ its = [r \in Requests |-> 1] /\ seen = [r \in Requests |-> 0]

WindowEnds ==
  /\ window < Windows
  /\ window' = window + 1
  /\ UNCHANGED <<bucket, request, its, seen, allowed, overlaps>>

Counting(w) == {r \in Requests : request[r] = "read" /\ its[r] = w}

ReadsPast(r) ==  \* mutant: count > max in place of count >= max
  /\ request[r] = "new"
  /\ its' = [its EXCEPT ![r] = window]
  /\ seen' = [seen EXCEPT ![r] = bucket[window]]
  /\ request' = [request EXCEPT ![r] = IF bucket[window] > Limit THEN "denied" ELSE "read"]
  /\ overlaps' = [overlaps EXCEPT ![window] = IF Counting(window) # {} THEN @ + 1 ELSE @]
  /\ UNCHANGED <<window, bucket, allowed>>

ReadBucket(r) ==
  /\ request[r] = "new"
  /\ its' = [its EXCEPT ![r] = window]
  /\ seen' = [seen EXCEPT ![r] = bucket[window]]
  /\ request' = [request EXCEPT ![r] = IF bucket[window] >= Limit THEN "denied" ELSE "read"]
  /\ overlaps' = [overlaps EXCEPT ![window] = IF Counting(window) # {} THEN @ + 1 ELSE @]
  /\ UNCHANGED <<window, bucket, allowed>>

PutBucket(r) ==
  /\ request[r] = "read"
  /\ bucket' = [bucket EXCEPT ![its[r]] = seen[r] + 1]
  /\ allowed' = [allowed EXCEPT ![its[r]] = @ + 1]
  /\ request' = [request EXCEPT ![r] = "allowed"]
  /\ UNCHANGED <<window, its, seen, overlaps>>

-----------------------------------------------------------------------------
Next ==
  \/ WindowEnds
  \/ \E r \in Requests : ReadBucket(r) \/ PutBucket(r)

Spec == Init /\ [][Next]_vars

-----------------------------------------------------------------------------
(* A window lets through no more requests than its limit and those that read its counter   *)
(* while another was about to put it, though a late put may set the counter back           *)
(* (rate-limit.ts:39-63, queue-helpers.ts:12-24).                                          *)
LimitOvershootBounded ==
  \A w \in 1..Windows : allowed[w] <= Limit + overlaps[w]
=============================================================================
