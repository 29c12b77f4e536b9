----------------------------- MODULE QuoteNumbers -----------------------------
(***************************************************************************)
(* The numbers of a tenant's quotes in one year (quotes.ts).  A new quote  *)
(* takes the number after the greatest one; a unique index refuses a       *)
(* number that is taken, and the request fails.  Numbers are kept and      *)
(* ordered as strings, padded to four digits: up to 9999 that is the order *)
(* of the numbers.                                                         *)
(***************************************************************************)
EXTENDS Integers, FiniteSets

CONSTANTS Creates,  \* POST /v1/quotes requests
          Limit,    \* 10 ^ 4: the least number that needs a fifth digit
          Base      \* 10

VARIABLES
  taken,    \* numbers of the quotes there are
  create,   \* where each request is
  number,   \* the number it has read
  overlaps, \* requests that were about to insert when another one read
  early     \* inserts that the index refused while every number had four digits

vars == <<taken, create, number, overlaps, early>>

TypeOK ==
  /\ taken \subseteq Nat
  /\ create \in [Creates -> {"read", "insert", "made", "refused", "deleted"}]
  /\ number \in [Creates -> Nat]
  /\ overlaps \in Nat /\ early \in Nat

(* The year may have any number of quotes behind it. *)
Init ==
  /\ \E n \in 0..Limit : taken = 1..n
  /\ create = [q \in Creates |-> "read"] /\ number = [q \in Creates |-> 0]
  /\ overlaps = 0 /\ early = 0

-----------------------------------------------------------------------------
(* Five digits are compared with four by their first four, and are greater than these.     *)
StringLess(m, n) ==
  CASE m < Limit /\ n >= Limit -> m <= n \div Base
    [] m >= Limit /\ n < Limit -> m \div Base < n
    [] OTHER -> m < n

Greatest == CHOOSE n \in taken : \A m \in taken : m = n \/ StringLess(m, n)

CountOf == Cardinality(taken) + 1  \* mutant: the quotes are counted

(* nextQuoteNumber. *)
NextQuoteNumber == IF taken = {} THEN 1 ELSE Greatest + 1

Inserting == {q \in Creates : create[q] = "insert"}

Read(q) ==
  /\ create[q] = "read"
  /\ number' = [number EXCEPT ![q] = NextQuoteNumber]
  /\ create' = [create EXCEPT ![q] = "insert"]
  /\ overlaps' = overlaps + Cardinality(Inserting)
  /\ UNCHANGED <<taken, early>>

Insert(q) ==
  /\ create[q] = "insert"
  /\ IF number[q] \in taken
     THEN /\ early' = IF \A n \in taken : n < Limit THEN early + 1 ELSE early
          /\ create' = [create EXCEPT ![q] = "refused"]
          /\ UNCHANGED taken
     ELSE /\ taken' = taken \cup {number[q]}
          /\ create' = [create EXCEPT ![q] = "made"]
          /\ UNCHANGED early
  /\ UNCHANGED <<number, overlaps>>

(* A draft may be deleted: its number is free again. *)
DeleteDraft(q) ==
  /\ create[q] = "made"
  /\ taken' = taken \ {number[q]}
  /\ create' = [create EXCEPT ![q] = "deleted"]
  /\ UNCHANGED <<number, overlaps, early>>

Next == \E q \in Creates : Read(q) \/ Insert(q) \/ DeleteDraft(q)

Spec == Init /\ [][Next]_vars

-----------------------------------------------------------------------------
(* Until a number with five digits is taken, a request is refused its number only if it    *)
(* overlapped another, whatever drafts are deleted in between: the look-up never settles   *)
(* on a number that is taken.  Beyond, the look-up stays at 9999, and every request fails  *)
(* (quotes.ts:283-297).                                                                    *)
RefusedOnlyByRaces == early <= overlaps
=============================================================================
