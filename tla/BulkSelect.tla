----------------------------- MODULE BulkSelect -----------------------------
(***************************************************************************)
(* Bulk actions on contacts: the Contacts page, whose list, ticks and      *)
(* "select all matching" live in the browser, and POST /v1/contacts/bulk,  *)
(* which gets either the ticked ids or the query and looks the query up    *)
(* again.  Lists are loaded whenever the query or the page changes and     *)
(* nothing keeps their answers in order.  Every action but the deletion    *)
(* leaves the contacts in place; what it sets is left out.                 *)
(***************************************************************************)
EXTENDS Integers, FiniteSets

CONSTANTS People,    \* contacts, by the order of their creation
          Found,     \* those that the search text finds
          PerPage,   \* rows of a page (20)
          MaxClicks  \* bound: clicks of the operator

Queries == {"any", "search", "pending"}  \* no filter, a search, a consent state

VARIABLES
  exists,     \* contacts in the table
  pending,    \* those asked for their consent that have not answered
  query, page,
  shown,      \* rows the list shows
  total,      \* total of the last answer
  loads,      \* GET /v1/contacts not yet answered
  ticked,     \* selectedIds
  all,        \* selectAllMatching
  meant,      \* contacts whose boxes the operator's clicks under this query have ticked
  meantAll,   \* the operator has selected all that match this query
  request,    \* the bulk request in progress
  strays,     \* contacts that were hit and had not been picked
  clicks

page_vars == <<query, page, shown, total, loads, ticked, all, meant, meantAll>>
vars == <<exists, pending, page_vars, request, strays, clicks>>

Idle == [at |-> "idle", deletes |-> FALSE, ids |-> {}, query |-> "any",
         meant |-> {}, meantAll |-> FALSE, left |-> {}]

TypeOK ==
  /\ exists \subseteq People /\ pending \subseteq People
  /\ query \in Queries /\ page \in Nat \ {0}
  /\ shown \subseteq People /\ total \in 0..Cardinality(People)
  /\ loads \subseteq [query : Queries, page : Nat \ {0}]
  /\ ticked \subseteq People /\ meant \subseteq People
  /\ all \in BOOLEAN /\ meantAll \in BOOLEAN
  /\ request \in [at : {"idle", "sent", "applying"}, deletes : BOOLEAN,
                  ids : SUBSET People, query : Queries, meant : SUBSET People,
                  meantAll : BOOLEAN, left : SUBSET People]
  /\ strays \subseteq People /\ clicks \in 0..MaxClicks

Matching(q) == CASE q = "any" -> exists
                 [] q = "search" -> exists \cap Found
                 [] q = "pending" -> exists \cap pending

Rows(q, p) ==  \* the newest first
  LET newer(c) == Cardinality({d \in Matching(q) : d > c})
  IN {c \in Matching(q) : newer(c) \div PerPage = p - 1}

Newest == CHOOSE c \in People : \A d \in People : d <= c

Init ==
  /\ exists = People \ {Newest} /\ pending = Found
  /\ query = "any" /\ page = 1
  /\ shown = {} /\ total = 0
  /\ loads = {[query |-> "any", page |-> 1]}
  /\ ticked = {} /\ all = FALSE /\ meant = {} /\ meantAll = FALSE
  /\ request = Idle /\ strays = {} /\ clicks = 0

Clicks == clicks < MaxClicks /\ clicks' = clicks + 1

----------------------------------------------------------------------------
(* The list. *)

Loaded(l) ==
  /\ shown' = Rows(l.query, l.page)
  /\ total' = Cardinality(Matching(l.query))
  /\ loads' = loads \ {l}
  /\ UNCHANGED <<exists, pending, query, page, ticked, all, meant, meantAll, request,
                 strays, clicks>>

LoadFails(l) ==
  /\ loads' = loads \ {l}
  /\ UNCHANGED <<exists, pending, query, page, shown, total, ticked, all, meant,
                 meantAll, request, strays, clicks>>

KeepsSelection(q) ==  \* mutant: the effect of a new query does not clear the selection
  /\ q # query /\ Clicks
  /\ query' = q /\ page' = 1
  /\ meant' = {} /\ meantAll' = FALSE
  /\ loads' = loads \cup {[query |-> q, page |-> 1]}
  /\ UNCHANGED <<exists, pending, shown, total, ticked, all, request, strays>>

SetQuery(q) ==
  /\ q # query /\ Clicks
  /\ query' = q /\ page' = 1
  /\ ticked' = {} /\ all' = FALSE
  /\ meant' = {} /\ meantAll' = FALSE
  /\ loads' = loads \cup {[query |-> q, page |-> 1]}
  /\ UNCHANGED <<exists, pending, shown, total, request, strays>>

TurnPage(p) ==
  /\ p # page /\ p >= 1 /\ (p - 1) * PerPage < total /\ Clicks
  /\ page' = p
  /\ loads' = loads \cup {[query |-> query, page |-> p]}
  /\ UNCHANGED <<exists, pending, query, shown, total, ticked, all, meant, meantAll,
                 request, strays>>

----------------------------------------------------------------------------
(* The selection. *)

Flip(set, c) == IF c \in set THEN set \ {c} ELSE set \cup {c}

ToggleRow(c) ==  \* after "select all", the row clicked becomes the only one ticked
  /\ c \in shown /\ Clicks
  /\ ticked' = Flip(ticked, c) /\ all' = FALSE
  /\ meant' = ticked' /\ meantAll' = FALSE
  /\ UNCHANGED <<exists, pending, query, page, shown, total, loads, request, strays>>

TogglePage ==
  /\ Clicks
  /\ ticked' = IF all THEN {}
               ELSE IF shown # {} /\ shown \subseteq ticked THEN ticked \ shown
               ELSE ticked \cup shown
  /\ all' = FALSE
  /\ meant' = ticked' /\ meantAll' = FALSE
  /\ UNCHANGED <<exists, pending, query, page, shown, total, loads, request, strays>>

Count == IF all THEN total ELSE Cardinality(ticked)

SelectAllMatching ==
  /\ ~all /\ Count > 0 /\ shown \subseteq ticked /\ total > Count /\ Clicks
  /\ all' = TRUE /\ meantAll' = TRUE
  /\ ticked' = {} /\ meant' = {}
  /\ UNCHANGED <<exists, pending, query, page, shown, total, loads, request, strays>>

----------------------------------------------------------------------------
(* The request. *)

Asks(deletes) ==
  request' = [at |-> "sent", deletes |-> deletes, ids |-> IF all THEN {} ELSE ticked,
              query |-> IF all THEN query ELSE "any",
              meant |-> meant, meantAll |-> meantAll, left |-> {}]

RunUnselected(deletes) ==  \* mutant: runBulk does not look at the count
  /\ request.at = "idle" /\ Clicks
  /\ Asks(deletes)
  /\ UNCHANGED <<exists, pending, page_vars, strays>>

RunBulk(deletes) ==
  /\ request.at = "idle" /\ Count > 0 /\ Clicks
  /\ Asks(deletes)
  /\ UNCHANGED <<exists, pending, page_vars, strays>>

Resolve ==  \* no ids and no query: every contact
  /\ request.at = "sent"
  /\ request' = [request EXCEPT !.at = "applying",
                   !.left = IF request.ids # {} THEN request.ids
                            ELSE Matching(request.query)]
  /\ UNCHANGED <<exists, pending, page_vars, strays, clicks>>

Picked(c) == c \in request.meant \/ request.meantAll

Apply(c) ==
  /\ request.at = "applying" /\ c \in request.left
  /\ request' = [request EXCEPT !.left = @ \ {c}]
  /\ strays' = IF c \in exists /\ ~Picked(c) THEN strays \cup {c} ELSE strays
  /\ exists' = IF request.deletes THEN exists \ {c} ELSE exists
  /\ pending' = IF request.deletes THEN pending \ {c} ELSE pending
  /\ UNCHANGED <<page_vars, clicks>>

Answered ==
  /\ request.at = "applying" /\ request.left = {}
  /\ request' = Idle
  /\ ticked' = {} /\ all' = FALSE /\ meant' = {} /\ meantAll' = FALSE
  /\ loads' = loads \cup {[query |-> query, page |-> page]}
  /\ UNCHANGED <<exists, pending, query, page, shown, total, strays, clicks>>

RequestFails ==
  /\ request.at # "idle"
  /\ request' = Idle
  /\ UNCHANGED <<exists, pending, page_vars, strays, clicks>>

----------------------------------------------------------------------------
(* Others. *)

Join(c) ==
  /\ c = Newest /\ c \notin exists
  /\ exists' = exists \cup {c}
  /\ UNCHANGED <<pending, page_vars, request, strays, clicks>>

Respond(c) ==
  /\ c \in pending
  /\ pending' = pending \ {c}
  /\ UNCHANGED <<exists, page_vars, request, strays, clicks>>

Next ==
  \/ \E l \in loads : Loaded(l) \/ LoadFails(l)
  \/ \E q \in Queries : SetQuery(q)
  \/ TurnPage(page + 1) \/ TurnPage(page - 1)
  \/ TogglePage \/ SelectAllMatching
  \/ \E deletes \in BOOLEAN : RunBulk(deletes)
  \/ Resolve \/ Answered \/ RequestFails
  \/ \E c \in People : ToggleRow(c) \/ Apply(c) \/ Join(c) \/ Respond(c)

Spec == Init /\ [][Next]_vars

----------------------------------------------------------------------------

(* A bulk action hits only contacts that the operator has ticked, or, once  *)
(* all that match were selected, contacts that match the query under which  *)
(* they were: never what an empty or an outdated selection stands for,      *)
(* although POST /bulk takes an empty list of ids for every contact.        *)
OnlyPickedAreHit == strays = {}
=============================================================================
