------------------------------ MODULE ListPages -----------------------------
(***************************************************************************)
(* The list pages of the web client (discovery, one's RSVPs, one's events):*)
(* the address decides what is asked for, every change of it aborts the    *)
(* load before, and the last answer stays on display meanwhile.            *)
(***************************************************************************)
EXTENDS Integers, FiniteSets

CONSTANTS Views, Limit, MaxTotal, MaxLoads      \* MaxLoads bounds one history

VARIABLES
  total,          \* rows the server has for each view
  query,          \* the address: a view and a page of it
  result, error, busy,
  loads,          \* GETs in flight
  loadCount,
  errorOf         \* history: the query whose load failed

vars == <<total, query, result, error, busy, loads, loadCount, errorOf>>

Queries == [view : Views, page : 1..MaxTotal]
NoResult == [query |-> [view |-> "none", page |-> 0], rows |-> 0, total |-> 0]

(* The API's page and meta.total. *)
Rows(q) ==
  LET left == total[q.view] - (q.page - 1) * Limit
  IN  IF left < 0 THEN 0 ELSE IF left > Limit THEN Limit ELSE left

(* The effect: abort what is in flight, ask again. *)
Load(q) ==
  /\ loadCount < MaxLoads /\ loadCount' = loadCount + 1
  /\ loads' = {[l EXCEPT !.aborted = TRUE] : l \in loads}
               \cup {[n |-> loadCount, query |-> q, aborted |-> FALSE]}
  /\ busy' = TRUE /\ error' = FALSE

Init ==
  /\ total \in [Views -> 0..MaxTotal]
  /\ \E v \in Views : query = [view |-> v, page |-> 1]
  /\ result = NoResult /\ error = FALSE /\ busy = TRUE /\ errorOf = NoResult.query
  /\ loadCount = 1 /\ loads = {[n |-> 0, query |-> query, aborted |-> FALSE]}

(* A tab, a filter, another page, the back button, an address typed in.    *)
Turn(q) ==
  /\ q # query /\ query' = q /\ Load(q)
  /\ UNCHANGED <<total, result, errorOf>>

(* "Try again", under an error. *)
Retry ==
  /\ error /\ Load(query)
  /\ UNCHANGED <<total, query, result, errorOf>>

(* Mutant of Lands: an answer that arrives is shown.                       *)
LandsAlways(l) == TRUE

Lands(l) == ~l.aborted

Finally(l, ok) == Lands(l)

(* A load ends; an aborted fetch may have been answered before.            *)
Settle(l, ok) ==
  /\ loads' = loads \ {l}
  /\ result' = IF ok /\ Lands(l)
               THEN [query |-> l.query, rows |-> Rows(l.query), total |-> total[l.query.view]]
               ELSE result
  /\ error' = (error \/ (~ok /\ Lands(l)))
  /\ errorOf' = IF ~ok /\ Lands(l) THEN l.query ELSE errorOf
  /\ busy' = (busy /\ ~Finally(l, ok))
  /\ UNCHANGED <<total, query, loadCount>>

(* Others create, delete, end events; the user joins and leaves them.      *)
Change(v) ==
  /\ \E n \in 0..MaxTotal : n # total[v] /\ total' = [total EXCEPT ![v] = n]
  /\ UNCHANGED <<query, result, error, busy, loads, loadCount, errorOf>>

Next ==
  \/ \E q \in Queries : Turn(q)
  \/ Retry
  \/ \E l \in loads, ok \in BOOLEAN : Settle(l, ok)
  \/ \E v \in Views : Change(v)

Spec == Init /\ [][Next]_vars

(* A fetch settles. *)
FairSpec == Spec /\ WF_vars(\E l \in loads, ok \in BOOLEAN : Settle(l, ok))

-----------------------------------------------------------------------------
SaysNone == ~error /\ result # NoResult /\ result.rows = 0     \* the EmptyState

(* A page at rest shows the answer to its address, or an error of it: no   *)
(* slow answer to an earlier address replaces it.                          *)
SettledShowsAsked ==
  ~busy => IF error THEN errorOf = query ELSE result.query = query

(* "Loading..." goes away, whether the load succeeds, fails or is replaced.*)
BusyEnds == busy ~> ~busy

(* "No past gatherings yet." (MyRsvpsPage): said of a view with none.      *)
EmptyMeansNone == SaysNone => result.total = 0
=============================================================================
