---------------------------- MODULE EventListing ----------------------------
(***************************************************************************)
(* The discovery feed: the filter and the order of EventsService.findMany, *)
(* its page arithmetic, and a reader who walks through the pages with the  *)
(* Next button while organisers write and time passes.  The page and the   *)
(* count are two statements, each with a snapshot of its own.              *)
(***************************************************************************)
EXTENDS Integers, Sequences, FiniteSets, Ordering

CONSTANTS
  Events,       \* ids, numbers in the order of the primary key
  Rows,         \* the rows organisers may write
  Queries,      \* what readers ask
  MaxPageSize,  \* MAX_PAGE_SIZE
  MaxWrites, MaxTime,   \* bounds on the environment
  Organisers, Anonymous, Absent, Unset

Statuses == {"DRAFT", "PUBLISHED", "CANCELLED", "COMPLETED"}

(* A row, as far as the filter can tell rows apart: word stands for the    *)
(* title, place and type that search, location and eventType select.       *)
Row == [status : Statuses, owner : Organisers, word : {"a", "b"},
        startsAt : Nat, endsAt : Nat]

(* A query string.  upcoming is what was written there; "junk" is anything *)
(* but the spellings of a boolean.                                         *)
Query ==
  [viewer : Organisers \cup {Anonymous}, status : Statuses \cup {Unset},
   creator : Organisers \cup {Unset}, word : {"a", "b"} \cup {Unset},
   upcoming : {Unset, "true", "1", "yes", "", "false", "0", "no", "junk"},
   page : Int, limit : Int]

(* What the constants must satisfy; an instance assumes it. *)
ListingParameters ==
  /\ Events \subseteq Nat /\ IsFiniteSet(Events)
  /\ Rows \subseteq Row /\ Queries \subseteq Query
  /\ Absent \notin Row /\ Anonymous \notin Organisers /\ Unset \notin Statuses

VARIABLES
  table, now, writes,
  opened,  \* history: the page the walk opened at
  query,   \* the query string of the page on the screen or under way
  phase,   \* "ask", "count", "shown", "end" or "refused"
  data,    \* the events of the page
  total,
  seen,    \* history: how often the walk has shown each event
  steady,  \* history: events that kept matching, in their place, so far
  came, left   \* history: events that entered or left the listing, or moved

walk == <<opened, query, phase, data, total, seen>>
vars == <<table, now, writes, walk, steady, came, left>>

-----------------------------------------------------------------------------
(* toBoolean; a value it cannot read is passed on as it is. *)
ToBoolean(raw) ==
  IF raw \in {"true", "1", "yes", ""} THEN "true"
  ELSE IF raw \in {"false", "0", "no"} THEN "false" ELSE raw

(* query.upcoming !== false *)
UpcomingOnly(q) == ToBoolean(q.upcoming) # "false"

(* The validators of PaginationQueryDto.  upcoming has no validator but    *)
(* IsOptional.                                                             *)
Valid(q) == q.page >= 1 /\ q.limit >= 1 /\ q.limit <= MaxPageSize

Skip(q) == (q.page - 1) * q.limit

(* Whose events: an explicit creator replaces the viewer of a draft query.  *)
(* The all-zero id of an anonymous one is nobody's.                        *)
Creator(q) ==
  IF q.creator # Unset THEN {q.creator}
  ELSE IF q.status = "DRAFT" THEN {q.viewer} ELSE Organisers

(* Mutant of Matches: upcoming keys off the start. *)
MatchesByStart(row, q, t) ==
  row # Absent /\ row.status = "PUBLISHED" /\ row.startsAt >= t

(* buildListFilter *)
Matches(row, q, t) ==
  /\ row # Absent
  /\ row.status = IF q.status = Unset THEN "PUBLISHED" ELSE q.status
  /\ row.owner \in Creator(q)
  /\ UpcomingOnly(q) => row.endsAt >= t
  /\ q.word # Unset => row.word = q.word

Listing(tbl, q, t) == {e \in Events : Matches(tbl[e], q, t)}

(* orderBy startsAt, then id *)
Precedes(tbl, d, e) ==
  \/ tbl[d].startsAt < tbl[e].startsAt
  \/ tbl[d].startsAt = tbl[e].startsAt /\ d < e

FeedOrder(tbl, S) == {p \in S \X S : Precedes(tbl, p[1], p[2])}

InOrder(tbl, q, t) ==
  Sorted(Listing(tbl, q, t), FeedOrder(tbl, Listing(tbl, q, t)))

(* findMany's page: skip and take *)
Page(tbl, q, t) ==
  LET list == InOrder(tbl, q, t)
      last == Skip(q) + q.limit
  IN  SubSeq(list, Skip(q) + 1, IF last < Len(list) THEN last ELSE Len(list))

(* Mutant of TotalPages: rounded down. *)
TotalPagesFloor(n, limit) == n \div limit

(* buildPaginatedResponse *)
TotalPages(n, limit) == IF n = 0 THEN 0 ELSE (n + limit - 1) \div limit

-----------------------------------------------------------------------------
Init ==
  /\ table \in [Events -> Rows \cup {Absent}]
  /\ now = 0 /\ writes = 0
  /\ query \in Queries /\ opened = query.page
  /\ phase = "ask"
  /\ data = <<>> /\ total = 0
  /\ seen = [e \in Events |-> 0]
  /\ steady = Listing(table, query, now)
  /\ came = {} /\ left = {}

(* The validation pipe answers 400 before the handler runs. *)
Refuse ==
  /\ phase = "ask" /\ ~Valid(query)
  /\ phase' = "refused"
  /\ UNCHANGED <<table, now, writes, opened, query, data, total, seen, steady, came, left>>

ReadPage ==
  /\ phase = "ask" /\ Valid(query)
  /\ data' = Page(table, query, now)
  /\ phase' = "count"
  /\ UNCHANGED <<table, now, writes, opened, query, total, seen, steady, came, left>>

(* The count, with the clock reading the page was filtered by still in the *)
(* filter, and the answer.                                                 *)
ReadCount ==
  /\ phase = "count"
  /\ total' = Cardinality(Listing(table, query, now))
  /\ seen' = [e \in Events |-> seen[e] + Cardinality({i \in DOMAIN data : data[i] = e})]
  /\ phase' = "shown"
  /\ UNCHANGED <<table, now, writes, opened, query, data, steady, came, left>>

(* Pagination: the Next button, dead on the last page. *)
NextPage ==
  /\ phase = "shown"
  /\ \/ /\ query.page < TotalPages(total, query.limit)
        /\ query' = [query EXCEPT !.page = @ + 1]
        /\ phase' = "ask"
     \/ /\ query.page >= TotalPages(total, query.limit)
        /\ phase' = "end"
        /\ UNCHANGED query
  /\ UNCHANGED <<table, now, writes, opened, data, total, seen, steady, came, left>>

(* What a change of the table or the clock does to the listing. *)
Track ==
  LET before == Listing(table, query, now)
      after == Listing(table', query, now')
      same == {e \in before \cap after : table[e].startsAt = table'[e].startsAt}
  IN  /\ steady' = steady \cap same
      /\ left' = left \cup (before \ same)
      /\ came' = came \cup (after \ same)

(* An organiser creates, edits or deletes an event. *)
WriteEvent ==
  /\ writes < MaxWrites
  /\ phase \in {"ask", "count", "shown"}
  /\ writes' = writes + 1
  /\ \E e \in Events, new \in Rows \cup {Absent} :
       new # table[e] /\ table' = [table EXCEPT ![e] = new]
  /\ UNCHANGED <<now, walk>>
  /\ Track

(* Between two pages; within one request the filter keeps its time. *)
Tick ==
  /\ now < MaxTime
  /\ phase \in {"ask", "shown"}
  /\ now' = now + 1
  /\ UNCHANGED <<table, writes, walk>>
  /\ Track

Next == Refuse \/ ReadPage \/ ReadCount \/ NextPage \/ WriteEvent \/ Tick

Spec == Init /\ [][Next]_vars

-----------------------------------------------------------------------------
(* A reader who walks from the first page to the last sees every event     *)
(* that kept its place in the listing, ties in the start time included,    *)
(* unless some other event left it or moved meanwhile (findMany's id as    *)
(* the tie-breaker).                                                       *)
NothingMissed ==
  phase = "end" /\ opened = 1 /\ left = {}
    => \A e \in steady : seen[e] >= 1

(* Nor does the reader see an event twice unless another one came in or    *)
(* moved meanwhile.                                                        *)
NothingTwice ==
  came = {} => \A e \in Events : seen[e] <= 1

(* Both: the walk shows what is there, once. *)
WalkIsExact == NothingMissed /\ NothingTwice

(* An event in progress is still in the feed of upcoming events: the one a *)
(* reader of all pages misses has ended (buildListFilter's comment).       *)
InProgressListed ==
  phase = "end" /\ opened = 1 /\ left = {} /\ came = {} /\ query.status = Unset
    /\ query.creator = Unset /\ query.word = Unset
    => \A e \in Events :
         table[e] # Absent /\ table[e].status = "PUBLISHED" /\ table[e].endsAt >= now
           => seen[e] = 1

(* "A DRAFT event is only visible to its organiser, so requesting DRAFT    *)
(* also restricts results to events you created"                           *)
(* (list-events-query.dto.ts).                                             *)
DraftsPrivate ==
  phase = "count" =>
    \A i \in DOMAIN data :
      writes = 0 /\ table[data[i]].status = "DRAFT" => table[data[i]].owner = query.viewer

(* "anything else is left alone so @IsOptional/@IsEnum reports it rather   *)
(* than being silently coerced" (list-events-query.dto.ts).                *)
JunkReported == query.upcoming = "junk" => phase \in {"ask", "refused"}
=============================================================================
