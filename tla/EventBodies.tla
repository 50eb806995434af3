---------------------------- MODULE EventBodies -----------------------------
(***************************************************************************)
(* The bodies of POST and PATCH /events: what the validation pipe lets     *)
(* through, what the service checks against the stored row, and what       *)
(* reaches the row, while several PATCHes of one event and the RSVPs that  *)
(* move its counter run side by side.                                      *)
(***************************************************************************)
EXTENDS Integers, FiniteSets

CONSTANTS
  Requests,
  Bodies,            \* the bodies the requests may carry
  Top                \* capacities are 1..Top; instants naturals, 0 the epoch

(* Values of a body that are not instants or numbers.                      *)
LeftOut == 0 - 1
Null == 0 - 2
Week == 0 - 3        \* an ISO 8601 week date, which Date.parse cannot read
Junk == 0 - 4        \* of the wrong type or shape
NotADate == 0 - 5    \* the time value of an Invalid Date

(* What the constants must satisfy; an instance assumes it. *)
BodiesAreBodies ==
  /\ Top \in Nat
  /\ \A b \in Bodies :
       /\ b.create \in BOOLEAN
       /\ \A v \in {b.startsAt, b.endsAt, b.capacity, b.text, b.timezone} :
            v \in {LeftOut, Null, Week, Junk} \cup Nat

VARIABLES
  row,        \* the stored event; text stands for every other column that is not null
  there,      \* whether it exists
  confirmedCount,
  pc, body, owned,      \* of the requests; owned: the row findOwnedOrThrow read
  answer,
  before, after         \* history: the row a request's write found and left

vars == <<row, there, confirmedCount, pc, body, owned, answer, before, after>>

(* The event at the start; a capacity or timezone of 0 is null. *)
TheRow == [startsAt |-> 2, endsAt |-> 3, capacity |-> 2, text |-> 1, timezone |-> 0]

Given(v) == v \notin {LeftOut, Null}
ParsedDate(v) == IF v = Null THEN 0 ELSE IF v = Week THEN NotADate ELSE v
Readable(v) == v >= 0

-----------------------------------------------------------------------------
(* @IsOptional switches the other validators of a property off.            *)
(* IsISO8601, strict: any ISO date.  IsAfterProperty compares two dates    *)
(* only when both are strings that can be read.                            *)
IsISO8601(v) == Readable(v) \/ v = Week
IsAfterProperty(b) == Readable(b.startsAt) /\ Readable(b.endsAt) => b.endsAt > b.startsAt
IsIanaTimeZone(v) == v = 1
Optional(v, ok) == Given(v) => ok

ValidCreate(b) ==
  /\ IsISO8601(b.startsAt)
  /\ IsISO8601(b.endsAt) /\ IsAfterProperty(b)
  /\ Readable(b.text)
  /\ Optional(b.capacity, b.capacity \in 1..Top)
  /\ Optional(b.timezone, IsIanaTimeZone(b.timezone))

ValidUpdate(b) ==
  /\ Optional(b.startsAt, IsISO8601(b.startsAt))
  /\ Optional(b.endsAt, IsISO8601(b.endsAt) /\ IsAfterProperty(b))
  /\ Optional(b.text, Readable(b.text))
  /\ Optional(b.capacity, b.capacity \in 1..Top)
  /\ Optional(b.timezone, IsIanaTimeZone(b.timezone))

Valid(b) == IF b.create THEN ValidCreate(b) ELSE ValidUpdate(b)

(* What the client library refuses to send: an Invalid Date, and null for  *)
(* a column that cannot be null.                                           *)
Sendable(b) == Week \notin {b.startsAt, b.endsAt} /\ b.text # Null

(* The CHECKs of the events table. *)
Satisfies(r) == r.endsAt > r.startsAt /\ (r.capacity = 0 \/ confirmedCount <= r.capacity)

Init ==
  /\ row = TheRow /\ there = TRUE /\ confirmedCount = 1
  /\ pc = [q \in Requests |-> "new"]
  /\ body \in [Requests -> Bodies]
  /\ \A p, q \in Requests : body[p].create /\ body[q].create => p = q
  /\ owned = [q \in Requests |-> TheRow]
  /\ answer = [q \in Requests |-> "none"]
  /\ before = [q \in Requests |-> TheRow] /\ after = before

Goes(q, to) == pc' = [pc EXCEPT ![q] = to]
Ends(q, code) == Goes(q, "done") /\ answer' = [answer EXCEPT ![q] = code]
NothingWritten == UNCHANGED <<row, there, confirmedCount, before, after>>

(* The validation pipe. *)
Validate(q) ==
  /\ pc[q] = "new"
  /\ \/ ~Valid(body[q]) /\ Ends(q, "VALIDATION_FAILED")
     \/ Valid(body[q]) /\ Goes(q, IF body[q].create THEN "insert" ELSE "own") /\ UNCHANGED answer
  /\ UNCHANGED <<body, owned>> /\ NothingWritten

(* create: a new row, of its own; the columns it does not name have        *)
(* defaults.  Only what could go wrong with it is kept.                    *)
Created(b) == [startsAt |-> ParsedDate(b.startsAt), endsAt |-> ParsedDate(b.endsAt),
               capacity |-> IF Given(b.capacity) THEN b.capacity ELSE 0,
               text |-> b.text, timezone |-> IF Given(b.timezone) THEN b.timezone ELSE 0]

CreateAnswer(b) ==
  IF ~Sendable(b) THEN "INTERNAL_ERROR"
  ELSE IF Created(b).endsAt <= Created(b).startsAt THEN "CHECK" ELSE "OK"

Create(q) ==
  /\ pc[q] = "insert"
  /\ Ends(q, CreateAnswer(body[q]))
  /\ UNCHANGED <<body, owned>> /\ NothingWritten

(* findOwnedOrThrow, before the transaction. *)
FindOwned(q) ==
  /\ pc[q] = "own"
  /\ \/ there /\ owned' = [owned EXCEPT ![q] = row] /\ Goes(q, "update") /\ UNCHANGED answer
     \/ ~there /\ Ends(q, "EVENT_NOT_FOUND") /\ UNCHANGED owned
  /\ UNCHANGED body /\ NothingWritten

(* Mutant of Current: the row that was read before the lock. *)
FirstRead(q) == owned[q]

(* lockEventRow: the row as it is under the lock. *)
Current(q) == row

(* assertCoherentTimeRange; an Invalid Date compares as false. *)
Moved(v, stored) == IF v = LeftOut THEN stored ELSE ParsedDate(v)
Coherent(b, current) ==
  LET from == Moved(b.startsAt, current.startsAt)
      to == Moved(b.endsAt, current.endsAt)
  IN  NotADate \notin {from, to} => to > from

(* update's data: undefined leaves a column alone. *)
Merged(q) ==
  LET b == body[q]
      Kept(v, stored) == IF v = LeftOut THEN stored ELSE IF v = Null THEN 0 ELSE v
  IN  [startsAt |-> Moved(b.startsAt, row.startsAt), endsAt |-> Moved(b.endsAt, row.endsAt),
       capacity |-> Kept(b.capacity, row.capacity),
       text |-> Kept(b.text, row.text), timezone |-> Kept(b.timezone, row.timezone)]

(* The transaction, one step: every writer of the row holds its lock. *)
Refusal(q) ==
  LET b == body[q] IN
  IF ~there THEN "EVENT_NOT_FOUND"
  ELSE IF Given(b.capacity) /\ b.capacity < confirmedCount THEN "CAPACITY_BELOW_CONFIRMED_COUNT"
  ELSE IF ~Coherent(b, Current(q)) THEN "VALIDATION_FAILED"
  ELSE IF ~Sendable(b) THEN "INTERNAL_ERROR"
  ELSE IF ~Satisfies(Merged(q)) THEN "CHECK" ELSE "OK"

Update(q) ==
  /\ pc[q] = "update"
  /\ Ends(q, Refusal(q))
  /\ \/ /\ Refusal(q) = "OK"
        /\ row' = Merged(q)
        /\ before' = [before EXCEPT ![q] = row] /\ after' = [after EXCEPT ![q] = row']
     \/ Refusal(q) # "OK" /\ UNCHANGED <<row, before, after>>
  /\ UNCHANGED <<there, confirmedCount, body, owned>>

(* The RSVPs' transactions move the counter; remove deletes the row. *)
Rsvped ==
  /\ there
  /\ \/ /\ row.capacity = 0 \/ confirmedCount < row.capacity
        /\ confirmedCount < Top /\ confirmedCount' = confirmedCount + 1
     \/ confirmedCount > 0 /\ confirmedCount' = confirmedCount - 1
  /\ UNCHANGED <<row, there, pc, body, owned, answer, before, after>>

Remove ==
  /\ there /\ there' = FALSE
  /\ UNCHANGED <<row, confirmedCount, pc, body, owned, answer, before, after>>

Next ==
  \/ \E q \in Requests : Validate(q) \/ Create(q) \/ FindOwned(q) \/ Update(q)
  \/ Rsvped \/ Remove

Spec == Init /\ [][Next]_vars

-----------------------------------------------------------------------------
(* "The database CHECK constraint is the backstop for both paths"          *)
(* (is-after.validator.ts): it is never what refuses a body, although two  *)
(* PATCHes may each move one bound of the range, or lower the capacity     *)
(* while places are taken; the service answers before the table has to.    *)
BackstopUnused == \A q \in Requests : answer[q] # "CHECK"

(* A PATCH writes what it names: a column its body leaves out keeps the    *)
(* value another PATCH has given it in the meantime (update).              *)
PatchIsPartial ==
  \A q \in Requests :
    answer[q] = "OK" /\ ~body[q].create =>
      /\ body[q].startsAt = LeftOut => after[q].startsAt = before[q].startsAt
      /\ body[q].endsAt = LeftOut => after[q].endsAt = before[q].endsAt
      /\ body[q].capacity = LeftOut => after[q].capacity = before[q].capacity
      /\ body[q].text = LeftOut => after[q].text = before[q].text
      /\ body[q].timezone = LeftOut => after[q].timezone = before[q].timezone

(* Both: concurrent PATCHes compose, in what they write and in what they   *)
(* leave.                                                                  *)
PatchesCompose == BackstopUnused /\ PatchIsPartial

(* "Reject unknown properties and invalid values at the API boundary"      *)
(* (SECURITY.md): a null startsAt is no date, so no event is moved by one. *)
NullMovesNothing ==
  \A q \in Requests : body[q].startsAt = Null => answer[q] # "OK"

(* "Status codes at or above this are our fault" (all-exceptions.filter):  *)
(* no body makes the API answer with one.                                  *)
ClientsFaultIsTheirs == \A q \in Requests : answer[q] # "INTERNAL_ERROR"
=============================================================================
