---------------------------- MODULE RsvpService ----------------------------
(***************************************************************************)
(* The write path of the events API: RSVP creation, RSVP cancellation with *)
(* waitlist promotion, and the organiser's PATCH and DELETE, each as the   *)
(* sequence of database statements the code issues, run by any number of   *)
(* requests at once against one PostgreSQL database.                       *)
(*                                                                         *)
(* The database is three tables (event, rsvp, idem), read with READ        *)
(* COMMITTED visibility, and one row lock per event.  A transaction keeps  *)
(* its writes in work[r] until it commits.  A row's CHECK constraints are  *)
(* stated by ConstraintsHold and are not enforced by the model: that the   *)
(* code never needs them is a property.                                    *)
(***************************************************************************)
EXTENDS Integers, FiniteSets

CONSTANTS
  Events,       \* event ids
  Users,        \* account ids, numbered in the order of their RSVP rows' ids
  Keys,         \* values of the Idempotency-Key header
  Requests,     \* HTTP requests; each is made at most once
  Instances,    \* API processes
  Skew,         \* Skew[i]: how far the clock of instance i runs ahead
  Capacities,   \* capacities an organiser may choose
  Times,        \* bounds an organiser may give an event
  Owner,        \* Owner[e]: createdById
  NewEvents,    \* event rows as create() may have stored them
  Calls,        \* the calls clients make
  MaxAttempts,  \* MAX_ATTEMPTS of the transaction runner
  MaxTime,      \* bound on the clock
  MaxFaults,    \* bound on failures of the database, the network or a process
  Unlimited, Gone, NotQueued, NoKey, NoRecord, Same, Free, Keep, Nothing

EventStatus == {"DRAFT", "PUBLISHED", "CANCELLED", "COMPLETED"}
RsvpStatus == {"CONFIRMED", "WAITLISTED", "CANCELLED"}

EventRow ==
  [status : EventStatus, capacity : Capacities \cup {Unlimited},
   waitlistEnabled : BOOLEAN, startsAt : Times, endsAt : Times,
   confirmedCount : Int]

(* A (event, user) pair that has no row yet has the status "NONE". *)
RsvpRow == [status : RsvpStatus \cup {"NONE"}, queuedAt : Nat \cup {NotQueued}]

NoRow == [status |-> "NONE", queuedAt |-> NotQueued]

(* The fields of a PATCH body; Keep stands for an absent one. *)
Patch ==
  [status : EventStatus \cup {Keep},
   capacity : Capacities \cup {Unlimited, Keep},
   waitlistEnabled : BOOLEAN \cup {Keep},
   startsAt : Times \cup {Keep}, endsAt : Times \cup {Keep}]

NoPatch == [status |-> Keep, capacity |-> Keep, waitlistEnabled |-> Keep,
            startsAt |-> Keep, endsAt |-> Keep]

(* A call: which endpoint, by whom, on which event, served by which        *)
(* instance.  NoKey: no usable Idempotency-Key header was sent.            *)
Call ==
  [op : {"join", "leave", "update", "delete"}, user : Users, event : Events,
   key : Keys \cup {NoKey}, inst : Instances, patch : Patch]

(* The part of RsvpResponseDto that depends on the decision. *)
Body ==
  [status : {"CONFIRMED", "WAITLISTED"}, confirmedCount : Int,
   capacity : Capacities \cup {Unlimited}, waitlistPosition : Nat]

Stored == [event : Events, body : Body]

ErrorCode ==
  {"EVENT_NOT_FOUND", "EVENT_NOT_OPEN_FOR_RSVP", "RSVP_ALREADY_EXISTS",
   "EVENT_AT_CAPACITY", "RSVP_NOT_FOUND", "NOT_EVENT_OWNER",
   "CAPACITY_BELOW_CONFIRMED_COUNT", "VALIDATION_FAILED",
   "IDEMPOTENCY_KEY_REUSED", "SERVICE_BUSY", "INTERNAL_ERROR"}

(* "OK" is the 2xx answer; "LOST" is a connection that broke with no       *)
(* answer because the process serving it died.                             *)
Answer == [code : ErrorCode \cup {"OK", "LOST"}, body : Body \cup {Nothing}]

Error(code) == [code |-> code, body |-> Nothing]

Work == [rows : [Users -> RsvpRow \cup {Same}], delta : {-1, 0, 1},
         body : Body \cup {Nothing}]

NoWork == [rows |-> [u \in Users |-> Same], delta |-> 0, body |-> Nothing]

ASSUME Sentinels ==
  /\ Unlimited \notin Int
  /\ NotQueued \notin Nat
  /\ Gone \notin EventRow
  /\ NoKey \notin Keys
  /\ NoRecord \notin Stored
  /\ Same \notin RsvpRow
  /\ Free \notin Requests
  /\ Nothing \notin Body /\ Nothing \notin Call
  /\ Keep \notin EventStatus /\ Keep \notin BOOLEAN
  /\ Keep \notin Nat /\ Keep # Unlimited

ASSUME Parameters ==
  /\ Users \subseteq Nat /\ IsFiniteSet(Users)
  /\ Capacities \subseteq Nat \ {0}
  /\ Times \subseteq Nat
  /\ Skew \in [Instances -> Nat]
  /\ Owner \in [Events -> Users]
  /\ \A ev \in NewEvents : /\ ev \in EventRow
                            /\ ev.status \in {"DRAFT", "PUBLISHED"}
                            /\ ev.endsAt > ev.startsAt
                            /\ ev.confirmedCount = 0
  /\ Calls \subseteq Call
  /\ \A c \in Calls : c.op # "update" => c.patch = NoPatch
  /\ MaxAttempts \in Nat \ {0} /\ MaxTime \in Nat

VARIABLES
  event,    \* table events
  rsvp,     \* table rsvps, by event and user
  idem,     \* table idempotency_records, by user and key (one scope is used)
  lock,     \* row lock of each event: the request whose transaction holds it
  now,      \* real time
  faults,   \* failures so far
  call,     \* what each request asked for
  pc,       \* the statement each request is at
  attempt,  \* attempt of runRsvpTransaction
  seen,     \* the event row lockEventRow returned
  work,     \* uncommitted writes and the response they will be answered with
  answer    \* the answer given, or the error that is about to be thrown

tables == <<event, rsvp, idem>>
vars == <<event, rsvp, idem, lock, now, faults, call, pc, attempt, seen, work,
          answer>>

InTransaction == {"work", "record", "commit"}

-----------------------------------------------------------------------------
(* Reading the tables. *)

Active(row) == row.status \in {"CONFIRMED", "WAITLISTED"}
UsersWith(rows, status) == {u \in Users : rows[u].status = status}
Confirmed(e) == UsersWith(rsvp[e], "CONFIRMED")
Waiting(e) == UsersWith(rsvp[e], "WAITLISTED")

(* QUEUE_ORDER: queuedAt, then the row id. *)
AheadOf(rows, u, v) ==
  \/ rows[u].queuedAt < rows[v].queuedAt
  \/ rows[u].queuedAt = rows[v].queuedAt /\ u < v

(* waitlistPositionOf: 1-based, 0 for "not on the waitlist". *)
WaitlistPosition(rows, u) ==
  IF rows[u].status = "WAITLISTED"
  THEN 1 + Cardinality({v \in UsersWith(rows, "WAITLISTED") : AheadOf(rows, v, u)})
  ELSE 0

(* Mutant of NextWaitlisted: ordered by row id alone. *)
NextWaitlistedById(rows) ==
  CHOOSE u \in UsersWith(rows, "WAITLISTED") :
    \A v \in UsersWith(rows, "WAITLISTED") : u <= v

(* The first user in QUEUE_ORDER; asked for only when somebody waits. *)
NextWaitlisted(rows) ==
  CHOOSE u \in UsersWith(rows, "WAITLISTED") :
    \A v \in UsersWith(rows, "WAITLISTED") \ {u} : AheadOf(rows, u, v)

(* Mutant of HasRoom: off by one. *)
HasRoomOffByOne(ev) == ev.capacity = Unlimited \/ ev.confirmedCount <= ev.capacity

HasRoom(ev) == ev.capacity = Unlimited \/ ev.confirmedCount < ev.capacity

(* The clock an API process reads. *)
Clock(i) == now + Skew[i]

(* A PATCH sets the fields it carries and leaves the others. *)
Patched(ev, p) ==
  [status |-> IF p.status = Keep THEN ev.status ELSE p.status,
   capacity |-> IF p.capacity = Keep THEN ev.capacity ELSE p.capacity,
   waitlistEnabled |-> IF p.waitlistEnabled = Keep THEN ev.waitlistEnabled
                       ELSE p.waitlistEnabled,
   startsAt |-> IF p.startsAt = Keep THEN ev.startsAt ELSE p.startsAt,
   endsAt |-> IF p.endsAt = Keep THEN ev.endsAt ELSE p.endsAt,
   confirmedCount |-> ev.confirmedCount]

(* Mutant of CoherentTimes: compares only bounds sent in one body. *)
CoherentTimesOfBody(ev, p) ==
  p.startsAt # Keep /\ p.endsAt # Keep => p.endsAt > p.startsAt

(* assertCoherentTimeRange: the bounds the event would have. *)
CoherentTimes(ev, p) == Patched(ev, p).endsAt > Patched(ev, p).startsAt

(* The rows of an event once a transaction's writes are applied. *)
Overlay(rows, writes) ==
  [u \in Users |-> IF writes[u] = Same THEN rows[u] ELSE writes[u]]

(* The event row and the RSVP rows that request r's commit would leave.    *)
(* The counter is incremented in SQL, so it starts from the committed row. *)
RowsAfter(r) == Overlay(rsvp[call[r].event], work[r].rows)
EventAfter(r) ==
  [Patched(event[call[r].event], call[r].patch) EXCEPT
     !.confirmedCount = @ + work[r].delta]

(* The CHECK constraints of the migration on one event and its RSVPs. *)
ConstraintsHold(ev, rows) ==
  /\ ev.endsAt > ev.startsAt
  /\ ev.confirmedCount >= 0
  /\ ev.capacity # Unlimited => /\ ev.capacity > 0
                                /\ ev.confirmedCount <= ev.capacity
  /\ \A u \in Users : rows[u].queuedAt # NotQueued <=> rows[u].status = "WAITLISTED"

-----------------------------------------------------------------------------
(* Events exist when the model starts, as create() stores them. *)
Init ==
  /\ event \in [Events -> NewEvents]
  /\ rsvp = [e \in Events |-> [u \in Users |-> NoRow]]
  /\ idem = [u \in Users |-> [k \in Keys |-> NoRecord]]
  /\ lock = [e \in Events |-> Free]
  /\ now = 0
  /\ faults = 0
  /\ call = [r \in Requests |-> Nothing]
  /\ pc = [r \in Requests |-> "idle"]
  /\ attempt = [r \in Requests |-> 1]
  /\ seen = [r \in Requests |-> Gone]
  /\ work = [r \in Requests |-> NoWork]
  /\ answer = [r \in Requests |-> Nothing]

-----------------------------------------------------------------------------
(* Building blocks of the request steps. *)

Keyed(c) == c.op = "join" /\ c.key # NoKey
StoredOutcome(c) == idem[c.user][c.key]

(* Ending a transaction releases its row lock and drops its writes. *)
EndTransaction(r) ==
  /\ lock' = [e \in Events |-> IF lock[e] = r THEN Free ELSE lock[e]]
  /\ seen' = [seen EXCEPT ![r] = Gone]
  /\ work' = [work EXCEPT ![r] = NoWork]

NoTransaction == UNCHANGED <<lock, seen, work>>

Reply(r, a) ==
  /\ answer' = [answer EXCEPT ![r] = a]
  /\ pc' = [pc EXCEPT ![r] = "done"]

(* Mutant of Throw: createRsvp does not catch. *)
ThrowAtOnce(r, code) == Reply(r, Error(code))

(* An error leaves performRsvp.  createRsvp catches it when there is an     *)
(* idempotency context; every other operation answers it.                  *)
Throw(r, code) ==
  /\ answer' = [answer EXCEPT ![r] = Error(code)]
  /\ pc' = [pc EXCEPT ![r] = IF Keyed(call[r]) THEN "lookAgain" ELSE "done"]

(* Rolled back by a rule of the service: never retried. *)
Reject(r, code) ==
  /\ EndTransaction(r)
  /\ Throw(r, code)
  /\ UNCHANGED <<tables, now, faults, call, attempt>>

(* Mutant of RetryOrThrow: one attempt too many. *)
RetryOnceMore(r) ==
  IF attempt[r] <= MaxAttempts
  THEN /\ attempt' = [attempt EXCEPT ![r] = @ + 1]
       /\ pc' = [pc EXCEPT ![r] = "lock"]
       /\ UNCHANGED answer
  ELSE Throw(r, "SERVICE_BUSY") /\ UNCHANGED attempt

(* The catch block of runRsvpTransaction.  organiser calls use a plain      *)
(* $transaction, which has none.                                           *)
RetryOrThrow(r) ==
  \/ /\ call[r].op \in {"join", "leave"}
     /\ attempt[r] < MaxAttempts
     /\ attempt' = [attempt EXCEPT ![r] = @ + 1]
     /\ pc' = [pc EXCEPT ![r] = "lock"]
     /\ UNCHANGED answer
  \/ /\ call[r].op \in {"join", "leave"}
     /\ attempt[r] = MaxAttempts
     /\ Throw(r, "SERVICE_BUSY")
     /\ UNCHANGED attempt
  \/ /\ Throw(r, "INTERNAL_ERROR")    \* an error isRetryable does not list
     /\ UNCHANGED attempt

(* What a failure of the environment costs. *)
Fault ==
  /\ faults < MaxFaults
  /\ faults' = faults + 1

-----------------------------------------------------------------------------
(* The requests. *)

(* A client sends a call and an instance starts serving it. *)
Arrive(r) ==
  /\ pc[r] = "idle"
  /\ \E c \in Calls :
       /\ call' = [call EXCEPT ![r] = c]
       /\ pc' = [pc EXCEPT ![r] = IF Keyed(c) THEN "lookup"
                                  ELSE IF c.op \in {"join", "leave"} THEN "lock"
                                  ELSE "owned"]
  /\ NoTransaction
  /\ UNCHANGED <<tables, now, faults, attempt, answer>>

(* findStoredOutcome before the transaction. *)
Lookup(r) ==
  LET found == StoredOutcome(call[r])
  IN  /\ pc[r] = "lookup"
      /\ \/ /\ found = NoRecord
            /\ pc' = [pc EXCEPT ![r] = "lock"]
            /\ UNCHANGED answer
         \/ /\ found # NoRecord
            /\ found.event # call[r].event
            /\ Reply(r, Error("IDEMPOTENCY_KEY_REUSED"))
         \/ /\ found # NoRecord
            /\ found.event = call[r].event
            /\ Reply(r, [code |-> "OK", body |-> found.body])
      /\ NoTransaction
      /\ UNCHANGED <<tables, now, faults, call, attempt>>

(* findStoredOutcome after a failed attempt; the pending error is answered *)
(* only when there is still no record.                                     *)
LookAgain(r) ==
  LET found == StoredOutcome(call[r])
  IN  /\ pc[r] = "lookAgain"
      /\ \/ /\ found = NoRecord
            /\ Reply(r, answer[r])
         \/ /\ found # NoRecord
            /\ found.event # call[r].event
            /\ Reply(r, Error("IDEMPOTENCY_KEY_REUSED"))
         \/ /\ found # NoRecord
            /\ found.event = call[r].event
            /\ Reply(r, [code |-> "OK", body |-> found.body])
      /\ NoTransaction
      /\ UNCHANGED <<tables, now, faults, call, attempt>>

(* findOwnedOrThrow, a read of its own before the organiser's statement. *)
CheckOwner(r) ==
  LET e == call[r].event
  IN  /\ pc[r] = "owned"
      /\ \/ /\ event[e] = Gone
            /\ Reply(r, Error("EVENT_NOT_FOUND"))
         \/ /\ event[e] # Gone
            /\ Owner[e] # call[r].user
            /\ Reply(r, Error("NOT_EVENT_OWNER"))
         \/ /\ event[e] # Gone
            /\ Owner[e] = call[r].user
            /\ pc' = [pc EXCEPT ![r] = "lock"]
            /\ UNCHANGED answer
      /\ NoTransaction
      /\ UNCHANGED <<tables, now, faults, call, attempt>>

(* Mutant of LockEvent: the event is read without FOR UPDATE. *)
LockEventUnlocked(r) ==
  LET e == call[r].event
  IN  /\ pc[r] = "lock"
      /\ call[r].op # "delete"
      /\ event[e] # Gone
      /\ seen' = [seen EXCEPT ![r] = event[e]]
      /\ pc' = [pc EXCEPT ![r] = "work"]
      /\ UNCHANGED <<tables, lock, now, faults, call, attempt, work, answer>>

(* lockEventRow: SELECT ... FOR UPDATE waits for the row lock, then the     *)
(* row is read again through the typed client.                             *)
LockEvent(r) ==
  LET e == call[r].event
  IN  /\ pc[r] = "lock"
      /\ call[r].op # "delete"
      /\ lock[e] = Free
      /\ \/ /\ event[e] = Gone
            /\ Reject(r, "EVENT_NOT_FOUND")
         \/ /\ event[e] # Gone
            /\ lock' = [lock EXCEPT ![e] = r]
            /\ seen' = [seen EXCEPT ![r] = event[e]]
            /\ pc' = [pc EXCEPT ![r] = "work"]
            /\ UNCHANGED <<tables, now, faults, call, attempt, work, answer>>

(* The writes of the transaction are issued; what is left is the           *)
(* idempotency record, where there is a key, and the commit.               *)
Write(r, w) ==
  /\ work' = [work EXCEPT ![r] = w]
  /\ pc' = [pc EXCEPT ![r] = IF Keyed(call[r]) THEN "record" ELSE "commit"]
  /\ UNCHANGED <<tables, lock, now, faults, call, attempt, seen, answer>>

(* Mutant of JoinRefusal: only drafts are closed. *)
JoinRefusalOfDrafts(ev, row, t) ==
  IF ev.status = "DRAFT" THEN "EVENT_NOT_FOUND"
  ELSE IF Active(row) THEN "RSVP_ALREADY_EXISTS"
  ELSE "OK"

(* Why performRsvp refuses a caller with this row at time t, in the order  *)
(* of its checks; "OK" when it does not.                                   *)
JoinRefusal(ev, row, t) ==
  IF ev.status = "DRAFT" THEN "EVENT_NOT_FOUND"
  ELSE IF ev.status # "PUBLISHED" \/ ev.endsAt <= t
       THEN "EVENT_NOT_OPEN_FOR_RSVP"
  ELSE IF Active(row) THEN "RSVP_ALREADY_EXISTS"
  ELSE IF ~HasRoom(ev) /\ ~ev.waitlistEnabled THEN "EVENT_AT_CAPACITY"
  ELSE "OK"

(* The row performRsvp creates or re-activates: a fresh place in the queue *)
(* whatever the row held before.                                           *)
JoinedRow(ev, t) ==
  IF HasRoom(ev) THEN [status |-> "CONFIRMED", queuedAt |-> NotQueued]
  ELSE [status |-> "WAITLISTED", queuedAt |-> t]

(* performRsvp from the event checks to the response. *)
DecideJoin(r) ==
  LET e == call[r].event
      u == call[r].user
      t == Clock(call[r].inst)
      row == JoinedRow(seen[r], t)
      rows == [NoWork.rows EXCEPT ![u] = row]
      delta == IF row.status = "CONFIRMED" THEN 1 ELSE 0
  IN  /\ pc[r] = "work"
      /\ call[r].op = "join"
      /\ LET refusal == JoinRefusal(seen[r], rsvp[e][u], t)
         IN  \/ refusal # "OK" /\ Reject(r, refusal)
             \/ /\ refusal = "OK"
                /\ Write(r, [rows |-> rows, delta |-> delta,
                             body |-> [status |-> row.status,
                                       confirmedCount |-> seen[r].confirmedCount + delta,
                                       capacity |-> seen[r].capacity,
                                       waitlistPosition |->
                                         WaitlistPosition(Overlay(rsvp[e], rows), u)]])

(* Mutant of Promote: the place is given up and handed to nobody. *)
PromoteNobody(ev, rows, writes) == [rows |-> writes, delta |-> -1, body |-> Nothing]

(* promoteNextWaitlisted: the writes of a transaction that has already     *)
(* given up one confirmed place, with the head of the queue moved into it. *)
Promote(ev, rows, writes) ==
  LET left == Overlay(rows, writes)
  IN  IF ev.capacity = Unlimited \/ UsersWith(left, "WAITLISTED") = {}
      THEN [rows |-> writes, delta |-> -1, body |-> Nothing]
      ELSE [rows |-> [writes EXCEPT ![NextWaitlisted(left)] =
                        [status |-> "CONFIRMED", queuedAt |-> NotQueued]],
            delta |-> 0, body |-> Nothing]

(* The work of cancelRsvp.  Neither the status of the event nor its end is *)
(* looked at.                                                              *)
DecideLeave(r) ==
  LET e == call[r].event
      u == call[r].user
      row == rsvp[e][u]
      rows == [NoWork.rows EXCEPT ![u] = [status |-> "CANCELLED", queuedAt |-> NotQueued]]
  IN  /\ pc[r] = "work"
      /\ call[r].op = "leave"
      /\ \/ ~Active(row) /\ Reject(r, "RSVP_NOT_FOUND")
         \/ /\ row.status = "WAITLISTED"
            /\ Write(r, [NoWork EXCEPT !.rows = rows])
         \/ /\ row.status = "CONFIRMED"
            /\ Write(r, Promote(seen[r], rsvp[e], rows))

(* The work of EventsService.update: the capacity rule, the time range,    *)
(* then one UPDATE of the fields the body carries.  Raising the capacity   *)
(* promotes nobody.                                                        *)
DecideUpdate(r) ==
  LET p == call[r].patch
      ev == seen[r]
      tooSmall == /\ p.capacity \notin {Keep, Unlimited}
                  /\ p.capacity < ev.confirmedCount
      incoherent == ~CoherentTimes(ev, p)
  IN  /\ pc[r] = "work"
      /\ call[r].op = "update"
      /\ \/ tooSmall /\ Reject(r, "CAPACITY_BELOW_CONFIRMED_COUNT")
         \/ ~tooSmall /\ incoherent /\ Reject(r, "VALIDATION_FAILED")
         \/ ~tooSmall /\ ~incoherent /\ Write(r, NoWork)

(* Some other transaction has inserted the same key and has not ended. *)
KeyBusy(r) ==
  \E q \in Requests \ {r} :
    /\ pc[q] = "commit"
    /\ Keyed(call[q])
    /\ call[q].user = call[r].user
    /\ call[q].key = call[r].key

(* Mutant of Record: an upsert instead of an insert. *)
RecordUpserted(r) ==
  /\ pc[r] = "record"
  /\ ~KeyBusy(r)
  /\ pc' = [pc EXCEPT ![r] = "commit"]
  /\ NoTransaction
  /\ UNCHANGED <<tables, now, faults, call, attempt, answer>>

(* Mutant of Record: a committed key is waited for instead of failing. *)
RecordWhenFree(r) ==
  /\ RecordUpserted(r)
  /\ StoredOutcome(call[r]) = NoRecord

(* IdempotencyService.record: the insert waits for a rival's uncommitted   *)
(* row and fails on a committed one, which rolls everything back.          *)
Record(r) ==
  /\ pc[r] = "record"
  /\ ~KeyBusy(r)
  /\ \/ /\ StoredOutcome(call[r]) = NoRecord
        /\ pc' = [pc EXCEPT ![r] = "commit"]
        /\ NoTransaction
        /\ UNCHANGED <<tables, now, faults, call, attempt, answer>>
     \/ /\ StoredOutcome(call[r]) # NoRecord
        /\ Reject(r, "INTERNAL_ERROR")

(* The writes of r become visible, all together. *)
Apply(r) ==
  LET c == call[r]
  IN  /\ event' = [event EXCEPT ![c.event] = EventAfter(r)]
      /\ rsvp' = [rsvp EXCEPT ![c.event] = RowsAfter(r)]
      /\ idem' = IF Keyed(c)
                 THEN [idem EXCEPT ![c.user][c.key] =
                         [event |-> c.event, body |-> work[r].body]]
                 ELSE idem

Commit(r) ==
  /\ pc[r] = "commit"
  /\ Apply(r)
  /\ EndTransaction(r)
  /\ Reply(r, [code |-> "OK", body |-> work[r].body])
  /\ UNCHANGED <<now, faults, call, attempt>>

(* EventsService.remove: one DELETE, which waits for the row lock and      *)
(* cascades to the RSVP rows but not to the idempotency records.           *)
Remove(r) ==
  LET e == call[r].event
  IN  /\ pc[r] = "lock"
      /\ call[r].op = "delete"
      /\ lock[e] = Free
      /\ \/ /\ event[e] = Gone
            /\ Reply(r, Error("INTERNAL_ERROR"))
            /\ UNCHANGED <<event, rsvp>>
         \/ /\ event[e] # Gone
            /\ event' = [event EXCEPT ![e] = Gone]
            /\ rsvp' = [rsvp EXCEPT ![e] = [u \in Users |-> NoRow]]
            /\ Reply(r, [code |-> "OK", body |-> Nothing])
      /\ NoTransaction
      /\ UNCHANGED <<idem, now, faults, call, attempt>>

-----------------------------------------------------------------------------
(* The environment. *)

(* Contention, a timeout or a lost connection rolls the transaction back,  *)
(* while it waits for the lock or later.                                   *)
TransactionFails(r) ==
  /\ pc[r] \in InTransaction \cup {"lock"}
  /\ Fault
  /\ EndTransaction(r)
  /\ RetryOrThrow(r)
  /\ UNCHANGED <<tables, now, call>>

(* The database commits and the API is not told: the error it sees is the  *)
(* same as if the transaction had failed.                                  *)
CommitUnacknowledged(r) ==
  /\ pc[r] = "commit"
  /\ Fault
  /\ Apply(r)
  /\ EndTransaction(r)
  /\ RetryOrThrow(r)
  /\ UNCHANGED <<now, call>>

(* A read outside a transaction fails. *)
ReadFails(r) ==
  /\ pc[r] \in {"lookup", "lookAgain", "owned"}
  /\ Fault
  /\ Reply(r, Error("INTERNAL_ERROR"))
  /\ NoTransaction
  /\ UNCHANGED <<tables, now, call, attempt>>

(* The process serving r dies; the database ends its transaction. *)
Die(r) ==
  /\ pc[r] \notin {"idle", "done"}
  /\ Fault
  /\ EndTransaction(r)
  /\ Reply(r, Error("LOST"))
  /\ UNCHANGED <<tables, now, call, attempt>>

Tick ==
  /\ now < MaxTime
  /\ now' = now + 1
  /\ UNCHANGED <<tables, lock, faults, call, pc, attempt, seen, work, answer>>

(* Every request has been answered. *)
Rest ==
  /\ \A r \in Requests : pc[r] = "done"
  /\ UNCHANGED vars

Step(r) ==
  \/ Lookup(r) \/ LookAgain(r) \/ CheckOwner(r) \/ LockEvent(r)
  \/ DecideJoin(r) \/ DecideLeave(r) \/ DecideUpdate(r)
  \/ Record(r) \/ Commit(r) \/ Remove(r)

Failure(r) ==
  \/ TransactionFails(r) \/ CommitUnacknowledged(r) \/ ReadFails(r) \/ Die(r)

Next ==
  \/ \E r \in Requests : Arrive(r) \/ Step(r) \/ Failure(r)
  \/ Tick
  \/ Rest

Spec == Init /\ [][Next]_vars

(* A request that is being served keeps running: Node resumes every        *)
(* pending await, and PostgreSQL grants a row lock in arrival order, so    *)
(* with finitely many requests nobody waits for ever.  Arrivals, the clock *)
(* and failures owe nothing.                                               *)
FairSpec == Spec /\ \A r \in Requests : WF_vars(Step(r))

-----------------------------------------------------------------------------
(* What the service promises. *)

TypeOK ==
  /\ event \in [Events -> EventRow \cup {Gone}]
  /\ rsvp \in [Events -> [Users -> RsvpRow]]
  /\ idem \in [Users -> [Keys -> Stored \cup {NoRecord}]]
  /\ lock \in [Events -> Requests \cup {Free}]
  /\ now \in Nat
  /\ faults \in Nat
  /\ call \in [Requests -> Calls \cup {Nothing}]
  /\ pc \in [Requests -> InTransaction \cup
                          {"idle", "lookup", "owned", "lock", "lookAgain", "done"}]
  /\ attempt \in [Requests -> 1..MaxAttempts]
  /\ seen \in [Requests -> EventRow \cup {Gone}]
  /\ work \in [Requests -> Work]
  /\ answer \in [Requests -> Answer \cup {Nothing}]

(* The row lock of an event is held exactly while a transaction works on    *)
(* the event, by that transaction alone: two never decide about the same   *)
(* event at once, and no lock outlives its transaction, whatever failed    *)
(* (event-lock.ts).                                                        *)
LockHeldByTransaction ==
  \A r \in Requests, e \in Events :
    lock[e] = r <=> pc[r] \in InTransaction /\ call[r].event = e

(* What lockEventRow returned stays true until the commit: the count that  *)
(* is compared with the capacity is the count that is incremented.         *)
SeenIsCurrent ==
  \A r \in Requests :
    pc[r] \in InTransaction => /\ seen[r] # Gone
                               /\ seen[r] = event[call[r].event]

(* The denormalised counter agrees with the RSVP rows in every committed   *)
(* state, through joins, promotions, retries and failures (ADR-007).       *)
CounterMatchesRows ==
  \A e \in Events :
    event[e] # Gone => event[e].confirmedCount = Cardinality(Confirmed(e))

(* No event ever has more CONFIRMED rows than places: counted on the rows, *)
(* which no CHECK constraint can see.                                      *)
CapacityNeverExceeded ==
  \A e \in Events :
    event[e] # Gone /\ event[e].capacity # Unlimited
      => Cardinality(Confirmed(e)) <= event[e].capacity

(* The CHECK constraints of the migration never refuse a write of the      *)
(* service: the decisions taken under the lock are already right.          *)
ConstraintsNeverNeeded ==
  \A r \in Requests :
    pc[r] \in {"record", "commit"} => ConstraintsHold(EventAfter(r), RowsAfter(r))

(* Every 201 answer a keyed request ever got is the recorded outcome of    *)
(* that key, so all answers under one key are equal.                       *)
KeyedAnswersAgree ==
  \A r \in Requests :
    pc[r] = "done" /\ Keyed(call[r]) /\ answer[r].code = "OK"
      => StoredOutcome(call[r]) = [event |-> call[r].event, body |-> answer[r].body]

(* A step by which request r's transaction takes effect. *)
TakesEffect(r) == pc[r] = "commit" /\ pc'[r] # "commit" /\ tables' # tables

(* A key buys at most one change of the RSVP tables, and the change and    *)
(* its record are one step: a duplicate that arrives late, even after a    *)
(* cancellation, changes nothing (idempotency.service.ts).                 *)
EffectOncePerKey ==
  [][\A r \in Requests :
       TakesEffect(r) /\ Keyed(call[r])
         => /\ StoredOutcome(call[r]) = NoRecord
            /\ StoredOutcome(call[r])' # NoRecord]_vars

(* A step that answers r with an error, and not because a read failed, the *)
(* process died or the key belongs to another request.                     *)
RefusedOnItsMerits(r) ==
  /\ pc[r] # "done" /\ pc'[r] = "done"
  /\ faults' = faults
  /\ answer'[r].code \in ErrorCode \ {"IDEMPOTENCY_KEY_REUSED"}

(* A keyed request is told of an error only when nothing is recorded under *)
(* its key: not RSVP_ALREADY_EXISTS for its own RSVP, not SERVICE_BUSY     *)
(* after a commit whose acknowledgement was lost (createRsvp's catch).     *)
ErrorMeansNoRecord ==
  [][\A r \in Requests :
       RefusedOnItsMerits(r) /\ Keyed(call[r]) => StoredOutcome(call[r]) = NoRecord]_vars

(* Somebody waits although there is a place. *)
IdlePlace(e) == event[e] # Gone /\ Waiting(e) # {} /\ HasRoom(event[e])

(* Only an organiser's PATCH brings that about; joining, leaving, retrying *)
(* and failing never do (cancelRsvp promotes in its own transaction).      *)
IdlePlaceOnlyByUpdate ==
  [][\A e \in Events :
       IdlePlace(e)' /\ ~IdlePlace(e)
         => \E r \in Requests : TakesEffect(r) /\ call[r].op = "update"]_vars

(* Nobody who keeps waiting sees somebody behind in the queue, or outside  *)
(* it, become confirmed; an organiser's idle place is the one exception.   *)
QueueOrderKept ==
  [][\A e \in Events :
       \A u \in Waiting(e) \cap Waiting(e)', v \in Confirmed(e)' \ Confirmed(e) :
         IF v \in Waiting(e) THEN AheadOf(rsvp[e], v, u) ELSE IdlePlace(e)]_vars

(* An RSVP becomes active only in a state where the event is published: an *)
(* organiser cancelling or withdrawing it cannot interleave with the       *)
(* decision (assertEventAcceptsRsvps).                                     *)
JoinOnlyWhilePublished ==
  [][\A e \in Events, u \in Users :
       Active(rsvp[e][u])' /\ ~Active(rsvp[e][u])
         => event[e].status = "PUBLISHED"]_vars

(* Every request that was accepted is answered, or its process dies: no    *)
(* wait for the event lock or for a rival's key lasts for ever.            *)
EveryCallAnswered ==
  \A r \in Requests : pc[r] # "idle" ~> pc[r] = "done"

-----------------------------------------------------------------------------
(* The service implements the book: the counter, the locks, the buffers    *)
(* and the retries disappear, and each commit is one step of RsvpBook.     *)

TermsOf(ev) ==
  [status |-> ev.status, capacity |-> ev.capacity,
   waitlistEnabled |-> ev.waitlistEnabled,
   startsAt |-> ev.startsAt, endsAt |-> ev.endsAt]

BookEntry(e) ==
  IF event[e] = Gone THEN Gone
  ELSE [terms |-> TermsOf(event[e]), confirmed |-> Confirmed(e),
        queue |-> [u \in Waiting(e) |-> rsvp[e][u].queuedAt]]

Pages == [e \in Events |-> BookEntry(e)]

(* The readings the clocks of the API may take. *)
ApiClocks == {n + Skew[i] : n \in 0..MaxTime, i \in Instances}

Book == INSTANCE RsvpBook WITH
  book <- Pages, NewEvents <- {TermsOf(ev) : ev \in NewEvents}, Clocks <- ApiClocks

(* An event that is gone is not taken for one that is in the book. *)
ASSUME GoneIsNoEntry == Gone \notin Book!Entries

(* Every behaviour of the service is one of the book's. *)
ImplementsBook == Book!Spec
=============================================================================
