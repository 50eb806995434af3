------------------------- MODULE RsvpServiceProofs -------------------------
(***************************************************************************)
(* Proofs about RsvpService, for every set of requests, users and events   *)
(* and every bound.                                                        *)
(***************************************************************************)
EXTENDS RsvpService, FiniteSetTheorems, TLAPS

-----------------------------------------------------------------------------
(* What the helpers return. *)

(* Any group of users that share a status is finite. *)
LEMMA UsersWithFinite ==
  ASSUME NEW rows, NEW status
  PROVE  /\ IsFiniteSet(UsersWith(rows, status))
         /\ Cardinality(UsersWith(rows, status)) \in Nat
<1>1. UsersWith(rows, status) \subseteq Users
  BY DEF UsersWith
<1>2. IsFiniteSet(UsersWith(rows, status))
  BY <1>1, FS_Subset, Parameters
<1>3. QED
  BY <1>2, FS_CardinalityType

(* A waitlist position is a natural number. *)
LEMMA PositionType ==
  ASSUME NEW rows, NEW u
  PROVE  WaitlistPosition(rows, u) \in Nat
<1> DEFINE ahead == {v \in UsersWith(rows, "WAITLISTED") : AheadOf(rows, v, u)}
<1>1. IsFiniteSet(ahead)
  BY UsersWithFinite, FS_Subset
<1>2. Cardinality(ahead) \in Nat
  BY <1>1, FS_CardinalityType
<1>3. QED
  BY <1>2 DEF WaitlistPosition

(* A PATCH leaves an event row an event row. *)
LEMMA PatchedType ==
  ASSUME NEW ev \in EventRow, NEW p \in Patch
  PROVE  Patched(ev, p) \in EventRow
BY DEF Patched, EventRow, Patch

(* Applying a transaction's rows to an event's rows keeps their type. *)
LEMMA OverlayType ==
  ASSUME NEW rows \in [Users -> RsvpRow],
         NEW writes \in [Users -> RsvpRow \cup {Same}]
  PROVE  Overlay(rows, writes) \in [Users -> RsvpRow]
BY DEF Overlay

-----------------------------------------------------------------------------
(* Types. *)

(* What the steps below need to know of the request r that takes one. *)
LEMMA CallType ==
  ASSUME TypeOK, NEW r \in Requests, call[r] # Nothing
  PROVE  /\ call[r] \in Call
         /\ call[r].event \in Events /\ call[r].user \in Users
         /\ call[r].patch \in Patch
         /\ call[r].inst \in Instances
         /\ Keyed(call[r]) => call[r].key \in Keys
BY Parameters DEF TypeOK, Call, Keyed

(* A request that has left "idle" has a call, and only keyed joins touch   *)
(* the idempotency records.                                                *)
CallMade ==
  \A r \in Requests :
    /\ pc[r] # "idle" => call[r] # Nothing
    /\ pc[r] \in {"lookup", "lookAgain", "record"} => Keyed(call[r])

(* Ending a transaction, throwing and replying keep the types. *)
LEMMA EndTransactionType ==
  ASSUME TypeOK, NEW r \in Requests, EndTransaction(r)
  PROVE  /\ lock' \in [Events -> Requests \cup {Free}]
         /\ seen' \in [Requests -> EventRow \cup {Gone}]
         /\ work' \in [Requests -> Work]
<1>1. NoWork \in Work
  BY DEF NoWork, Work
<1>2. QED
  BY <1>1 DEF TypeOK, EndTransaction

LEMMA ThrowType ==
  ASSUME TypeOK, NEW r \in Requests, NEW code \in ErrorCode, Throw(r, code)
  PROVE  /\ answer' \in [Requests -> Answer \cup {Nothing}]
         /\ pc' \in [Requests -> InTransaction \cup
                      {"idle", "lookup", "owned", "lock", "lookAgain", "done"}]
BY DEF TypeOK, Throw, Error, Answer

LEMMA ReplyType ==
  ASSUME TypeOK, NEW r \in Requests, NEW a \in Answer \cup {Nothing}, Reply(r, a)
  PROVE  /\ answer' \in [Requests -> Answer \cup {Nothing}]
         /\ pc' \in [Requests -> InTransaction \cup
                      {"idle", "lookup", "owned", "lock", "lookAgain", "done"}]
BY DEF TypeOK, Reply

LEMMA RejectType ==
  ASSUME TypeOK, NEW r \in Requests, NEW code \in ErrorCode, Reject(r, code)
  PROVE  TypeOK'
BY EndTransactionType, ThrowType DEF TypeOK, Reject, tables

LEMMA RetryOrThrowType ==
  ASSUME TypeOK, NEW r \in Requests, RetryOrThrow(r)
  PROVE  /\ answer' \in [Requests -> Answer \cup {Nothing}]
         /\ attempt' \in [Requests -> 1..MaxAttempts]
         /\ pc' \in [Requests -> InTransaction \cup
                      {"idle", "lookup", "owned", "lock", "lookAgain", "done"}]
<1>1. CASE /\ attempt[r] < MaxAttempts
           /\ attempt' = [attempt EXCEPT ![r] = @ + 1]
           /\ pc' = [pc EXCEPT ![r] = "lock"]
           /\ UNCHANGED answer
  BY <1>1, Parameters DEF TypeOK
<1>2. CASE Throw(r, "SERVICE_BUSY") /\ UNCHANGED attempt
  BY <1>2, ThrowType DEF TypeOK, ErrorCode
<1>3. CASE Throw(r, "INTERNAL_ERROR") /\ UNCHANGED attempt
  BY <1>3, ThrowType DEF TypeOK, ErrorCode
<1>4. QED
  BY <1>1, <1>2, <1>3 DEF RetryOrThrow

LEMMA WriteType ==
  ASSUME TypeOK, NEW r \in Requests, NEW w \in Work, Write(r, w)
  PROVE  TypeOK'
BY DEF TypeOK, Write, tables, InTransaction

(* A commit keeps the tables well typed. *)
LEMMA ApplyType ==
  ASSUME TypeOK, NEW r \in Requests, call[r] # Nothing,
         event[call[r].event] # Gone,
         Keyed(call[r]) => work[r].body # Nothing,
         Apply(r)
  PROVE  /\ event' \in [Events -> EventRow \cup {Gone}]
         /\ rsvp' \in [Events -> [Users -> RsvpRow]]
         /\ idem' \in [Users -> [Keys -> Stored \cup {NoRecord}]]
<1> DEFINE e == call[r].event
<1>1. e \in Events /\ call[r].patch \in Patch /\ call[r].user \in Users
  BY CallType
<1>2. event[e] \in EventRow
  BY <1>1 DEF TypeOK
<1>3. work[r] \in Work
  BY DEF TypeOK
<1>4. EventAfter(r) \in EventRow
  <2>1. Patched(event[e], call[r].patch) \in EventRow
    BY <1>1, <1>2, PatchedType
  <2>2. work[r].delta \in Int
    BY <1>3 DEF Work
  <2>3. QED
    BY <2>1, <2>2 DEF EventAfter, EventRow
<1>5. RowsAfter(r) \in [Users -> RsvpRow]
  BY <1>1, <1>3, OverlayType DEF RowsAfter, TypeOK, Work
<1>6. idem' \in [Users -> [Keys -> Stored \cup {NoRecord}]]
  <2>1. CASE Keyed(call[r])
    <3>1. call[r].key \in Keys
      BY <2>1, CallType
    <3>2. work[r].body \in Body
      BY <2>1, <1>3 DEF Work
    <3>3. [event |-> e, body |-> work[r].body] \in Stored
      BY <1>1, <3>2 DEF Stored
    <3>4. QED
      BY <1>1, <2>1, <3>1, <3>3 DEF Apply, TypeOK
  <2>2. CASE ~Keyed(call[r])
    BY <2>2 DEF Apply, TypeOK
  <2>3. QED
    BY <2>1, <2>2
<1>7. QED
  BY <1>1, <1>4, <1>5, <1>6 DEF Apply, TypeOK

-----------------------------------------------------------------------------
(* The inductive invariant: first isolation, then accounting. *)

(* A keyed join that is about to be recorded has its response. *)
BodyKnown ==
  \A r \in Requests :
    pc[r] \in {"record", "commit"} /\ Keyed(call[r]) => work[r].body # Nothing

Isolation == TypeOK /\ CallMade /\ LockHeldByTransaction /\ SeenIsCurrent /\ BodyKnown

(* The work a join hands to Write is well typed. *)
LEMMA JoinWork ==
  ASSUME TypeOK, NEW r \in Requests, call[r] # Nothing, seen[r] # Gone,
         NEW t \in Nat, NEW n
  PROVE  LET row == JoinedRow(seen[r], t)
             rows == [NoWork.rows EXCEPT ![call[r].user] = row]
             delta == IF row.status = "CONFIRMED" THEN 1 ELSE 0
         IN  n \in Nat => [rows |-> rows, delta |-> delta,
               body |-> [status |-> row.status,
                         confirmedCount |-> seen[r].confirmedCount + delta,
                         capacity |-> seen[r].capacity,
                         waitlistPosition |-> n]] \in Work
<1> DEFINE row == JoinedRow(seen[r], t)
           delta == IF row.status = "CONFIRMED" THEN 1 ELSE 0
<1>1. row \in RsvpRow /\ row.status \in {"CONFIRMED", "WAITLISTED"}
  BY DEF JoinedRow, RsvpRow, RsvpStatus
<1>2. seen[r] \in EventRow
  BY DEF TypeOK
<1>3. /\ seen[r].confirmedCount + delta \in Int
      /\ seen[r].capacity \in Capacities \cup {Unlimited}
  BY <1>2 DEF EventRow
<1>4. [NoWork.rows EXCEPT ![call[r].user] = row] \in [Users -> RsvpRow \cup {Same}]
  BY <1>1 DEF NoWork
<1>5. delta \in {-1, 0, 1}
  OBVIOUS
<1> HIDE DEF row, delta
<1>6. QED
  BY <1>1, <1>3, <1>4, <1>5 DEF Work, Body, row, delta

(* The work of a cancellation is well typed. *)
LEMMA LeaveWork ==
  ASSUME TypeOK, NEW r \in Requests, call[r] # Nothing
  PROVE  LET e == call[r].event
             rows == [NoWork.rows EXCEPT ![call[r].user] =
                        [status |-> "CANCELLED", queuedAt |-> NotQueued]]
         IN  /\ [NoWork EXCEPT !.rows = rows] \in Work
             /\ Promote(seen[r], rsvp[e], rows) \in Work
<1> DEFINE e == call[r].event
           rows == [NoWork.rows EXCEPT ![call[r].user] =
                      [status |-> "CANCELLED", queuedAt |-> NotQueued]]
<1>1. rows \in [Users -> RsvpRow \cup {Same}]
  BY DEF NoWork, RsvpRow, RsvpStatus
<1>2. [NoWork EXCEPT !.rows = rows] \in Work
  BY <1>1 DEF NoWork, Work
<1> HIDE DEF rows
<1>3. Promote(seen[r], rsvp[e], rows) \in Work
  BY <1>1 DEF Promote, Work, RsvpRow, RsvpStatus
<1>4. QED
  BY <1>2, <1>3 DEF rows

LEMMA TypeStep ==
  ASSUME Isolation, [Next]_vars
  PROVE  TypeOK'
<1> USE DEF Isolation
<1>0. CASE UNCHANGED vars
  BY <1>0 DEF vars, TypeOK, InTransaction
<1>1. ASSUME NEW r \in Requests, Arrive(r)
      PROVE  TypeOK'
  BY <1>1 DEF Arrive, TypeOK, NoTransaction, tables
<1>2. ASSUME NEW r \in Requests, Lookup(r) \/ LookAgain(r)
      PROVE  TypeOK'
  <2> DEFINE found == StoredOutcome(call[r])
  <2>1. call[r] # Nothing /\ Keyed(call[r])
    BY <1>2 DEF CallMade, Lookup, LookAgain
  <2>2. found \in Stored \cup {NoRecord}
    BY <2>1, CallType DEF TypeOK, StoredOutcome
  <2>3. PICK a \in Answer \cup {Nothing} :
             Reply(r, a) \/ (pc' = [pc EXCEPT ![r] = "lock"] /\ UNCHANGED answer)
    <3>1. found # NoRecord => [code |-> "OK", body |-> found.body] \in Answer
      BY <2>2 DEF Stored, Answer
    <3>2. Error("IDEMPOTENCY_KEY_REUSED") \in Answer
      BY DEF Error, Answer, ErrorCode
    <3>3. answer[r] \in Answer \cup {Nothing}
      BY DEF TypeOK
    <3>4. CASE Lookup(r)
      BY <3>1, <3>2, <3>4 DEF Lookup
    <3>5. CASE LookAgain(r)
      BY <3>1, <3>2, <3>3, <3>5 DEF LookAgain
    <3>6. QED
      BY <1>2, <3>4, <3>5
  <2>4. /\ answer' \in [Requests -> Answer \cup {Nothing}]
        /\ pc' \in [Requests -> InTransaction \cup
                      {"idle", "lookup", "owned", "lock", "lookAgain", "done"}]
    <3>1. CASE Reply(r, a)
      BY <3>1, ReplyType
    <3>2. CASE pc' = [pc EXCEPT ![r] = "lock"] /\ UNCHANGED answer
      BY <3>2 DEF TypeOK
    <3>3. QED
      BY <2>3, <3>1, <3>2
  <2>5. UNCHANGED <<tables, lock, now, faults, call, attempt, seen, work>>
    BY <1>2 DEF Lookup, LookAgain, NoTransaction
  <2>6. QED
    BY <2>4, <2>5 DEF TypeOK, tables
<1>3. ASSUME NEW r \in Requests, CheckOwner(r)
      PROVE  TypeOK'
  <2>1. Error("EVENT_NOT_FOUND") \in Answer /\ Error("NOT_EVENT_OWNER") \in Answer
    BY DEF Error, Answer, ErrorCode
  <2>2. /\ answer' \in [Requests -> Answer \cup {Nothing}]
        /\ pc' \in [Requests -> InTransaction \cup
                      {"idle", "lookup", "owned", "lock", "lookAgain", "done"}]
    <3>1. CASE \E a \in Answer : Reply(r, a)
      BY <3>1, ReplyType
    <3>2. CASE pc' = [pc EXCEPT ![r] = "lock"] /\ UNCHANGED answer
      BY <3>2 DEF TypeOK
    <3>3. QED
      BY <1>3, <2>1, <3>1, <3>2 DEF CheckOwner
  <2>3. QED
    BY <1>3, <2>2 DEF CheckOwner, TypeOK, NoTransaction, tables
<1>4. ASSUME NEW r \in Requests, LockEvent(r)
      PROVE  TypeOK'
  <2>1. CASE Reject(r, "EVENT_NOT_FOUND")
    BY <2>1, RejectType DEF ErrorCode
  <2>2. CASE ~Reject(r, "EVENT_NOT_FOUND")
    <3>1. call[r].event \in Events
      BY <1>4, CallType DEF CallMade, LockEvent
    <3>2. /\ lock' = [lock EXCEPT ![call[r].event] = r]
          /\ seen' = [seen EXCEPT ![r] = event[call[r].event]]
          /\ pc' = [pc EXCEPT ![r] = "work"]
          /\ UNCHANGED <<tables, now, faults, call, attempt, work, answer>>
      BY <1>4, <2>2 DEF LockEvent
    <3>3. event[call[r].event] \in EventRow \cup {Gone}
      BY <3>1 DEF TypeOK
    <3>4. seen' \in [Requests -> EventRow \cup {Gone}]
      BY <3>2, <3>3 DEF TypeOK
    <3>5. QED
      BY <3>1, <3>2, <3>4 DEF TypeOK, tables, InTransaction
  <2>3. QED
    BY <2>1, <2>2
<1>5. ASSUME NEW r \in Requests, DecideJoin(r)
      PROVE  TypeOK'
  <2> DEFINE e == call[r].event
             u == call[r].user
             t == Clock(call[r].inst)
             row == JoinedRow(seen[r], t)
             rows == [NoWork.rows EXCEPT ![u] = row]
             delta == IF row.status = "CONFIRMED" THEN 1 ELSE 0
             n == WaitlistPosition(Overlay(rsvp[e], rows), u)
             w == [rows |-> rows, delta |-> delta,
                   body |-> [status |-> row.status,
                             confirmedCount |-> seen[r].confirmedCount + delta,
                             capacity |-> seen[r].capacity,
                             waitlistPosition |-> n]]
  <2>1. call[r] # Nothing /\ seen[r] # Gone
    BY <1>5 DEF DecideJoin, CallMade, SeenIsCurrent, InTransaction
  <2>2. CASE Write(r, w)
    <3>1. t \in Nat
      BY <2>1, CallType, Parameters DEF Clock, TypeOK
    <3>2. n \in Nat
      BY PositionType
    <3>3. w \in Work
      BY <2>1, <3>1, <3>2, JoinWork
    <3>4. QED
      BY <2>2, <3>3, WriteType
  <2>3. CASE \E code \in ErrorCode : Reject(r, code)
    BY <2>3, RejectType
  <2>4. Write(r, w) \/ \E code \in ErrorCode : Reject(r, code)
    <3>1. JoinRefusal(seen[r], rsvp[e][u], t) \in ErrorCode \cup {"OK"}
      BY DEF JoinRefusal, ErrorCode
    <3>2. QED
      BY <1>5, <3>1 DEF DecideJoin
  <2>5. QED
    BY <2>2, <2>3, <2>4
<1>6. ASSUME NEW r \in Requests, DecideLeave(r)
      PROVE  TypeOK'
  <2>1. call[r] # Nothing
    BY <1>6 DEF DecideLeave, CallMade
  <2>2. CASE Reject(r, "RSVP_NOT_FOUND")
    BY <2>2, RejectType DEF ErrorCode
  <2>3. CASE \E w \in Work : Write(r, w)
    BY <2>3, WriteType
  <2>4. QED
    BY <1>6, <2>1, <2>2, <2>3, LeaveWork DEF DecideLeave
<1>7. ASSUME NEW r \in Requests, DecideUpdate(r)
      PROVE  TypeOK'
  <2>1. CASE Write(r, NoWork)
    BY <2>1, WriteType DEF NoWork, Work
  <2>2. CASE \E code \in ErrorCode : Reject(r, code)
    BY <2>2, RejectType
  <2>3. QED
    BY <1>7, <2>1, <2>2 DEF DecideUpdate, ErrorCode
<1>8. ASSUME NEW r \in Requests, Record(r)
      PROVE  TypeOK'
  <2>1. CASE Reject(r, "INTERNAL_ERROR")
    BY <2>1, RejectType DEF ErrorCode
  <2>2. CASE ~Reject(r, "INTERNAL_ERROR")
    BY <1>8, <2>2 DEF Record, TypeOK, NoTransaction, tables, InTransaction
  <2>3. QED
    BY <2>1, <2>2
<1>9. ASSUME NEW r \in Requests, Commit(r) \/ CommitUnacknowledged(r)
      PROVE  TypeOK'
  <2>1. /\ call[r] # Nothing
        /\ event[call[r].event] # Gone
        /\ Keyed(call[r]) => work[r].body # Nothing
    BY <1>9 DEF Commit, CommitUnacknowledged, CallMade, SeenIsCurrent, BodyKnown,
                InTransaction
  <2>2. /\ event' \in [Events -> EventRow \cup {Gone}]
        /\ rsvp' \in [Events -> [Users -> RsvpRow]]
        /\ idem' \in [Users -> [Keys -> Stored \cup {NoRecord}]]
    BY <1>9, <2>1, ApplyType DEF Commit, CommitUnacknowledged
  <2>3. /\ lock' \in [Events -> Requests \cup {Free}]
        /\ seen' \in [Requests -> EventRow \cup {Gone}]
        /\ work' \in [Requests -> Work]
    BY <1>9, EndTransactionType DEF Commit, CommitUnacknowledged
  <2>4. /\ answer' \in [Requests -> Answer \cup {Nothing}]
        /\ attempt' \in [Requests -> 1..MaxAttempts]
        /\ pc' \in [Requests -> InTransaction \cup
                      {"idle", "lookup", "owned", "lock", "lookAgain", "done"}]
    <3>1. CASE Commit(r)
      <4>1. [code |-> "OK", body |-> work[r].body] \in Answer
        BY DEF TypeOK, Work, Answer
      <4>2. QED
        BY <3>1, <4>1, ReplyType DEF Commit, TypeOK
    <3>2. CASE CommitUnacknowledged(r)
      BY <3>2, RetryOrThrowType DEF CommitUnacknowledged
    <3>3. QED
      BY <1>9, <3>1, <3>2
  <2>5. faults' \in Nat /\ now' = now /\ call' = call
    BY <1>9 DEF Commit, CommitUnacknowledged, Fault, TypeOK
  <2>6. QED
    BY <2>2, <2>3, <2>4, <2>5 DEF TypeOK
<1>10. ASSUME NEW r \in Requests, Remove(r)
       PROVE  TypeOK'
  <2>1. [u \in Users |-> NoRow] \in [Users -> RsvpRow]
    BY DEF NoRow, RsvpRow
  <2>2. Error("INTERNAL_ERROR") \in Answer /\ [code |-> "OK", body |-> Nothing] \in Answer
    BY DEF Error, Answer, ErrorCode
  <2>3. /\ answer' \in [Requests -> Answer \cup {Nothing}]
        /\ pc' \in [Requests -> InTransaction \cup
                      {"idle", "lookup", "owned", "lock", "lookAgain", "done"}]
    BY <1>10, <2>2, ReplyType DEF Remove
  <2>4. /\ event' \in [Events -> EventRow \cup {Gone}]
        /\ rsvp' \in [Events -> [Users -> RsvpRow]]
    BY <1>10, <2>1 DEF Remove, TypeOK
  <2>5. QED
    BY <1>10, <2>3, <2>4 DEF Remove, TypeOK, NoTransaction
<1>11. ASSUME NEW r \in Requests, TransactionFails(r)
       PROVE  TypeOK'
  BY <1>11, EndTransactionType, RetryOrThrowType
  DEF TransactionFails, Fault, TypeOK, tables
<1>12. ASSUME NEW r \in Requests, ReadFails(r)
       PROVE  TypeOK'
  <2>1. Error("INTERNAL_ERROR") \in Answer
    BY DEF Error, Answer, ErrorCode
  <2>2. QED
    BY <1>12, <2>1, ReplyType DEF ReadFails, Fault, NoTransaction, TypeOK, tables
<1>13. ASSUME NEW r \in Requests, Die(r)
       PROVE  TypeOK'
  <2>1. Error("LOST") \in Answer
    BY DEF Error, Answer
  <2>2. QED
    BY <1>13, <2>1, ReplyType, EndTransactionType DEF Die, Fault, TypeOK, tables
<1>14. CASE Tick
  BY <1>14 DEF Tick, TypeOK, tables, InTransaction
<1>15. CASE Rest
  BY <1>0, <1>15 DEF Rest
<1>16. QED
  BY <1>0, <1>1, <1>2, <1>3, <1>4, <1>5, <1>6, <1>7, <1>8, <1>9, <1>10, <1>11,
     <1>12, <1>13, <1>14, <1>15 DEF Next, Step, Failure

-----------------------------------------------------------------------------
(* Isolation is preserved.  Seen from the locks, a step is one of four     *)
(* kinds: it enters a transaction, works in one, ends one, or stays out.   *)

Moves(r, places) == \E x \in places : pc' = [pc EXCEPT ![r] = x]

OutsideTransaction == {"idle", "lookup", "owned", "lock", "lookAgain", "done"}

(* Where a request may go: a state in which it has a call, and, when the   *)
(* step that follows reads or writes a record, a keyed one.                *)
MovesOut(r) ==
  /\ Moves(r, OutsideTransaction \ {"idle"})
  /\ call'[r] # Nothing
  /\ pc'[r] \in {"lookup", "lookAgain"} => Keyed(call'[r])
  /\ \A q \in Requests \ {r} : call'[q] = call[q]

Enters(r) ==
  /\ pc[r] = "lock"
  /\ lock[call[r].event] = Free
  /\ event[call[r].event] # Gone
  /\ lock' = [lock EXCEPT ![call[r].event] = r]
  /\ seen' = [seen EXCEPT ![r] = event[call[r].event]]
  /\ Moves(r, {"work"})
  /\ UNCHANGED <<event, rsvp, call, work>>

WorksIn(r) ==
  /\ \/ pc[r] = "work" /\ (DecideJoin(r) \/ DecideLeave(r) \/ DecideUpdate(r))
     \/ pc[r] = "record" /\ UNCHANGED work
  /\ Moves(r, {"record", "commit"})
  /\ pc'[r] = "record" => Keyed(call[r])
  /\ Keyed(call[r]) => work'[r].body # Nothing
  /\ \A q \in Requests \ {r} : work'[q] = work[q]
  /\ UNCHANGED <<event, rsvp, lock, call, seen>>

Ends(r) ==
  /\ EndTransaction(r)
  /\ MovesOut(r)
  /\ UNCHANGED call
  /\ \/ UNCHANGED <<event, rsvp>>
     \/ /\ pc[r] = "commit"
        /\ event' = [event EXCEPT ![call[r].event] = EventAfter(r)]
        /\ rsvp' = [rsvp EXCEPT ![call[r].event] = RowsAfter(r)]

StaysOut(r) ==
  /\ pc[r] \notin InTransaction
  /\ MovesOut(r)
  /\ UNCHANGED <<lock, seen, work>>
  /\ \/ UNCHANGED <<event, rsvp>>
     \/ /\ lock[call[r].event] = Free
        /\ event' = [event EXCEPT ![call[r].event] = Gone]
        /\ rsvp' = [rsvp EXCEPT ![call[r].event] = [u \in Users |-> NoRow]]

LEMMA ThrowMovesOut ==
  ASSUME TypeOK, NEW r \in Requests, call[r] # Nothing, NEW code, Throw(r, code),
         UNCHANGED call
  PROVE  MovesOut(r)
<1>1. CASE Keyed(call[r])
  <2>1. pc' = [pc EXCEPT ![r] = "lookAgain"]
    BY <1>1 DEF Throw
  <2>2. QED
    BY <1>1, <2>1 DEF MovesOut, Moves, OutsideTransaction
<1>2. CASE ~Keyed(call[r])
  <2>1. pc' = [pc EXCEPT ![r] = "done"]
    BY <1>2 DEF Throw
  <2>2. pc'[r] = "done"
    BY <2>1 DEF TypeOK
  <2>3. QED
    BY <2>1, <2>2 DEF MovesOut, Moves, OutsideTransaction
<1>3. QED
  BY <1>1, <1>2

LEMMA RejectEnds ==
  ASSUME Isolation, NEW r \in Requests, call[r] # Nothing, NEW code, Reject(r, code)
  PROVE  Ends(r)
<1>1. MovesOut(r)
  BY ThrowMovesOut DEF Isolation, Reject
<1>2. QED
  BY <1>1 DEF Reject, Ends, tables

LEMMA RetryMovesOut ==
  ASSUME Isolation, NEW r \in Requests, call[r] # Nothing, RetryOrThrow(r),
         UNCHANGED call
  PROVE  MovesOut(r)
<1>1. CASE pc' = [pc EXCEPT ![r] = "lock"]
  <2>1. pc'[r] = "lock"
    BY <1>1 DEF Isolation, TypeOK
  <2>2. QED
    BY <1>1, <2>1 DEF MovesOut, Moves, OutsideTransaction
<1>2. CASE \E code \in ErrorCode : Throw(r, code)
  BY <1>2, ThrowMovesOut DEF Isolation
<1>3. QED
  BY <1>1, <1>2 DEF RetryOrThrow, ErrorCode

LEMMA StepShape ==
  ASSUME Isolation, [Next]_vars
  PROVE  \/ \E r \in Requests : Enters(r) \/ WorksIn(r) \/ Ends(r) \/ StaysOut(r)
         \/ UNCHANGED <<event, rsvp, lock, call, pc, seen, work>>
<1> USE DEF Isolation
<1>1. ASSUME NEW r \in Requests, Arrive(r)
      PROVE  StaysOut(r)
  <2>1. PICK c \in Calls :
          /\ call' = [call EXCEPT ![r] = c]
          /\ pc' = [pc EXCEPT ![r] = IF Keyed(c) THEN "lookup"
                                     ELSE IF c.op \in {"join", "leave"} THEN "lock"
                                     ELSE "owned"]
    BY <1>1 DEF Arrive
  <2>2. c # Nothing
    BY Sentinels, Parameters
  <2>3. /\ Moves(r, OutsideTransaction \ {"idle"})
        /\ pc'[r] \in {"lookup", "lookAgain"} => Keyed(c)
    BY <2>1 DEF Moves, OutsideTransaction, TypeOK
  <2>4. /\ call'[r] = c
        /\ \A q \in Requests \ {r} : call'[q] = call[q]
    BY <2>1 DEF TypeOK
  <2>5. MovesOut(r)
    BY <2>2, <2>3, <2>4 DEF MovesOut
  <2>6. QED
    BY <1>1, <2>5 DEF Arrive, StaysOut, NoTransaction, tables, InTransaction
<1>2. ASSUME NEW r \in Requests, Lookup(r) \/ LookAgain(r) \/ CheckOwner(r) \/ ReadFails(r)
      PROVE  StaysOut(r)
  <2>1. call[r] # Nothing
    BY <1>2 DEF CallMade, Lookup, LookAgain, CheckOwner, ReadFails
  <2>2. Moves(r, {"lock", "done"}) /\ call' = call
    BY <1>2 DEF Lookup, LookAgain, CheckOwner, ReadFails, Reply, Moves
  <2>3. MovesOut(r)
    BY <2>1, <2>2 DEF MovesOut, Moves, OutsideTransaction, TypeOK
  <2>4. QED
    BY <1>2, <2>3 DEF Lookup, LookAgain, CheckOwner, ReadFails, StaysOut,
                      NoTransaction, tables, InTransaction
<1>3. ASSUME NEW r \in Requests, Remove(r)
      PROVE  StaysOut(r)
  <2>1. call[r] # Nothing
    BY <1>3 DEF CallMade, Remove
  <2>2. MovesOut(r)
    BY <1>3, <2>1 DEF Remove, Reply, MovesOut, Moves, OutsideTransaction, TypeOK
  <2>3. QED
    BY <1>3, <2>2 DEF Remove, StaysOut, NoTransaction, InTransaction
<1>4. ASSUME NEW r \in Requests, LockEvent(r)
      PROVE  Enters(r) \/ Ends(r)
  <2>1. call[r] # Nothing
    BY <1>4 DEF CallMade, LockEvent
  <2>2. CASE Reject(r, "EVENT_NOT_FOUND")
    BY <2>1, <2>2, RejectEnds
  <2>3. CASE ~Reject(r, "EVENT_NOT_FOUND")
    BY <1>4, <2>3 DEF LockEvent, Enters, Moves, tables
  <2>4. QED
    BY <2>2, <2>3
<1>5. ASSUME NEW r \in Requests, NEW w \in Work, Write(r, w), pc[r] = "work",
             DecideJoin(r) \/ DecideLeave(r) \/ DecideUpdate(r),
             Keyed(call[r]) => w.body # Nothing
      PROVE  WorksIn(r)
  BY <1>5 DEF Write, WorksIn, Moves, TypeOK, InTransaction, tables
<1>6. ASSUME NEW r \in Requests, DecideJoin(r)
      PROVE  WorksIn(r) \/ Ends(r)
  <2> DEFINE e == call[r].event
             t == Clock(call[r].inst)
             row == JoinedRow(seen[r], t)
             rows == [NoWork.rows EXCEPT ![call[r].user] = row]
             delta == IF row.status = "CONFIRMED" THEN 1 ELSE 0
             n == WaitlistPosition(Overlay(rsvp[e], rows), call[r].user)
             body == [status |-> row.status,
                      confirmedCount |-> seen[r].confirmedCount + delta,
                      capacity |-> seen[r].capacity, waitlistPosition |-> n]
             w == [rows |-> rows, delta |-> delta, body |-> body]
  <2>1. call[r] # Nothing /\ seen[r] # Gone
    BY <1>6 DEF DecideJoin, CallMade, SeenIsCurrent, InTransaction
  <2>2. CASE \E code \in ErrorCode : Reject(r, code)
    BY <2>1, <2>2, RejectEnds
  <2>3. CASE Write(r, w)
    <3>1. t \in Nat
      BY <2>1, CallType, Parameters DEF Clock, TypeOK
    <3>2. n \in Nat
      BY PositionType
    <3>3. w \in Work
      BY <2>1, <3>1, <3>2, JoinWork
    <3>4. w.body # Nothing
      <4>1. row.status \in {"CONFIRMED", "WAITLISTED"}
        BY DEF JoinedRow
      <4>2. seen[r] \in EventRow
        BY <2>1 DEF TypeOK
      <4>3. body \in Body
        BY <3>2, <4>1, <4>2 DEF Body, EventRow
      <4>4. QED
        BY <4>3, Sentinels
    <3>5. QED
      BY <1>5, <1>6, <2>3, <3>3, <3>4 DEF DecideJoin
  <2>4. QED
    <3>1. JoinRefusal(seen[r], rsvp[e][call[r].user], t) \in ErrorCode \cup {"OK"}
      BY DEF JoinRefusal, ErrorCode
    <3>2. QED
      BY <1>6, <2>2, <2>3, <3>1 DEF DecideJoin
<1>7. ASSUME NEW r \in Requests, DecideLeave(r) \/ DecideUpdate(r)
      PROVE  WorksIn(r) \/ Ends(r)
  <2>1. call[r] # Nothing /\ pc[r] = "work"
    BY <1>7 DEF DecideLeave, DecideUpdate, CallMade
  <2>2. ~Keyed(call[r])
    BY <1>7 DEF DecideLeave, DecideUpdate, Keyed
  <2>3. CASE \E code \in ErrorCode : Reject(r, code)
    BY <2>1, <2>3, RejectEnds
  <2>4. CASE \E w \in Work : Write(r, w)
    BY <1>5, <1>7, <2>1, <2>2, <2>4
  <2>5. NoWork \in Work
    BY DEF NoWork, Work
  <2>6. QED
    BY <1>7, <2>1, <2>3, <2>4, <2>5, LeaveWork DEF DecideLeave, DecideUpdate, ErrorCode
<1>8. ASSUME NEW r \in Requests, Record(r)
      PROVE  WorksIn(r) \/ Ends(r)
  <2>1. call[r] # Nothing
    BY <1>8 DEF CallMade, Record
  <2>2. CASE Reject(r, "INTERNAL_ERROR")
    BY <2>1, <2>2, RejectEnds
  <2>3. CASE ~Reject(r, "INTERNAL_ERROR")
    <3>1. pc[r] = "record" /\ pc' = [pc EXCEPT ![r] = "commit"]
      BY <1>8, <2>3 DEF Record
    <3>2. pc'[r] = "commit"
      BY <3>1 DEF TypeOK
    <3>3. QED
      BY <1>8, <2>3, <3>1, <3>2
      DEF Record, WorksIn, Moves, BodyKnown, InTransaction, NoTransaction, tables
  <2>4. QED
    BY <2>2, <2>3
<1>9. ASSUME NEW r \in Requests, Commit(r) \/ CommitUnacknowledged(r)
      PROVE  Ends(r)
  <2>1. call[r] # Nothing /\ call' = call
    BY <1>9 DEF CallMade, Commit, CommitUnacknowledged
  <2>2. MovesOut(r)
    <3>1. CASE Commit(r)
      BY <2>1, <3>1 DEF Commit, Reply, MovesOut, Moves, OutsideTransaction, TypeOK
    <3>2. CASE CommitUnacknowledged(r)
      BY <2>1, <3>2, RetryMovesOut DEF CommitUnacknowledged
    <3>3. QED
      BY <1>9, <3>1, <3>2
  <2>3. QED
    BY <1>9, <2>1, <2>2 DEF Commit, CommitUnacknowledged, Apply, Ends
<1>10. ASSUME NEW r \in Requests, TransactionFails(r)
       PROVE  Ends(r)
  <2>1. call[r] # Nothing
    BY <1>10 DEF CallMade, TransactionFails, InTransaction
  <2>2. QED
    BY <1>10, <2>1, RetryMovesOut DEF TransactionFails, Ends, tables
<1>11. ASSUME NEW r \in Requests, Die(r)
       PROVE  Ends(r)
  <2>1. call[r] # Nothing /\ call' = call
    BY <1>11 DEF CallMade, Die
  <2>2. MovesOut(r)
    BY <1>11, <2>1 DEF Die, Reply, MovesOut, Moves, OutsideTransaction, TypeOK
  <2>3. QED
    BY <1>11, <2>1, <2>2 DEF Die, Ends, tables
<1>12. CASE Tick \/ Rest \/ UNCHANGED vars
  BY <1>12 DEF Tick, Rest, vars, tables
<1>13. QED
  BY <1>1, <1>2, <1>3, <1>4, <1>6, <1>7, <1>8, <1>9, <1>10, <1>11, <1>12
  DEF Next, Step, Failure

(* The invariant of the locks survives each of the four kinds of step. *)
LEMMA IsolationStep ==
  ASSUME Isolation, [Next]_vars
  PROVE  Isolation'
<1> USE DEF Isolation
<1>1. TypeOK'
  BY TypeStep
<1>2. ASSUME NEW r \in Requests, Enters(r)
      PROVE  CallMade' /\ LockHeldByTransaction' /\ SeenIsCurrent' /\ BodyKnown'
  <2>1. /\ pc' = [pc EXCEPT ![r] = "work"]
        /\ call[r] # Nothing
    BY <1>2 DEF Enters, Moves, CallMade
  <2>2. call[r].event \in Events
    BY <2>1, CallType
  <2>3. r # Free
    BY Sentinels
  <2>4. CallMade'
    BY <1>2, <2>1 DEF Enters, CallMade, TypeOK
  <2>5. LockHeldByTransaction'
    <3>1. ASSUME NEW q \in Requests, NEW e \in Events
          PROVE  /\ pc'[q] = IF q = r THEN "work" ELSE pc[q]
                 /\ lock'[e] = IF e = call[r].event THEN r ELSE lock[e]
                 /\ call'[q] = call[q]
      BY <1>2, <2>1 DEF Enters, TypeOK
    <3>2. lock[call[r].event] = Free /\ pc[r] = "lock"
      BY <1>2 DEF Enters
    <3>3. ASSUME NEW q \in Requests, NEW e \in Events
          PROVE  lock'[e] = q <=> pc'[q] \in InTransaction /\ call'[q].event = e
      <4>1. q # Free
        BY Sentinels
      <4>2. lock[e] = q <=> pc[q] \in InTransaction /\ call[q].event = e
        BY DEF LockHeldByTransaction
      <4>3. QED
        BY <3>1, <3>2, <4>1, <4>2 DEF InTransaction
    <3>4. QED
      BY <3>3 DEF LockHeldByTransaction
  <2>6. SeenIsCurrent'
    BY <1>2, <2>1, <2>2 DEF Enters, SeenIsCurrent, TypeOK, InTransaction
  <2>7. BodyKnown'
    BY <1>2, <2>1 DEF Enters, BodyKnown, TypeOK
  <2>8. QED
    BY <2>4, <2>5, <2>6, <2>7
<1>3. ASSUME NEW r \in Requests, WorksIn(r)
      PROVE  CallMade' /\ LockHeldByTransaction' /\ SeenIsCurrent' /\ BodyKnown'
  <2>1. PICK x \in {"record", "commit"} : pc' = [pc EXCEPT ![r] = x]
    BY <1>3 DEF WorksIn, Moves
  <2>2. CallMade'
    BY <1>3, <2>1 DEF WorksIn, CallMade, TypeOK, InTransaction
  <2>3. LockHeldByTransaction'
    BY <1>3, <2>1 DEF WorksIn, LockHeldByTransaction, TypeOK, InTransaction
  <2>4. SeenIsCurrent'
    BY <1>3, <2>1 DEF WorksIn, SeenIsCurrent, TypeOK, InTransaction
  <2>5. BodyKnown'
    BY <1>3, <2>1 DEF WorksIn, BodyKnown, TypeOK
  <2>6. QED
    BY <2>2, <2>3, <2>4, <2>5
<1>4. ASSUME NEW r \in Requests, Ends(r)
      PROVE  CallMade' /\ LockHeldByTransaction' /\ SeenIsCurrent' /\ BodyKnown'
  <2>1. PICK x \in OutsideTransaction \ {"idle"} : pc' = [pc EXCEPT ![r] = x]
    BY <1>4 DEF Ends, MovesOut, Moves
  <2>2. x \notin InTransaction
    BY DEF OutsideTransaction, InTransaction
  <2>3. r # Free
    BY Sentinels
  <2>4. CallMade'
    BY <1>4, <2>1, <2>2 DEF Ends, MovesOut, CallMade, TypeOK, InTransaction
  <2>5. LockHeldByTransaction'
    <3>1. ASSUME NEW q \in Requests, NEW e \in Events
          PROVE  /\ pc'[q] = IF q = r THEN x ELSE pc[q]
                 /\ lock'[e] = IF lock[e] = r THEN Free ELSE lock[e]
                 /\ call'[q] = call[q]
      BY <1>4, <2>1 DEF Ends, EndTransaction, TypeOK
    <3>2. ASSUME NEW q \in Requests, NEW e \in Events
          PROVE  lock'[e] = q <=> pc'[q] \in InTransaction /\ call'[q].event = e
      <4>1. q # Free
        BY Sentinels
      <4>2. lock[e] = q <=> pc[q] \in InTransaction /\ call[q].event = e
        BY DEF LockHeldByTransaction
      <4>3. QED
        BY <2>2, <3>1, <4>1, <4>2
    <3>3. QED
      BY <3>2 DEF LockHeldByTransaction
  <2>6. SeenIsCurrent'
    <3> SUFFICES ASSUME NEW q \in Requests, pc'[q] \in InTransaction
                 PROVE  seen'[q] # Gone /\ seen'[q] = event'[call'[q].event]
      BY DEF SeenIsCurrent
    <3>1. q # r /\ pc[q] \in InTransaction
      BY <2>1, <2>2 DEF TypeOK
    <3>2. seen'[q] = seen[q] /\ call'[q] = call[q]
      BY <1>4, <3>1 DEF Ends, EndTransaction, TypeOK
    <3>3. call[q].event \in Events
      BY <3>1, CallType DEF CallMade, InTransaction
    <3>4. event'[call[q].event] = event[call[q].event]
      <4>1. CASE UNCHANGED event
        BY <4>1
      <4>2. CASE pc[r] = "commit" /\ event' = [event EXCEPT ![call[r].event] = EventAfter(r)]
        BY <3>1, <3>3, <4>2 DEF LockHeldByTransaction, TypeOK, InTransaction
      <4>3. QED
        BY <1>4, <4>1, <4>2 DEF Ends
    <3>5. QED
      BY <3>1, <3>2, <3>4 DEF SeenIsCurrent
  <2>7. BodyKnown'
    BY <1>4, <2>1, <2>2 DEF Ends, EndTransaction, BodyKnown, TypeOK, InTransaction
  <2>8. QED
    BY <2>4, <2>5, <2>6, <2>7
<1>5. ASSUME NEW r \in Requests, StaysOut(r)
      PROVE  CallMade' /\ LockHeldByTransaction' /\ SeenIsCurrent' /\ BodyKnown'
  <2>1. PICK x \in OutsideTransaction \ {"idle"} : pc' = [pc EXCEPT ![r] = x]
    BY <1>5 DEF StaysOut, MovesOut, Moves
  <2>2. x \notin InTransaction
    BY DEF OutsideTransaction, InTransaction
  <2>3. \A q \in Requests \ {r} : call'[q] = call[q] /\ pc'[q] = pc[q]
    BY <1>5, <2>1 DEF StaysOut, MovesOut, TypeOK
  <2>4. pc'[r] = x
    BY <2>1 DEF TypeOK
  <2>5. CallMade'
    BY <1>5, <2>2, <2>3, <2>4 DEF StaysOut, MovesOut, CallMade, InTransaction
  <2>6. LockHeldByTransaction'
    BY <1>5, <2>2, <2>3, <2>4 DEF StaysOut, LockHeldByTransaction
  <2>7. SeenIsCurrent'
    <3> SUFFICES ASSUME NEW q \in Requests, pc'[q] \in InTransaction
                 PROVE  seen'[q] # Gone /\ seen'[q] = event'[call'[q].event]
      BY DEF SeenIsCurrent
    <3>1. q # r /\ pc[q] \in InTransaction
      BY <2>2, <2>3, <2>4
    <3>2. seen'[q] = seen[q] /\ call'[q] = call[q]
      BY <1>5, <2>3, <3>1 DEF StaysOut
    <3>3. call[q].event \in Events
      BY <3>1, CallType DEF CallMade, InTransaction
    <3>4. lock[call[q].event] = q /\ q # Free
      BY <3>1, <3>3, Sentinels DEF LockHeldByTransaction
    <3>5. event'[call[q].event] = event[call[q].event]
      BY <1>5, <3>3, <3>4 DEF StaysOut, TypeOK
    <3>6. QED
      BY <3>1, <3>2, <3>5 DEF SeenIsCurrent
  <2>8. BodyKnown'
    BY <1>5, <2>2, <2>3, <2>4 DEF StaysOut, BodyKnown, InTransaction
  <2>9. QED
    BY <2>5, <2>6, <2>7, <2>8
<1>6. CASE UNCHANGED <<event, rsvp, lock, call, pc, seen, work>>
  BY <1>1, <1>6 DEF CallMade, LockHeldByTransaction, SeenIsCurrent, BodyKnown
<1>7. QED
  BY <1>1, <1>2, <1>3, <1>4, <1>5, <1>6, StepShape

LEMMA IsolationInit ==
  ASSUME Init
  PROVE  Isolation
<1>1. NoWork \in Work /\ NoRow \in RsvpRow
  BY DEF NoWork, Work, NoRow, RsvpRow
<1>2. TypeOK
  BY <1>1, Parameters DEF Init, TypeOK
<1>3. \A r \in Requests, e \in Events : lock[e] # r
  BY Sentinels DEF Init
<1>4. QED
  BY <1>2, <1>3 DEF Init, Isolation, CallMade, LockHeldByTransaction, SeenIsCurrent, BodyKnown,
     InTransaction

(* Every reachable state is well typed. *)
THEOREM TypeCorrect == Spec => []TypeOK
<1>1. Init => Isolation
  BY IsolationInit
<1>2. Isolation /\ [Next]_vars => Isolation'
  BY IsolationStep
<1>3. Isolation => TypeOK
  BY DEF Isolation
<1>4. QED
  BY <1>1, <1>2, <1>3, PTL DEF Spec

(* The event lock isolates: it is held exactly while a transaction works   *)
(* on the event, by that transaction alone.                                *)
THEOREM LockIsolation == Spec => []LockHeldByTransaction
<1>1. Init => Isolation
  BY IsolationInit
<1>2. Isolation /\ [Next]_vars => Isolation'
  BY IsolationStep
<1>3. Isolation => LockHeldByTransaction
  BY DEF Isolation
<1>4. QED
  BY <1>1, <1>2, <1>3, PTL DEF Spec

(* What a transaction read under the lock is still true when it commits. *)
THEOREM DecisionsAreCurrent == Spec => []SeenIsCurrent
<1>1. Init => Isolation
  BY IsolationInit
<1>2. Isolation /\ [Next]_vars => Isolation'
  BY IsolationStep
<1>3. Isolation => SeenIsCurrent
  BY DEF Isolation
<1>4. QED
  BY <1>1, <1>2, <1>3, PTL DEF Spec

-----------------------------------------------------------------------------
(* The books are kept: the counter of an event is the number of its        *)
(* CONFIRMED rows, that number never exceeds the capacity, and no CHECK    *)
(* constraint of the migration would ever refuse a write.                  *)

(* An event row and its RSVP rows that may stand in the tables together. *)
Balanced(ev, rows) ==
  /\ ev.confirmedCount = Cardinality(UsersWith(rows, "CONFIRMED"))
  /\ ConstraintsHold(ev, rows)

(* Every committed state is balanced, and so is every state a pending      *)
(* commit would leave.                                                     *)
Accounts ==
  /\ \A e \in Events : event[e] # Gone => Balanced(event[e], rsvp[e])
  /\ \A r \in Requests :
       pc[r] \in {"record", "commit"} => Balanced(EventAfter(r), RowsAfter(r))

-----------------------------------------------------------------------------
(* The head of the queue. *)

(* A non-empty set of naturals has a least element. *)
LEMMA LeastNatural ==
  ASSUME NEW S, S \subseteq Nat, S # {}
  PROVE  \E m \in S : \A n \in S : m <= n
<1>1. PICK m \in S : \A n \in S : ~(<<n, m>> \in OpToRel(<, Nat))
  BY NatLessThanWellFounded, WFMin
<1>2. ASSUME NEW n \in S
      PROVE  m <= n
  <2>1. m \in Nat /\ n \in Nat
    OBVIOUS
  <2>2. ~(n < m)
    BY <1>1, <2>1 DEF OpToRel
  <2>3. QED
    BY <2>1, <2>2
<1>3. QED
  BY <1>2

(* When somebody waits, NextWaitlisted is the one of them whom nobody is   *)
(* ahead of.                                                               *)
LEMMA HeadOfQueue ==
  ASSUME NEW rows, UsersWith(rows, "WAITLISTED") # {},
         \A u \in UsersWith(rows, "WAITLISTED") : rows[u].queuedAt \in Nat
  PROVE  /\ NextWaitlisted(rows) \in UsersWith(rows, "WAITLISTED")
         /\ \A v \in UsersWith(rows, "WAITLISTED") \ {NextWaitlisted(rows)} :
              AheadOf(rows, NextWaitlisted(rows), v)
<1> DEFINE waiting == UsersWith(rows, "WAITLISTED")
           times == {rows[u].queuedAt : u \in waiting}
<1>1. waiting \subseteq Nat
  BY Parameters DEF UsersWith
<1>2. PICK t \in times : \A n \in times : t <= n
  <2>1. times \subseteq Nat /\ times # {}
    OBVIOUS
  <2> HIDE DEF times
  <2>2. QED
    BY <2>1, LeastNatural
<1> DEFINE first == {u \in waiting : rows[u].queuedAt = t}
<1>3. PICK u \in first : \A v \in first : u <= v
  <2>1. first \subseteq Nat /\ first # {}
    BY <1>1
  <2> HIDE DEF first
  <2>2. QED
    BY <2>1, LeastNatural
<1>4. ASSUME NEW v \in waiting \ {u}
      PROVE  AheadOf(rows, u, v)
  <2>1. /\ rows[u].queuedAt = t /\ rows[u].queuedAt \in Nat
        /\ rows[v].queuedAt \in Nat /\ t <= rows[v].queuedAt
    BY <1>2
  <2>2. CASE rows[v].queuedAt = t
    <3>1. v \in Nat /\ u \in Nat /\ u <= v /\ u # v
      BY <1>1, <1>3, <2>2
    <3>2. QED
      BY <2>1, <2>2, <3>1 DEF AheadOf
  <2>3. CASE rows[v].queuedAt # t
    BY <2>1, <2>3 DEF AheadOf
  <2>4. QED
    BY <2>2, <2>3
<1>5. \E w \in waiting : \A v \in waiting \ {w} : AheadOf(rows, w, v)
  BY <1>3, <1>4
<1> HIDE DEF waiting
<1>6. QED
  BY <1>5 DEF NextWaitlisted, waiting

-----------------------------------------------------------------------------
(* What the writes of a transaction do to the rows and to their count. *)

LEMMA NoWrites ==
  ASSUME NEW rows \in [Users -> RsvpRow]
  PROVE  Overlay(rows, NoWork.rows) = rows
BY DEF Overlay, NoWork

(* The first write of a transaction. *)
LEMMA FirstWrite ==
  ASSUME NEW rows \in [Users -> RsvpRow], NEW u \in Users, NEW row \in RsvpRow
  PROVE  /\ [NoWork.rows EXCEPT ![u] = row] \in [Users -> RsvpRow \cup {Same}]
         /\ Overlay(rows, [NoWork.rows EXCEPT ![u] = row]) = [rows EXCEPT ![u] = row]
<1>1. NoWork.rows = [v \in Users |-> Same]
  BY DEF NoWork
<1>2. [NoWork.rows EXCEPT ![u] = row] = [v \in Users |-> IF v = u THEN row ELSE Same]
  BY <1>1
<1>3. QED
  BY <1>2, Sentinels DEF Overlay

Places(row) == IF row.status = "CONFIRMED" THEN 1 ELSE 0

(* Replacing one row moves the number of confirmed rows by the difference  *)
(* of the two.                                                             *)
LEMMA CountAfterWrite ==
  ASSUME NEW rows \in [Users -> RsvpRow], NEW u \in Users, NEW row \in RsvpRow
  PROVE  Cardinality(UsersWith([rows EXCEPT ![u] = row], "CONFIRMED")) =
           Cardinality(UsersWith(rows, "CONFIRMED")) + Places(row) - Places(rows[u])
<1> DEFINE before == UsersWith(rows, "CONFIRMED")
           after == UsersWith([rows EXCEPT ![u] = row], "CONFIRMED")
<1>1. IsFiniteSet(before) /\ Cardinality(before) \in Nat
  BY UsersWithFinite
<1>2. u \in before <=> rows[u].status = "CONFIRMED"
  BY DEF UsersWith
<1>3. Places(rows[u]) = IF u \in before THEN 1 ELSE 0
  BY <1>2 DEF Places
<1>4. CASE row.status = "CONFIRMED"
  <2>1. after = before \cup {u}
    BY <1>4 DEF UsersWith
  <2>2. Cardinality(before \cup {u}) =
          IF u \in before THEN Cardinality(before) ELSE Cardinality(before) + 1
    BY <1>1, FS_AddElement
  <2>3. Places(row) = 1
    BY <1>4 DEF Places
  <2> HIDE DEF before, after
  <2>4. Cardinality(after) = Cardinality(before) + Places(row) - Places(rows[u])
    BY <1>1, <1>3, <2>1, <2>2, <2>3
  <2>5. QED
    BY <2>4 DEF before, after
<1>5. CASE row.status # "CONFIRMED"
  <2>1. after = before \ {u}
    BY <1>5 DEF UsersWith
  <2>2. Cardinality(before \ {u}) =
          IF u \in before THEN Cardinality(before) - 1 ELSE Cardinality(before)
    BY <1>1, FS_RemoveElement
  <2>3. Places(row) = 0
    BY <1>5 DEF Places
  <2> HIDE DEF before, after
  <2>4. Cardinality(after) = Cardinality(before) + Places(row) - Places(rows[u])
    BY <1>1, <1>3, <2>1, <2>2, <2>3
  <2>5. QED
    BY <2>4 DEF before, after
<1>6. QED
  BY <1>4, <1>5

(* The constraint on queuedAt, row by row. *)
QueuedWhenWaiting(row) == row.queuedAt # NotQueued <=> row.status = "WAITLISTED"

(* One write keeps the books when the counter moves with it, stays within  *)
(* the capacity, and the new row is queued exactly when it waits.          *)
LEMMA BalancedWrite ==
  ASSUME NEW ev \in EventRow, NEW rows \in [Users -> RsvpRow], Balanced(ev, rows),
         NEW u \in Users, NEW row \in RsvpRow, QueuedWhenWaiting(row),
         NEW n \in Int, n = ev.confirmedCount + Places(row) - Places(rows[u]),
         ev.capacity = Unlimited \/ n <= ev.capacity
  PROVE  Balanced([ev EXCEPT !.confirmedCount = n], [rows EXCEPT ![u] = row])
<1> DEFINE ev2 == [ev EXCEPT !.confirmedCount = n]
           rows2 == [rows EXCEPT ![u] = row]
<1>1. /\ ev2.confirmedCount = n /\ ev2.capacity = ev.capacity
      /\ ev2.startsAt = ev.startsAt /\ ev2.endsAt = ev.endsAt
  BY DEF EventRow
<1>2. n = Cardinality(UsersWith(rows2, "CONFIRMED"))
  BY CountAfterWrite DEF Balanced
<1>3. n >= 0
  BY <1>2, UsersWithFinite
<1>4. \A v \in Users : rows2[v].queuedAt # NotQueued <=> rows2[v].status = "WAITLISTED"
  BY DEF Balanced, ConstraintsHold, QueuedWhenWaiting
<1> HIDE DEF ev2, rows2
<1>5. QED
  BY <1>1, <1>2, <1>3, <1>4 DEF Balanced, ConstraintsHold, ev2, rows2

-----------------------------------------------------------------------------
(* The three decisions keep the books. *)

(* An accepted join. *)
LEMMA JoinBalanced ==
  ASSUME NEW ev \in EventRow, NEW rows \in [Users -> RsvpRow], Balanced(ev, rows),
         NEW u \in Users, ~Active(rows[u]), NEW t \in Nat
  PROVE  LET row == JoinedRow(ev, t)
             delta == IF row.status = "CONFIRMED" THEN 1 ELSE 0
         IN  Balanced([ev EXCEPT !.confirmedCount = @ + delta],
                      Overlay(rows, [NoWork.rows EXCEPT ![u] = row]))
<1> DEFINE row == JoinedRow(ev, t)
           n == ev.confirmedCount + (IF row.status = "CONFIRMED" THEN 1 ELSE 0)
<1>1. row \in RsvpRow /\ QueuedWhenWaiting(row)
  BY Sentinels DEF JoinedRow, RsvpRow, RsvpStatus, QueuedWhenWaiting
<1>2. Overlay(rows, [NoWork.rows EXCEPT ![u] = row]) = [rows EXCEPT ![u] = row]
  <2> HIDE DEF row
  <2>1. QED
    BY <1>1, FirstWrite
<1>3. ev.confirmedCount \in Int /\ ev.capacity \in Capacities \cup {Unlimited}
  BY DEF EventRow
<1>4. Places(rows[u]) = 0
  BY DEF Active, Places
<1>5. n \in Int /\ n = ev.confirmedCount + Places(row) - Places(rows[u])
  BY <1>3, <1>4 DEF Places
<1>6. ev.capacity = Unlimited \/ n <= ev.capacity
  <2>1. CASE HasRoom(ev)
    <3>1. n = ev.confirmedCount + 1
      BY <2>1 DEF JoinedRow
    <3>2. ev.capacity # Unlimited => ev.capacity \in Nat
      BY <1>3, Parameters
    <3> HIDE DEF n, row
    <3>3. QED
      BY <1>3, <2>1, <3>1, <3>2 DEF HasRoom
  <2>2. CASE ~HasRoom(ev)
    <3>1. n = ev.confirmedCount
      BY <1>3, <2>2 DEF JoinedRow
    <3>2. QED
      BY <3>1 DEF Balanced, ConstraintsHold
  <2>3. QED
    BY <2>1, <2>2
<1>7. [ev EXCEPT !.confirmedCount = n] =
        [ev EXCEPT !.confirmedCount = @ + (IF row.status = "CONFIRMED" THEN 1 ELSE 0)]
  OBVIOUS
<1> HIDE DEF row, n
<1>8. Balanced([ev EXCEPT !.confirmedCount = n], [rows EXCEPT ![u] = row])
  BY <1>1, <1>5, <1>6, BalancedWrite
<1>9. QED
  BY <1>2, <1>7, <1>8 DEF row, n

Cancelled == [status |-> "CANCELLED", queuedAt |-> NotQueued]
Promoted == [status |-> "CONFIRMED", queuedAt |-> NotQueued]

LEMMA RowsWritten ==
  /\ Cancelled \in RsvpRow /\ QueuedWhenWaiting(Cancelled) /\ Places(Cancelled) = 0
  /\ Promoted \in RsvpRow /\ QueuedWhenWaiting(Promoted) /\ Places(Promoted) = 1
BY DEF Cancelled, Promoted, RsvpRow, RsvpStatus, QueuedWhenWaiting, Places

(* Leaving the queue. *)
LEMMA LeaveQueueBalanced ==
  ASSUME NEW ev \in EventRow, NEW rows \in [Users -> RsvpRow], Balanced(ev, rows),
         NEW u \in Users, rows[u].status = "WAITLISTED"
  PROVE  Balanced([ev EXCEPT !.confirmedCount = @ + 0],
                  Overlay(rows, [NoWork.rows EXCEPT ![u] = Cancelled]))
<1> DEFINE n == ev.confirmedCount + 0
<1>1. ev.confirmedCount \in Int
  BY DEF EventRow
<1>2. Places(rows[u]) = 0
  BY DEF Places
<1>3. n \in Int /\ n = ev.confirmedCount + Places(Cancelled) - Places(rows[u])
  BY <1>1, <1>2, RowsWritten
<1>4. ev.capacity = Unlimited \/ n <= ev.capacity
  BY <1>1 DEF Balanced, ConstraintsHold
<1>5. Balanced([ev EXCEPT !.confirmedCount = n], [rows EXCEPT ![u] = Cancelled])
  <2> HIDE DEF n
  <2>1. QED
    BY <1>3, <1>4, RowsWritten, BalancedWrite
<1>6. QED
  BY <1>5, RowsWritten, FirstWrite

(* Giving up a confirmed place, with or without a promotion. *)
LEMMA LeavePlaceBalanced ==
  ASSUME NEW ev \in EventRow, NEW rows \in [Users -> RsvpRow], Balanced(ev, rows),
         NEW u \in Users, rows[u].status = "CONFIRMED"
  PROVE  LET w == Promote(ev, rows, [NoWork.rows EXCEPT ![u] = Cancelled])
         IN  Balanced([ev EXCEPT !.confirmedCount = @ + w.delta], Overlay(rows, w.rows))
<1> DEFINE writes == [NoWork.rows EXCEPT ![u] = Cancelled]
           left == [rows EXCEPT ![u] = Cancelled]
           c == ev.confirmedCount
           ev1 == [ev EXCEPT !.confirmedCount = c - 1]
           head == NextWaitlisted(left)
<1>1. Overlay(rows, writes) = left /\ writes \in [Users -> RsvpRow \cup {Same}]
  BY RowsWritten, FirstWrite
<1>2. c \in Int /\ ev.capacity \in Capacities \cup {Unlimited}
  BY DEF EventRow
<1>3. ev.capacity = Unlimited \/ c <= ev.capacity
  BY DEF Balanced, ConstraintsHold
<1>4. Balanced(ev1, left)
  <2>1. Places(rows[u]) = 1
    BY DEF Places
  <2>2. c - 1 \in Int /\ c - 1 = c + Places(Cancelled) - Places(rows[u])
    BY <1>2, <2>1, RowsWritten
  <2>3. ev.capacity # Unlimited => ev.capacity \in Nat
    BY <1>2, Parameters
  <2> HIDE DEF c, left
  <2>4. ev.capacity = Unlimited \/ c - 1 <= ev.capacity
    BY <1>2, <1>3, <2>3
  <2>5. QED
    BY <2>2, <2>4, RowsWritten, BalancedWrite DEF c, left
<1>5. left \in [Users -> RsvpRow] /\ ev1 \in EventRow
  BY <1>2, RowsWritten DEF EventRow
<1>6. CASE ev.capacity = Unlimited \/ UsersWith(left, "WAITLISTED") = {}
  <2>1. Promote(ev, rows, writes) = [rows |-> writes, delta |-> -1, body |-> Nothing]
    BY <1>1, <1>6 DEF Promote
  <2>2. c + (-1) = c - 1
    BY <1>2
  <2>3. QED
    BY <1>1, <1>4, <2>1, <2>2
<1>7. CASE ~(ev.capacity = Unlimited \/ UsersWith(left, "WAITLISTED") = {})
  <2>1. Promote(ev, rows, writes) =
          [rows |-> [writes EXCEPT ![head] = Promoted], delta |-> 0, body |-> Nothing]
    BY <1>1, <1>7 DEF Promote, Promoted
  <2>2. head \in UsersWith(left, "WAITLISTED")
    <3>1. \A v \in UsersWith(left, "WAITLISTED") : left[v].queuedAt \in Nat
      <4> SUFFICES ASSUME NEW v \in UsersWith(left, "WAITLISTED")
                   PROVE  left[v].queuedAt \in Nat
        OBVIOUS
      <4>1. v \in Users /\ left[v].status = "WAITLISTED"
        BY DEF UsersWith
      <4>2. left[v].queuedAt # NotQueued
        BY <1>4, <4>1 DEF Balanced, ConstraintsHold
      <4>3. left[v] \in RsvpRow
        BY <1>5, <4>1
      <4>4. QED
        BY <4>2, <4>3 DEF RsvpRow
    <3> HIDE DEF left
    <3>2. QED
      BY <1>7, <3>1, HeadOfQueue
  <2>3. head \in Users /\ left[head].status = "WAITLISTED"
    BY <2>2 DEF UsersWith
  <2> HIDE DEF head
  <2>4. Overlay(rows, [writes EXCEPT ![head] = Promoted]) = [left EXCEPT ![head] = Promoted]
    <3>1. ASSUME NEW wr \in [Users -> RsvpRow \cup {Same}], NEW h \in Users
          PROVE  Overlay(rows, [wr EXCEPT ![h] = Promoted]) =
                   [Overlay(rows, wr) EXCEPT ![h] = Promoted]
      <4>1. Promoted \in RsvpRow
        BY RowsWritten
      <4> HIDE DEF writes, left, c, ev1
      <4>2. QED
        BY <4>1, Sentinels DEF Overlay
    <3> HIDE DEF writes, left
    <3>2. QED
      BY <1>1, <2>3, <3>1
  <2>5. ev1.confirmedCount = c - 1 /\ ev1.capacity = ev.capacity
    BY DEF EventRow
  <2>6. Places(left[head]) = 0
    BY <2>3 DEF Places
  <2>7. c = ev1.confirmedCount + Places(Promoted) - Places(left[head])
    BY <1>2, <2>5, <2>6, RowsWritten
  <2>8. [ev1 EXCEPT !.confirmedCount = c] = [ev EXCEPT !.confirmedCount = @ + 0]
    <3>1. ev.confirmedCount + 0 = c
      BY <1>2
    <3>2. [ev EXCEPT !.confirmedCount = @ + 0] = [ev EXCEPT !.confirmedCount = c]
      BY <3>1
    <3> HIDE DEF c
    <3>3. [[ev EXCEPT !.confirmedCount = c - 1] EXCEPT !.confirmedCount = c] =
            [ev EXCEPT !.confirmedCount = c]
      BY DEF EventRow
    <3>4. QED
      BY <3>2, <3>3
  <2> HIDE DEF left, ev1, c
  <2>9. Balanced([ev1 EXCEPT !.confirmedCount = c], [left EXCEPT ![head] = Promoted])
    BY <1>2, <1>3, <1>4, <1>5, <2>3, <2>5, <2>7, RowsWritten, BalancedWrite
  <2>10. QED
    BY <2>1, <2>4, <2>8, <2>9
<1>8. QED
  BY <1>6, <1>7

(* An accepted PATCH. *)
LEMMA UpdateBalanced ==
  ASSUME NEW ev \in EventRow, NEW rows \in [Users -> RsvpRow], Balanced(ev, rows),
         NEW p \in Patch,
         p.capacity \in {Keep, Unlimited} \/ ~(p.capacity < ev.confirmedCount),
         CoherentTimes(ev, p)
  PROVE  Balanced([Patched(ev, p) EXCEPT !.confirmedCount = @ + 0],
                  Overlay(rows, NoWork.rows))
<1> DEFINE ev2 == [Patched(ev, p) EXCEPT !.confirmedCount = @ + 0]
<1>1. ev.confirmedCount \in Int /\ p.capacity \in Capacities \cup {Unlimited, Keep}
  BY DEF EventRow, Patch
<1>2. /\ ev2.confirmedCount = ev.confirmedCount
      /\ ev2.capacity = IF p.capacity = Keep THEN ev.capacity ELSE p.capacity
      /\ ev2.endsAt > ev2.startsAt
  BY <1>1 DEF Patched, CoherentTimes
<1>3. ev2.capacity # Unlimited => ev2.capacity > 0 /\ ev2.confirmedCount <= ev2.capacity
  <2>1. CASE p.capacity = Keep
    BY <1>2, <2>1 DEF Balanced, ConstraintsHold
  <2>2. CASE p.capacity # Keep
    BY <1>1, <1>2, <2>2, Parameters
  <2>3. QED
    BY <2>1, <2>2
<1> HIDE DEF ev2
<1>4. Balanced(ev2, rows)
  BY <1>2, <1>3 DEF Balanced, ConstraintsHold
<1>5. QED
  BY <1>4, NoWrites DEF ev2

-----------------------------------------------------------------------------
(* The invariant. *)

Pending == {"record", "commit"}

(* Only an UPDATE carries a patch, so the other commits leave the terms.   *)
LEMMA OnlyUpdatePatches ==
  ASSUME TypeOK, NEW r \in Requests, call[r] # Nothing, call[r].op # "update",
         NEW ev \in EventRow
  PROVE  Patched(ev, call[r].patch) = ev
<1>1. call[r].patch = NoPatch
  BY Parameters DEF TypeOK
<1>2. Patched(ev, NoPatch) = ev
  BY DEF Patched, NoPatch, EventRow
<1>3. QED
  BY <1>1, <1>2

(* What a transaction has just written is balanced. *)
LEMMA WritesBalanced ==
  ASSUME Isolation, Accounts, NEW r \in Requests, pc[r] = "work",
         DecideJoin(r) \/ DecideLeave(r) \/ DecideUpdate(r),
         pc'[r] \in Pending
  PROVE  Balanced(EventAfter(r), RowsAfter(r))'
<1> DEFINE e == call[r].event
           u == call[r].user
           ev == event[e]
           rows == rsvp[e]
<1>1. call[r] # Nothing
  BY DEF Isolation, CallMade
<1>2. e \in Events /\ u \in Users /\ call[r].patch \in Patch
  BY <1>1, CallType DEF Isolation
<1>3. seen[r] = ev /\ ev \in EventRow /\ rows \in [Users -> RsvpRow]
  BY <1>2 DEF Isolation, SeenIsCurrent, TypeOK, InTransaction
<1>4. Balanced(ev, rows)
  BY <1>2, <1>3, Sentinels DEF Accounts
<1>5. ASSUME NEW code, Reject(r, code)
      PROVE  FALSE
  <2>1. pc' = [pc EXCEPT ![r] = IF Keyed(call[r]) THEN "lookAgain" ELSE "done"]
    BY <1>5 DEF Reject, Throw
  <2>2. pc'[r] \in {"lookAgain", "done"}
    BY <2>1 DEF Isolation, TypeOK
  <2>3. QED
    BY <2>2 DEF Pending
<1>6. ASSUME NEW w, Write(r, w)
      PROVE  /\ EventAfter(r)' =
                  [Patched(ev, call[r].patch) EXCEPT !.confirmedCount = @ + w.delta]
             /\ RowsAfter(r)' = Overlay(rows, w.rows)
  <2>1. work'[r] = w /\ call' = call /\ event' = event /\ rsvp' = rsvp
    BY <1>6 DEF Write, tables, Isolation, TypeOK
  <2>2. QED
    BY <2>1 DEF EventAfter, RowsAfter
<1>7. CASE DecideJoin(r)
  <2> DEFINE t == Clock(call[r].inst)
             row == JoinedRow(ev, t)
             delta == IF row.status = "CONFIRMED" THEN 1 ELSE 0
             writes == [NoWork.rows EXCEPT ![u] = row]
  <2>1. JoinRefusal(ev, rows[u], t) = "OK" /\ ~Active(rows[u])
    BY <1>3, <1>5, <1>7 DEF DecideJoin, JoinRefusal
  <2>2. PICK w : Write(r, w) /\ w.rows = writes /\ w.delta = delta
    BY <1>3, <1>5, <1>7 DEF DecideJoin
  <2>3. t \in Nat
    BY <1>1, CallType, Parameters DEF Clock, Isolation, TypeOK
  <2>4. call[r].op # "update"
    BY <1>7 DEF DecideJoin
  <2>5. Patched(ev, call[r].patch) = ev
    BY <1>1, <1>3, <2>4, OnlyUpdatePatches DEF Isolation
  <2>6. Balanced([ev EXCEPT !.confirmedCount = @ + delta], Overlay(rows, writes))
    BY <1>2, <1>3, <1>4, <2>1, <2>3, JoinBalanced
  <2>7. QED
    BY <1>6, <2>2, <2>5, <2>6
<1>8. CASE DecideLeave(r)
  <2> DEFINE writes == [NoWork.rows EXCEPT ![u] = Cancelled]
  <2>1. Patched(ev, call[r].patch) = ev
    BY <1>1, <1>3, <1>8, OnlyUpdatePatches DEF Isolation, DecideLeave
  <2>2. CASE rows[u].status = "WAITLISTED"
    <3>1. Write(r, [NoWork EXCEPT !.rows = writes])
      BY <1>5, <1>8, <2>2 DEF DecideLeave, Cancelled
    <3>2. /\ [NoWork EXCEPT !.rows = writes].rows = writes
          /\ [NoWork EXCEPT !.rows = writes].delta = 0
      BY DEF NoWork
    <3>3. Balanced([ev EXCEPT !.confirmedCount = @ + 0], Overlay(rows, writes))
      BY <1>2, <1>3, <1>4, <2>2, LeaveQueueBalanced
    <3>4. QED
      BY <1>6, <2>1, <3>1, <3>2, <3>3
  <2>3. CASE rows[u].status = "CONFIRMED"
    <3>1. Write(r, Promote(ev, rows, writes))
      BY <1>3, <1>5, <1>8, <2>3 DEF DecideLeave, Cancelled
    <3>2. Balanced([ev EXCEPT !.confirmedCount = @ + Promote(ev, rows, writes).delta],
                   Overlay(rows, Promote(ev, rows, writes).rows))
      BY <1>2, <1>3, <1>4, <2>3, LeavePlaceBalanced
    <3>3. QED
      BY <1>6, <2>1, <3>1, <3>2
  <2>4. QED
    BY <1>5, <1>8, <2>2, <2>3 DEF DecideLeave
<1>9. CASE DecideUpdate(r)
  <2>1. /\ Write(r, NoWork)
        /\ CoherentTimes(ev, call[r].patch)
        /\ \/ call[r].patch.capacity \in {Keep, Unlimited}
           \/ ~(call[r].patch.capacity < ev.confirmedCount)
    BY <1>3, <1>5, <1>9 DEF DecideUpdate
  <2>2. Balanced([Patched(ev, call[r].patch) EXCEPT !.confirmedCount = @ + 0],
                 Overlay(rows, NoWork.rows))
    BY <1>2, <1>3, <1>4, <2>1, UpdateBalanced
  <2>3. NoWork.delta = 0
    BY DEF NoWork
  <2>4. QED
    BY <1>6, <2>1, <2>2, <2>3
<1>10. QED
  BY <1>7, <1>8, <1>9

(* Accounts survives a step that changes no table and starts no new commit. *)
LEMMA QuietStep ==
  ASSUME Accounts, UNCHANGED <<event, rsvp>>,
         \A q \in Requests : pc'[q] \in Pending =>
            pc[q] \in Pending /\ call'[q] = call[q] /\ work'[q] = work[q]
  PROVE  Accounts'
<1>1. \A e \in Events : event'[e] # Gone => Balanced(event'[e], rsvp'[e])
  BY DEF Accounts
<1>2. ASSUME NEW q \in Requests, pc'[q] \in Pending
      PROVE  Balanced(EventAfter(q), RowsAfter(q))'
  <2>1. Balanced(EventAfter(q), RowsAfter(q))
    BY <1>2 DEF Accounts, Pending
  <2>2. EventAfter(q)' = EventAfter(q) /\ RowsAfter(q)' = RowsAfter(q)
    BY <1>2 DEF EventAfter, RowsAfter
  <2>3. QED
    BY <2>1, <2>2 DEF Balanced, UsersWith, ConstraintsHold
<1>3. QED
  BY <1>1, <1>2 DEF Accounts, Pending, Balanced, UsersWith, ConstraintsHold

LEMMA AccountsStep ==
  ASSUME Isolation, Accounts, [Next]_vars
  PROVE  Accounts'
<1>1. Isolation'
  BY IsolationStep
<1>2. TypeOK
  BY DEF Isolation
<1>3. ASSUME NEW r \in Requests, Enters(r)
      PROVE  Accounts'
  <2>1. /\ \A q \in Requests : pc'[q] = IF q = r THEN "work" ELSE pc[q]
        /\ UNCHANGED <<event, rsvp, call, work>>
    BY <1>2, <1>3 DEF Enters, Moves, TypeOK
  <2>2. QED
    BY <2>1, QuietStep DEF Pending
<1>4. ASSUME NEW r \in Requests, WorksIn(r)
      PROVE  Accounts'
  <2>1. /\ \A q \in Requests \ {r} : pc'[q] = pc[q] /\ work'[q] = work[q]
        /\ pc'[r] \in Pending
        /\ UNCHANGED <<event, rsvp, call>>
    BY <1>2, <1>4 DEF WorksIn, Moves, TypeOK, Pending
  <2>2. CASE pc[r] = "record" /\ UNCHANGED work
    BY <2>1, <2>2, QuietStep DEF Pending
  <2>3. CASE pc[r] = "work" /\ (DecideJoin(r) \/ DecideLeave(r) \/ DecideUpdate(r))
    <3>1. \A e \in Events : event'[e] # Gone => Balanced(event[e], rsvp[e])'
      BY <2>1 DEF Accounts, Balanced, UsersWith, ConstraintsHold
    <3>2. Balanced(EventAfter(r), RowsAfter(r))'
      BY <2>1, <2>3, WritesBalanced
    <3>3. ASSUME NEW q \in Requests \ {r}, pc'[q] \in Pending
          PROVE  Balanced(EventAfter(q), RowsAfter(q))'
      <4>1. Balanced(EventAfter(q), RowsAfter(q))
        BY <2>1, <3>3 DEF Accounts, Pending
      <4>2. EventAfter(q)' = EventAfter(q) /\ RowsAfter(q)' = RowsAfter(q)
        BY <2>1, <3>3 DEF EventAfter, RowsAfter
      <4>3. QED
        BY <4>1, <4>2 DEF Balanced, UsersWith, ConstraintsHold
    <3>4. QED
      BY <3>1, <3>2, <3>3 DEF Accounts, Pending
  <2>4. QED
    BY <1>4, <2>2, <2>3 DEF WorksIn
<1>5. ASSUME NEW r \in Requests, Ends(r) \/ StaysOut(r)
      PROVE  Accounts'
  <2>1. /\ \A q \in Requests \ {r} : pc'[q] = pc[q] /\ call'[q] = call[q] /\ work'[q] = work[q]
        /\ pc'[r] \notin Pending
    BY <1>2, <1>5 DEF Ends, StaysOut, EndTransaction, MovesOut, Moves, TypeOK, Pending,
                      OutsideTransaction
  <2>2. CASE UNCHANGED <<event, rsvp>>
    BY <2>1, <2>2, QuietStep
  <2> DEFINE e == call[r].event
  <2>3. ASSUME NEW ev, NEW rows,
               event' = [event EXCEPT ![e] = ev], rsvp' = [rsvp EXCEPT ![e] = rows],
               ev # Gone => Balanced(ev, rows),
               lock[e] = Free \/ lock[e] = r
        PROVE  Accounts'
    <3>1. ASSUME NEW f \in Events, event'[f] # Gone
          PROVE  Balanced(event[f], rsvp[f])'
      <4>1. /\ event'[f] = IF f = e THEN ev ELSE event[f]
            /\ rsvp'[f] = IF f = e THEN rows ELSE rsvp[f]
        BY <1>2, <2>3 DEF TypeOK
      <4>2. Balanced(event'[f], rsvp'[f])
        BY <2>3, <3>1, <4>1 DEF Accounts
      <4>3. QED
        BY <4>2 DEF Balanced, UsersWith, ConstraintsHold
    <3>2. ASSUME NEW q \in Requests, pc'[q] \in Pending
          PROVE  Balanced(EventAfter(q), RowsAfter(q))'
      <4>1. q # r /\ pc[q] \in Pending
        BY <2>1, <3>2
      <4>2. call[q].event \in Events
        BY <1>2, <4>1, CallType DEF Isolation, CallMade, Pending
      <4>3. lock[call[q].event] = q /\ q # Free
        BY <4>1, <4>2, Sentinels DEF Isolation, LockHeldByTransaction, InTransaction, Pending
      <4>4. call[q].event # e
        BY <2>3, <4>1, <4>3
      <4>5. /\ event'[call[q].event] = event[call[q].event]
            /\ rsvp'[call[q].event] = rsvp[call[q].event]
        BY <1>2, <2>3, <4>2, <4>4 DEF TypeOK
      <4>6. EventAfter(q)' = EventAfter(q) /\ RowsAfter(q)' = RowsAfter(q)
        BY <2>1, <4>1, <4>5 DEF EventAfter, RowsAfter
      <4>7. Balanced(EventAfter(q), RowsAfter(q))
        BY <4>1 DEF Accounts, Pending
      <4>8. QED
        BY <4>6, <4>7 DEF Balanced, UsersWith, ConstraintsHold
    <3>3. QED
      BY <3>1, <3>2 DEF Accounts, Pending
  <2>4. CASE /\ pc[r] = "commit"
             /\ event' = [event EXCEPT ![e] = EventAfter(r)]
             /\ rsvp' = [rsvp EXCEPT ![e] = RowsAfter(r)]
    <3>1. e \in Events
      BY <1>2, <2>4, CallType DEF Isolation, CallMade
    <3>2. lock[e] = r
      BY <2>4, <3>1 DEF Isolation, LockHeldByTransaction, InTransaction
    <3>3. Balanced(EventAfter(r), RowsAfter(r))
      BY <2>4 DEF Accounts
    <3>4. QED
      BY <2>3, <2>4, <3>2, <3>3
  <2>5. CASE /\ lock[e] = Free
             /\ event' = [event EXCEPT ![e] = Gone]
             /\ rsvp' = [rsvp EXCEPT ![e] = [u \in Users |-> NoRow]]
    BY <2>3, <2>5
  <2>6. QED
    BY <1>5, <2>2, <2>4, <2>5 DEF Ends, StaysOut
<1>6. CASE UNCHANGED <<event, rsvp, lock, call, pc, seen, work>>
  BY <1>6, QuietStep
<1>7. QED
  BY <1>3, <1>4, <1>5, <1>6, StepShape

LEMMA AccountsInit ==
  ASSUME Init
  PROVE  Accounts
<1> SUFFICES ASSUME NEW e \in Events
             PROVE  Balanced(event[e], rsvp[e])
  BY DEF Init, Accounts
<1>1. /\ event[e] \in EventRow /\ event[e].confirmedCount = 0
      /\ event[e].endsAt > event[e].startsAt
  BY Parameters DEF Init
<1>2. rsvp[e] = [u \in Users |-> NoRow]
  BY DEF Init
<1>3. UsersWith(rsvp[e], "CONFIRMED") = {}
  BY <1>2 DEF UsersWith, NoRow
<1>4. event[e].capacity # Unlimited => event[e].capacity \in Nat \ {0}
  BY <1>1, Parameters DEF EventRow
<1>5. \A u \in Users : rsvp[e][u].queuedAt # NotQueued <=> rsvp[e][u].status = "WAITLISTED"
  BY <1>2 DEF NoRow
<1>6. event[e].confirmedCount = Cardinality(UsersWith(rsvp[e], "CONFIRMED"))
  BY <1>1, <1>3, FS_EmptySet
<1>7. ConstraintsHold(event[e], rsvp[e])
  BY <1>1, <1>4, <1>5 DEF ConstraintsHold
<1>8. QED
  BY <1>6, <1>7 DEF Balanced

LEMMA AccountsInvariant == Spec => [](Isolation /\ Accounts)
<1>1. Init => Isolation /\ Accounts
  BY IsolationInit, AccountsInit
<1>2. Isolation /\ Accounts /\ [Next]_vars => (Isolation /\ Accounts)'
  BY IsolationStep, AccountsStep
<1>3. QED
  BY <1>1, <1>2, PTL DEF Spec

(* The denormalised counter of an event is the number of its CONFIRMED     *)
(* rows in every committed state.                                          *)
THEOREM CounterCorrect == Spec => []CounterMatchesRows
<1>1. Accounts => CounterMatchesRows
  BY DEF Accounts, Balanced, CounterMatchesRows, Confirmed
<1>2. QED
  BY <1>1, AccountsInvariant, PTL

(* No event ever has more CONFIRMED rows than places. *)
THEOREM NeverOversubscribed == Spec => []CapacityNeverExceeded
<1>1. Accounts => CapacityNeverExceeded
  BY DEF Accounts, Balanced, ConstraintsHold, CapacityNeverExceeded, Confirmed
<1>2. QED
  BY <1>1, AccountsInvariant, PTL

(* No write of the service would violate a CHECK constraint. *)
THEOREM ChecksNeverFire == Spec => []ConstraintsNeverNeeded
<1>1. Accounts => ConstraintsNeverNeeded
  BY DEF Accounts, Balanced, ConstraintsNeverNeeded
<1>2. QED
  BY <1>1, AccountsInvariant, PTL

-----------------------------------------------------------------------------
(* Whoever waits has a time in the queue, on events that are gone too:     *)
(* their rows went with them.                                              *)
WaitersAreTimed ==
  \A e \in Events : \A u \in UsersWith(rsvp[e], "WAITLISTED") : rsvp[e][u].queuedAt \in Nat

LEMMA TimedStep ==
  ASSUME Isolation, Accounts, WaitersAreTimed, [Next]_vars
  PROVE  WaitersAreTimed'
<1>1. TypeOK /\ TypeOK'
  BY IsolationStep DEF Isolation
<1>2. CASE UNCHANGED rsvp
  BY <1>2 DEF WaitersAreTimed, UsersWith
<1>3. ASSUME NEW r \in Requests, NEW e, NEW rows, rsvp' = [rsvp EXCEPT ![e] = rows],
             \A u \in Users : rows[u].status = "WAITLISTED" => rows[u].queuedAt # NotQueued
      PROVE  WaitersAreTimed'
  <2> SUFFICES ASSUME NEW f \in Events, NEW u \in Users, rsvp'[f][u].status = "WAITLISTED"
               PROVE  rsvp'[f][u].queuedAt \in Nat
    BY DEF WaitersAreTimed, UsersWith
  <2>1. rsvp'[f] = IF f = e THEN rows ELSE rsvp[f]
    BY <1>1, <1>3 DEF TypeOK
  <2>2. rsvp'[f][u] \in RsvpRow
    BY <1>1 DEF TypeOK
  <2>3. CASE f = e
    <3>1. rsvp'[f][u].queuedAt # NotQueued
      BY <1>3, <2>1, <2>3
    <3>2. QED
      BY <2>2, <3>1 DEF RsvpRow
  <2>4. CASE f # e
    BY <2>1, <2>4 DEF WaitersAreTimed, UsersWith
  <2>5. QED
    BY <2>3, <2>4
<1>4. ASSUME NEW r \in Requests, pc[r] = "commit",
             rsvp' = [rsvp EXCEPT ![call[r].event] = RowsAfter(r)]
      PROVE  WaitersAreTimed'
  <2>1. Balanced(EventAfter(r), RowsAfter(r))
    BY <1>4 DEF Accounts
  <2>2. QED
    BY <1>3, <1>4, <2>1 DEF Balanced, ConstraintsHold
<1>5. ASSUME NEW r \in Requests, rsvp' = [rsvp EXCEPT ![call[r].event] = [u \in Users |-> NoRow]]
      PROVE  WaitersAreTimed'
  <2>1. PICK rows : rows = [u \in Users |-> NoRow]
    OBVIOUS
  <2>2. \A u \in Users : rows[u].status # "WAITLISTED"
    BY <2>1 DEF NoRow
  <2>3. QED
    BY <1>3, <1>5, <2>1, <2>2
<1>6. QED
  BY <1>2, <1>4, <1>5, StepShape DEF Enters, WorksIn, Ends, StaysOut

LEMMA TimedInvariant == Spec => []WaitersAreTimed
<1>1. Init => WaitersAreTimed
  BY DEF Init, WaitersAreTimed, UsersWith, NoRow
<1>2. Isolation /\ Accounts /\ WaitersAreTimed /\ [Next]_vars => WaitersAreTimed'
  BY TimedStep
<1>3. QED
  BY <1>1, <1>2, AccountsInvariant, PTL DEF Spec
=============================================================================
