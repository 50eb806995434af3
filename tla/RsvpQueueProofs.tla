--------------------------- MODULE RsvpQueueProofs --------------------------
(***************************************************************************)
(* Proofs that RsvpService keeps the queue fair and implements RsvpBook.   *)
(* What a pending commit would do to the tables is one of five changes,    *)
(* each decided on the rows as they still are: that is the inductive       *)
(* invariant.  From it follow the properties of single commits, and each   *)
(* change is one step of the book.                                         *)
(***************************************************************************)
EXTENDS RsvpServiceProofs

(* From an event row and its RSVP rows to those a commit leaves. *)

Joins(u, ev, rows, ev2, rows2) ==
  /\ ev.status = "PUBLISHED"
  /\ ~Active(rows[u])
  /\ HasRoom(ev) \/ ev.waitlistEnabled
  /\ \E t \in ApiClocks :
       /\ t < ev.endsAt
       /\ rows2 = [rows EXCEPT ![u] = JoinedRow(ev, t)]
  /\ ev2 = [ev EXCEPT !.confirmedCount = IF HasRoom(ev) THEN @ + 1 ELSE @]

LeavesQueue(u, ev, rows, ev2, rows2) ==
  /\ rows[u].status = "WAITLISTED"
  /\ rows2 = [rows EXCEPT ![u] = Cancelled]
  /\ ev2 = ev

LeavesPlace(u, ev, rows, ev2, rows2) ==
  /\ rows[u].status = "CONFIRMED"
  /\ UsersWith(rows, "WAITLISTED") = {} \/ ev.capacity = Unlimited
  /\ rows2 = [rows EXCEPT ![u] = Cancelled]
  /\ ev2 = [ev EXCEPT !.confirmedCount = @ - 1]

HandsOver(u, ev, rows, ev2, rows2) ==
  /\ rows[u].status = "CONFIRMED"
  /\ ev.capacity # Unlimited
  /\ \E w \in UsersWith(rows, "WAITLISTED") :
       /\ \A v \in UsersWith(rows, "WAITLISTED") \ {w} : AheadOf(rows, w, v)
       /\ rows2 = [[rows EXCEPT ![u] = Cancelled] EXCEPT ![w] = Promoted]
  /\ ev2 = ev

Repatches(p, ev, rows, ev2, rows2) ==
  /\ rows2 = rows
  /\ CoherentTimes(ev, p)
  /\ p.capacity \in {Keep, Unlimited} \/ ev.confirmedCount <= p.capacity
  /\ ev2 = Patched(ev, p)

Changes(c, ev, rows, ev2, rows2) ==
  \/ c.op = "join" /\ Joins(c.user, ev, rows, ev2, rows2)
  \/ c.op = "leave" /\ LeavesQueue(c.user, ev, rows, ev2, rows2)
  \/ c.op = "leave" /\ LeavesPlace(c.user, ev, rows, ev2, rows2)
  \/ c.op = "leave" /\ HandsOver(c.user, ev, rows, ev2, rows2)
  \/ c.op = "update" /\ Repatches(c.patch, ev, rows, ev2, rows2)

(* A decision stays what it was when it was taken: the rows it was taken   *)
(* on are locked until it commits.                                         *)
Decided ==
  \A r \in Requests :
    pc[r] \in Pending =>
      LET e == call[r].event
      IN  Changes(call[r], event[e], rsvp[e], EventAfter(r), RowsAfter(r))

NowInRange == now \in 0..MaxTime

Justified == Isolation /\ Accounts /\ NowInRange /\ Decided

-----------------------------------------------------------------------------
(* What a step does to the tables and to the pending commits. *)

(* A step leaves the events and their RSVPs alone, or commits one request, *)
(* or deletes one event.                                                   *)
LEMMA TablesStep ==
  ASSUME Isolation, [Next]_vars
  PROVE  \/ UNCHANGED <<event, rsvp>>
         \/ \E r \in Requests :
              LET e == call[r].event
              IN  /\ pc[r] = "commit" /\ pc'[r] # "commit"
                  /\ e \in Events /\ event[e] \in EventRow
                  /\ event' = [event EXCEPT ![e] = EventAfter(r)]
                  /\ rsvp' = [rsvp EXCEPT ![e] = RowsAfter(r)]
         \/ \E e \in Events :
              /\ event' = [event EXCEPT ![e] = Gone]
              /\ rsvp' = [rsvp EXCEPT ![e] = [u \in Users |-> NoRow]]
<1> USE DEF Isolation
<1>1. ASSUME NEW r \in Requests, Enters(r) \/ WorksIn(r)
      PROVE  UNCHANGED <<event, rsvp>>
  BY <1>1 DEF Enters, WorksIn
<1>2. ASSUME NEW r \in Requests, Ends(r), ~UNCHANGED <<event, rsvp>>
      PROVE  LET e == call[r].event
             IN  /\ pc[r] = "commit" /\ pc'[r] # "commit"
                 /\ e \in Events /\ event[e] \in EventRow
                 /\ event' = [event EXCEPT ![e] = EventAfter(r)]
                 /\ rsvp' = [rsvp EXCEPT ![e] = RowsAfter(r)]
  <2>1. /\ pc[r] = "commit"
        /\ event' = [event EXCEPT ![call[r].event] = EventAfter(r)]
        /\ rsvp' = [rsvp EXCEPT ![call[r].event] = RowsAfter(r)]
    BY <1>2 DEF Ends
  <2>2. pc'[r] # "commit"
    BY <1>2 DEF Ends, MovesOut, Moves, OutsideTransaction, TypeOK
  <2>3. call[r].event \in Events
    BY <2>1, CallType DEF CallMade
  <2>4. event[call[r].event] # Gone
    BY <2>1 DEF SeenIsCurrent, InTransaction
  <2>5. event[call[r].event] \in EventRow
    BY <2>3, <2>4 DEF TypeOK
  <2>6. QED
    BY <2>1, <2>2, <2>3, <2>5
<1>3. ASSUME NEW r \in Requests, StaysOut(r), ~UNCHANGED <<event, rsvp>>
      PROVE  \E e \in Events :
               /\ event' = [event EXCEPT ![e] = Gone]
               /\ rsvp' = [rsvp EXCEPT ![e] = [u \in Users |-> NoRow]]
  <2>1. /\ event' = [event EXCEPT ![call[r].event] = Gone]
        /\ rsvp' = [rsvp EXCEPT ![call[r].event] = [u \in Users |-> NoRow]]
    BY <1>3 DEF StaysOut
  <2>2. CASE call[r].event \in Events
    BY <2>1, <2>2
  <2>3. CASE call[r].event \notin Events
    <3>1. event' = event /\ rsvp' = rsvp
      BY <2>1, <2>3 DEF TypeOK
    <3>2. QED
      BY <1>3, <3>1
  <2>4. QED
    BY <2>2, <2>3
<1>4. QED
  BY <1>1, <1>2, <1>3, StepShape

(* A request whose commit is pending after a step has just decided, or had *)
(* its commit pending before; either way its call and the rows of its      *)
(* event are what they were, and in the second case so are its writes.     *)
LEMMA PendingStep ==
  ASSUME Isolation, [Next]_vars, NEW q \in Requests, pc'[q] \in Pending
  PROVE  /\ call'[q] = call[q]
         /\ event'[call[q].event] = event[call[q].event]
         /\ rsvp'[call[q].event] = rsvp[call[q].event]
         /\ \/ pc[q] = "work" /\ (DecideJoin(q) \/ DecideLeave(q) \/ DecideUpdate(q))
            \/ /\ pc[q] \in Pending
               /\ EventAfter(q)' = EventAfter(q) /\ RowsAfter(q)' = RowsAfter(q)
<1> USE DEF Isolation
<1> DEFINE Frame == /\ call'[q] = call[q]
                    /\ event'[call[q].event] = event[call[q].event]
                    /\ rsvp'[call[q].event] = rsvp[call[q].event]
           Decides == pc[q] = "work" /\ (DecideJoin(q) \/ DecideLeave(q) \/ DecideUpdate(q))
           Waits == pc[q] \in Pending /\ work'[q] = work[q]
<1>1. SUFFICES Frame /\ (Decides \/ Waits)
  BY DEF EventAfter, RowsAfter
<1>2. ASSUME NEW r \in Requests, Enters(r)
      PROVE  Frame /\ Waits
  BY <1>2 DEF Enters, Moves, TypeOK, Pending
<1>3. ASSUME NEW r \in Requests, WorksIn(r)
      PROVE  Frame /\ (Decides \/ Waits)
  BY <1>3 DEF WorksIn, Moves, TypeOK, Pending
<1>4. ASSUME NEW r \in Requests, Ends(r) \/ StaysOut(r)
      PROVE  Frame /\ Waits
  <2>1. /\ \A p \in Requests \ {r} : pc'[p] = pc[p] /\ call'[p] = call[p] /\ work'[p] = work[p]
        /\ pc'[r] \notin Pending
    BY <1>4 DEF Ends, StaysOut, EndTransaction, MovesOut, Moves, TypeOK, Pending,
                OutsideTransaction
  <2>2. q # r /\ pc[q] \in Pending
    BY <2>1
  <2>3. Waits /\ call'[q] = call[q]
    BY <2>1, <2>2
  <2>4. call[q].event \in Events
    BY <2>2, CallType DEF CallMade, Pending
  <2>5. lock[call[q].event] = q /\ q # Free
    BY <2>2, <2>4, Sentinels DEF LockHeldByTransaction, InTransaction, Pending
  <2>6. /\ event'[call[q].event] = event[call[q].event]
        /\ rsvp'[call[q].event] = rsvp[call[q].event]
    <3>1. CASE UNCHANGED <<event, rsvp>>
      BY <3>1
    <3>2. CASE Ends(r) /\ ~UNCHANGED <<event, rsvp>>
      <4>1. /\ pc[r] = "commit"
            /\ event' = [event EXCEPT ![call[r].event] = EventAfter(r)]
            /\ rsvp' = [rsvp EXCEPT ![call[r].event] = RowsAfter(r)]
        BY <3>2 DEF Ends
      <4>2. call[r].event # call[q].event
        BY <2>2, <2>4, <2>5, <4>1 DEF LockHeldByTransaction, InTransaction
      <4>3. QED
        BY <2>4, <4>1, <4>2 DEF TypeOK
    <3>3. CASE StaysOut(r) /\ ~UNCHANGED <<event, rsvp>>
      <4>1. /\ lock[call[r].event] = Free
            /\ event' = [event EXCEPT ![call[r].event] = Gone]
            /\ rsvp' = [rsvp EXCEPT ![call[r].event] = [u \in Users |-> NoRow]]
        BY <3>3 DEF StaysOut
      <4>2. call[r].event # call[q].event
        BY <2>5, <4>1
      <4>3. QED
        BY <2>4, <4>1, <4>2 DEF TypeOK
    <3>4. QED
      BY <1>4, <3>1, <3>2, <3>3
  <2>7. QED
    BY <2>3, <2>6
<1>5. CASE UNCHANGED <<event, rsvp, lock, call, pc, seen, work>>
  BY <1>5
<1>6. QED
  BY <1>2, <1>3, <1>4, <1>5, StepShape

-----------------------------------------------------------------------------
(* The decisions. *)

(* The clock an instance reads is one of the readings. *)
LEMMA ClockReading ==
  ASSUME NowInRange, NEW i \in Instances
  PROVE  Clock(i) \in ApiClocks
BY DEF NowInRange, Clock, ApiClocks

(* promoteNextWaitlisted hands the place over exactly when the event has a *)
(* limit and somebody waits, and then to the head of the queue.            *)
LEMMA PromoteChanges ==
  ASSUME NEW ev \in EventRow, NEW rows \in [Users -> RsvpRow], Balanced(ev, rows),
         NEW u \in Users, rows[u].status = "CONFIRMED"
  PROVE  LET w == Promote(ev, rows, [NoWork.rows EXCEPT ![u] = Cancelled])
             ev2 == [ev EXCEPT !.confirmedCount = @ + w.delta]
             rows2 == Overlay(rows, w.rows)
         IN  LeavesPlace(u, ev, rows, ev2, rows2) \/ HandsOver(u, ev, rows, ev2, rows2)
<1> DEFINE writes == [NoWork.rows EXCEPT ![u] = Cancelled]
           left == [rows EXCEPT ![u] = Cancelled]
           waiting == UsersWith(rows, "WAITLISTED")
           head == NextWaitlisted(left)
<1>1. Overlay(rows, writes) = left /\ writes \in [Users -> RsvpRow \cup {Same}]
  BY RowsWritten, FirstWrite
<1>2. UsersWith(left, "WAITLISTED") = waiting /\ u \notin waiting
  BY DEF UsersWith, Cancelled
<1>3. ev.confirmedCount \in Int /\ ev = [ev EXCEPT !.confirmedCount = @ + 0]
  BY DEF EventRow
<1>4. CASE ev.capacity = Unlimited \/ waiting = {}
  <2>1. Promote(ev, rows, writes) = [rows |-> writes, delta |-> -1, body |-> Nothing]
    BY <1>1, <1>2, <1>4 DEF Promote
  <2>2. ev.confirmedCount + (-1) = ev.confirmedCount - 1
    BY <1>3
  <2> HIDE DEF writes, left, waiting
  <2>3. QED
    BY <1>1, <1>4, <2>1, <2>2 DEF LeavesPlace, waiting, left, writes
<1>5. CASE ev.capacity # Unlimited /\ waiting # {}
  <2>1. Promote(ev, rows, writes) =
          [rows |-> [writes EXCEPT ![head] = Promoted], delta |-> 0, body |-> Nothing]
    BY <1>1, <1>2, <1>5 DEF Promote, Promoted
  <2>2. \A v \in waiting : rows[v].queuedAt \in Nat /\ left[v] = rows[v]
    <3> SUFFICES ASSUME NEW v \in waiting
                 PROVE  rows[v].queuedAt \in Nat /\ left[v] = rows[v]
      OBVIOUS
    <3>1. v \in Users /\ rows[v].status = "WAITLISTED" /\ rows[v] \in RsvpRow /\ v # u
      BY DEF UsersWith
    <3>2. rows[v].queuedAt # NotQueued
      BY <3>1 DEF Balanced, ConstraintsHold
    <3>3. QED
      BY <3>1, <3>2 DEF RsvpRow
  <2>3. /\ head \in waiting
        /\ \A v \in waiting \ {head} : AheadOf(left, head, v)
    <3>1. \A v \in UsersWith(left, "WAITLISTED") : left[v].queuedAt \in Nat
      BY <1>2, <2>2
    <3> HIDE DEF left, waiting
    <3>2. QED
      BY <1>2, <1>5, <3>1, HeadOfQueue
  <2> HIDE DEF head
  <2>4. \A v \in waiting \ {head} : AheadOf(rows, head, v)
    BY <2>2, <2>3 DEF AheadOf
  <2>5. head \in Users
    BY <2>3 DEF UsersWith
  <2>6. Overlay(rows, [writes EXCEPT ![head] = Promoted]) = [left EXCEPT ![head] = Promoted]
    <3>1. ASSUME NEW wr \in [Users -> RsvpRow \cup {Same}], NEW h \in Users
          PROVE  Overlay(rows, [wr EXCEPT ![h] = Promoted]) =
                   [Overlay(rows, wr) EXCEPT ![h] = Promoted]
      <4>1. Promoted \in RsvpRow
        BY RowsWritten
      <4> HIDE DEF writes, left
      <4>2. QED
        BY <4>1, Sentinels DEF Overlay
    <3> HIDE DEF writes, left
    <3>2. QED
      BY <1>1, <2>5, <3>1
  <2> HIDE DEF waiting
  <2>7. HandsOver(u, ev, rows, ev, [left EXCEPT ![head] = Promoted])
    BY <1>5, <2>3, <2>4 DEF HandsOver, waiting
  <2> HIDE DEF left, writes
  <2>8. QED
    BY <1>3, <2>1, <2>6, <2>7 DEF writes
<1>6. QED
  BY <1>4, <1>5

(* What a transaction has just written is one of the five changes. *)
LEMMA DecisionChanges ==
  ASSUME Justified, NEW r \in Requests, pc[r] = "work",
         DecideJoin(r) \/ DecideLeave(r) \/ DecideUpdate(r),
         pc'[r] \in Pending
  PROVE  LET e == call[r].event
         IN  Changes(call[r], event[e], rsvp[e], EventAfter(r)', RowsAfter(r)')
<1> USE DEF Justified
<1> DEFINE e == call[r].event
           u == call[r].user
           ev == event[e]
           rows == rsvp[e]
<1>1. call[r] # Nothing
  BY DEF Isolation, CallMade
<1>2. e \in Events /\ u \in Users /\ call[r].patch \in Patch /\ call[r].inst \in Instances
  BY <1>1, CallType DEF Isolation
<1>3. seen[r] = ev /\ ev \in EventRow /\ rows \in [Users -> RsvpRow]
  BY <1>2 DEF Isolation, SeenIsCurrent, TypeOK, InTransaction
<1>4. Balanced(ev, rows)
  BY <1>2, <1>3, Sentinels DEF Accounts
<1>5. ASSUME NEW code, Reject(r, code)
      PROVE  FALSE
  <2>1. pc' = [pc EXCEPT ![r] = IF Keyed(call[r]) THEN "lookAgain" ELSE "done"]
    BY <1>5 DEF Reject, Throw
  <2>2. pc'[r] \in {"lookAgain", "done"}
    BY <2>1 DEF Isolation, TypeOK
  <2>3. QED
    BY <2>2 DEF Pending
<1>6. ASSUME NEW w, Write(r, w)
      PROVE  /\ EventAfter(r)' =
                  [Patched(ev, call[r].patch) EXCEPT !.confirmedCount = @ + w.delta]
             /\ RowsAfter(r)' = Overlay(rows, w.rows)
  <2>1. work'[r] = w /\ call' = call /\ event' = event /\ rsvp' = rsvp
    BY <1>6 DEF Write, tables, Isolation, TypeOK
  <2>2. QED
    BY <2>1 DEF EventAfter, RowsAfter
<1>7. CASE DecideJoin(r)
  <2> DEFINE t == Clock(call[r].inst)
             row == JoinedRow(ev, t)
             delta == IF row.status = "CONFIRMED" THEN 1 ELSE 0
             writes == [NoWork.rows EXCEPT ![u] = row]
             ev2 == [ev EXCEPT !.confirmedCount = @ + delta]
  <2>1. JoinRefusal(ev, rows[u], t) = "OK" /\ call[r].op = "join"
    BY <1>3, <1>5, <1>7 DEF DecideJoin
  <2>2. PICK w : Write(r, w) /\ w.rows = writes /\ w.delta = delta
    BY <1>3, <1>5, <1>7 DEF DecideJoin
  <2>3. t \in ApiClocks /\ t \in Nat
    BY <1>2, ClockReading, Parameters DEF Clock, Isolation, TypeOK
  <2>4. /\ ev.status = "PUBLISHED" /\ ~Active(rows[u]) /\ t < ev.endsAt
        /\ HasRoom(ev) \/ ev.waitlistEnabled
    <3>1. ev.endsAt \in Nat
      BY <1>3, Parameters DEF EventRow
    <3>2. QED
      BY <2>1, <2>3, <3>1 DEF JoinRefusal
  <2>5. row \in RsvpRow /\ delta = IF HasRoom(ev) THEN 1 ELSE 0
    BY <2>3 DEF JoinedRow, RsvpRow, RsvpStatus
  <2>6. Overlay(rows, writes) = [rows EXCEPT ![u] = row]
    <3> HIDE DEF row
    <3>1. QED
      BY <1>2, <1>3, <2>5, FirstWrite
  <2>7. ev2 = [ev EXCEPT !.confirmedCount = IF HasRoom(ev) THEN @ + 1 ELSE @]
    <3>1. ev.confirmedCount \in Int
      BY <1>3 DEF EventRow
    <3>2. ev.confirmedCount + delta =
            IF HasRoom(ev) THEN ev.confirmedCount + 1 ELSE ev.confirmedCount
      BY <2>5, <3>1
    <3> HIDE DEF delta
    <3>3. QED
      BY <3>2
  <2>8. Patched(ev, call[r].patch) = ev
    BY <1>1, <1>3, <2>1, OnlyUpdatePatches DEF Isolation
  <2>9. EventAfter(r)' = ev2 /\ RowsAfter(r)' = [rows EXCEPT ![u] = row]
    BY <1>6, <2>2, <2>6, <2>8
  <2> HIDE DEF ev2, delta, writes
  <2>10. Joins(u, ev, rows, ev2, [rows EXCEPT ![u] = row])
    BY <2>3, <2>4, <2>7 DEF Joins
  <2>11. QED
    BY <2>1, <2>9, <2>10 DEF Changes
<1>8. CASE DecideLeave(r)
  <2> DEFINE writes == [NoWork.rows EXCEPT ![u] = Cancelled]
  <2>1. Patched(ev, call[r].patch) = ev /\ call[r].op = "leave"
    BY <1>1, <1>3, <1>8, OnlyUpdatePatches DEF Isolation, DecideLeave
  <2>2. CASE rows[u].status = "WAITLISTED"
    <3>1. PICK w : Write(r, w) /\ w.rows = writes /\ w.delta = 0
      <4>1. Write(r, [NoWork EXCEPT !.rows = writes])
        BY <1>5, <1>8, <2>2 DEF DecideLeave, Cancelled
      <4>2. /\ [NoWork EXCEPT !.rows = writes].rows = writes
            /\ [NoWork EXCEPT !.rows = writes].delta = 0
        BY DEF NoWork
      <4> HIDE DEF writes
      <4>3. QED
        BY <4>1, <4>2
    <3>2. [ev EXCEPT !.confirmedCount = @ + 0] = ev
      BY <1>3 DEF EventRow
    <3>3. Overlay(rows, writes) = [rows EXCEPT ![u] = Cancelled]
      BY <1>2, <1>3, RowsWritten, FirstWrite
    <3>4. EventAfter(r)' = ev /\ RowsAfter(r)' = [rows EXCEPT ![u] = Cancelled]
      BY <1>6, <2>1, <3>1, <3>2, <3>3
    <3>5. QED
      BY <2>1, <2>2, <3>4 DEF Changes, LeavesQueue
  <2>3. CASE rows[u].status = "CONFIRMED"
    <3> DEFINE w == Promote(ev, rows, writes)
    <3>1. Write(r, w)
      BY <1>3, <1>5, <1>8, <2>3 DEF DecideLeave, Cancelled
    <3>2. LET ev2 == [ev EXCEPT !.confirmedCount = @ + w.delta]
              rows2 == Overlay(rows, w.rows)
          IN  LeavesPlace(u, ev, rows, ev2, rows2) \/ HandsOver(u, ev, rows, ev2, rows2)
      BY <1>2, <1>3, <1>4, <2>3, PromoteChanges
    <3> HIDE DEF w
    <3>3. QED
      BY <1>6, <2>1, <3>1, <3>2 DEF Changes
  <2>4. QED
    BY <1>5, <1>8, <2>2, <2>3 DEF DecideLeave
<1>9. CASE DecideUpdate(r)
  <2> DEFINE p == call[r].patch
  <2>1. /\ Write(r, NoWork)
        /\ CoherentTimes(ev, p)
        /\ p.capacity \in {Keep, Unlimited} \/ ~(p.capacity < ev.confirmedCount)
        /\ call[r].op = "update"
    BY <1>3, <1>5, <1>9 DEF DecideUpdate
  <2>2. p.capacity \in {Keep, Unlimited} \/ ev.confirmedCount <= p.capacity
    <3>1. p.capacity \in Nat \cup {Keep, Unlimited} /\ ev.confirmedCount \in Int
      BY <1>2, <1>3, Parameters DEF Patch, EventRow
    <3>2. QED
      BY <2>1, <3>1
  <2>3. [Patched(ev, p) EXCEPT !.confirmedCount = @ + NoWork.delta] = Patched(ev, p)
    <3>1. NoWork.delta = 0
      BY DEF NoWork
    <3>2. Patched(ev, p) \in EventRow
      BY <1>2, <1>3, PatchedType
    <3>3. \A x \in EventRow : [x EXCEPT !.confirmedCount = @ + 0] = x
      BY DEF EventRow
    <3>4. QED
      BY <3>1, <3>2, <3>3
  <2>4. Overlay(rows, NoWork.rows) = rows
    BY <1>3, NoWrites
  <2>5. EventAfter(r)' = Patched(ev, p) /\ RowsAfter(r)' = rows
    BY <1>6, <2>1, <2>3, <2>4
  <2>6. QED
    BY <2>1, <2>2, <2>5 DEF Changes, Repatches
<1>10. QED
  BY <1>7, <1>8, <1>9

-----------------------------------------------------------------------------
(* The invariant. *)

(* Real time moves by one or stands still. *)
LEMMA ClockStep ==
  ASSUME [Next]_vars
  PROVE  now' = now \/ (now < MaxTime /\ now' = now + 1)
<1>1. ASSUME NEW r \in Requests, NEW code, Reject(r, code)
      PROVE  now' = now
  BY <1>1 DEF Reject
<1>2. ASSUME NEW r \in Requests, NEW w, Write(r, w)
      PROVE  now' = now
  BY <1>2 DEF Write
<1>3. ASSUME NEW r \in Requests, Arrive(r) \/ Step(r)
      PROVE  now' = now
  BY <1>1, <1>2, <1>3
  DEF Arrive, Step, Lookup, LookAgain, CheckOwner, LockEvent, DecideJoin, DecideLeave,
      DecideUpdate, Record, Commit, Remove
<1>4. ASSUME NEW r \in Requests, Failure(r)
      PROVE  now' = now
  BY <1>4 DEF Failure, TransactionFails, CommitUnacknowledged, ReadFails, Die
<1>5. QED
  BY <1>3, <1>4 DEF Next, Tick, Rest, vars

LEMMA JustifiedStep ==
  ASSUME Justified, [Next]_vars
  PROVE  Justified'
<1>1. Isolation' /\ Accounts'
  BY IsolationStep, AccountsStep DEF Justified
<1>2. NowInRange'
  BY ClockStep, Parameters DEF Justified, NowInRange
<1>3. ASSUME NEW q \in Requests, pc'[q] \in Pending
      PROVE  (LET e == call[q].event
              IN  Changes(call[q], event[e], rsvp[e], EventAfter(q), RowsAfter(q)))'
  <2> DEFINE e == call[q].event
  <2>1. /\ call'[q] = call[q] /\ event'[e] = event[e] /\ rsvp'[e] = rsvp[e]
        /\ \/ pc[q] = "work" /\ (DecideJoin(q) \/ DecideLeave(q) \/ DecideUpdate(q))
           \/ /\ pc[q] \in Pending
              /\ EventAfter(q)' = EventAfter(q) /\ RowsAfter(q)' = RowsAfter(q)
    BY <1>3, PendingStep DEF Justified
  <2>2. Changes(call[q], event[e], rsvp[e], EventAfter(q)', RowsAfter(q)')
    <3>1. CASE pc[q] = "work" /\ (DecideJoin(q) \/ DecideLeave(q) \/ DecideUpdate(q))
      BY <1>3, <3>1, DecisionChanges
    <3>2. CASE /\ pc[q] \in Pending
               /\ EventAfter(q)' = EventAfter(q) /\ RowsAfter(q)' = RowsAfter(q)
      BY <3>2 DEF Justified, Decided
    <3>3. QED
      BY <2>1, <3>1, <3>2
  <2>3. Changes(call'[q], event'[call'[q].event], rsvp'[call'[q].event],
                EventAfter(q)', RowsAfter(q)')
    BY <2>1, <2>2
  <2>4. QED
    BY <2>3 DEF Changes, Joins, LeavesQueue, LeavesPlace, HandsOver, Repatches,
                UsersWith, AheadOf, JoinedRow, HasRoom, Patched, CoherentTimes, Active
<1>4. Decided'
  BY <1>3 DEF Decided
<1>5. QED
  BY <1>1, <1>2, <1>4 DEF Justified

LEMMA JustifiedInvariant == Spec => []Justified
<1>1. Init => Justified
  <2>1. Init => NowInRange /\ Decided
    BY Parameters DEF Init, NowInRange, Decided, Pending
  <2>2. QED
    BY <2>1, IsolationInit, AccountsInit DEF Justified
<1>2. Justified /\ [Next]_vars => Justified'
  BY JustifiedStep
<1>3. QED
  BY <1>1, <1>2, PTL DEF Spec

-----------------------------------------------------------------------------
(* What one commit may do. *)

(* Seen from one event, a step is nothing, one of the five changes, or the *)
(* end of the event.                                                       *)
LEMMA EventStep ==
  ASSUME Justified, [Next]_vars, NEW e \in Events
  PROVE  \/ event'[e] = event[e] /\ rsvp'[e] = rsvp[e]
         \/ \E r \in Requests :
              /\ pc[r] = "commit" /\ pc'[r] # "commit"
              /\ call[r].event = e /\ call[r].user \in Users /\ call[r].patch \in Patch
              /\ event[e] \in EventRow /\ event'[e] # Gone
              /\ Changes(call[r], event[e], rsvp[e], event'[e], rsvp'[e])
         \/ event'[e] = Gone /\ rsvp'[e] = [u \in Users |-> NoRow]
<1> USE DEF Justified, Isolation
<1>1. CASE UNCHANGED <<event, rsvp>>
  BY <1>1
<1>2. ASSUME NEW r \in Requests,
             pc[r] = "commit" /\ pc'[r] # "commit",
             call[r].event \in Events /\ event[call[r].event] \in EventRow,
             event' = [event EXCEPT ![call[r].event] = EventAfter(r)],
             rsvp' = [rsvp EXCEPT ![call[r].event] = RowsAfter(r)]
      PROVE  \/ event'[e] = event[e] /\ rsvp'[e] = rsvp[e]
             \/ /\ call[r].event = e /\ call[r].user \in Users /\ call[r].patch \in Patch
                /\ event[e] \in EventRow /\ event'[e] # Gone
                /\ Changes(call[r], event[e], rsvp[e], event'[e], rsvp'[e])
  <2>1. call[r].user \in Users /\ call[r].patch \in Patch
    BY <1>2, CallType DEF CallMade
  <2>2. Changes(call[r], event[call[r].event], rsvp[call[r].event], EventAfter(r), RowsAfter(r))
    BY <1>2 DEF Decided, Pending
  <2>3. CASE call[r].event # e
    BY <1>2, <2>3 DEF TypeOK
  <2>4. CASE call[r].event = e
    <3>1. event'[e] = EventAfter(r) /\ rsvp'[e] = RowsAfter(r)
      BY <1>2, <2>4 DEF TypeOK
    <3>2. EventAfter(r) # Gone
      <4>1. Patched(event[e], call[r].patch) \in EventRow
        BY <1>2, <2>1, <2>4, PatchedType
      <4>2. work[r].delta \in Int
        BY DEF TypeOK, Work
      <4>3. EventAfter(r) \in EventRow
        BY <2>4, <4>1, <4>2 DEF EventAfter, EventRow
      <4>4. QED
        BY <4>3, Sentinels
    <3>3. QED
      BY <1>2, <2>1, <2>2, <2>4, <3>1, <3>2
  <2>5. QED
    BY <2>3, <2>4
<1>3. ASSUME NEW f \in Events,
             event' = [event EXCEPT ![f] = Gone],
             rsvp' = [rsvp EXCEPT ![f] = [u \in Users |-> NoRow]]
      PROVE  \/ event'[e] = event[e] /\ rsvp'[e] = rsvp[e]
             \/ event'[e] = Gone /\ rsvp'[e] = [u \in Users |-> NoRow]
  BY <1>3 DEF TypeOK
<1>4. QED
  BY <1>1, <1>2, <1>3, TablesStep

(* No change but an organiser's leaves a free place beside somebody who    *)
(* waits unless there was one before.                                      *)
LEMMA PlacesStayTaken ==
  ASSUME NEW ev \in EventRow, NEW rows \in [Users -> RsvpRow], NEW c, c.user \in Users,
         NEW ev2, NEW rows2, Changes(c, ev, rows, ev2, rows2), c.op # "update",
         UsersWith(rows2, "WAITLISTED") # {}, HasRoom(ev2)
  PROVE  UsersWith(rows, "WAITLISTED") # {} /\ HasRoom(ev)
<1> DEFINE u == c.user
<1>1. ev.confirmedCount \in Int /\ (ev.capacity = Unlimited \/ ev.capacity \in Nat)
  BY Parameters DEF EventRow
<1>2. CASE Joins(u, ev, rows, ev2, rows2)
  <2>1. HasRoom(ev)
    BY <1>2 DEF Joins, HasRoom
  <2>2. PICK t \in ApiClocks : rows2 = [rows EXCEPT ![u] = JoinedRow(ev, t)]
    BY <1>2 DEF Joins
  <2>3. rows2[u].status = "CONFIRMED"
    BY <2>1, <2>2 DEF JoinedRow
  <2>4. UsersWith(rows2, "WAITLISTED") \subseteq UsersWith(rows, "WAITLISTED")
    BY <2>2, <2>3 DEF UsersWith
  <2>5. QED
    BY <2>1, <2>4
<1>3. CASE LeavesQueue(u, ev, rows, ev2, rows2)
  BY <1>3 DEF LeavesQueue, UsersWith, Cancelled
<1>4. CASE LeavesPlace(u, ev, rows, ev2, rows2)
  <2>1. UsersWith(rows2, "WAITLISTED") = UsersWith(rows, "WAITLISTED")
    BY <1>4 DEF LeavesPlace, UsersWith, Cancelled
  <2>2. QED
    BY <1>4, <2>1 DEF LeavesPlace, HasRoom
<1>5. CASE HandsOver(u, ev, rows, ev2, rows2)
  <2>1. UsersWith(rows2, "WAITLISTED") \subseteq UsersWith(rows, "WAITLISTED")
    BY <1>5 DEF HandsOver, UsersWith, Cancelled, Promoted
  <2>2. QED
    BY <1>5, <2>1 DEF HandsOver
<1>6. QED
  BY <1>2, <1>3, <1>4, <1>5 DEF Changes

(* Whoever becomes confirmed was ahead of everybody who goes on waiting,   *)
(* or came from outside the queue and found a free place.                  *)
LEMMA NobodyOvertakes ==
  ASSUME NEW ev \in EventRow, NEW rows \in [Users -> RsvpRow], NEW c, c.user \in Users,
         NEW ev2, NEW rows2, Changes(c, ev, rows, ev2, rows2),
         NEW x \in UsersWith(rows, "WAITLISTED") \cap UsersWith(rows2, "WAITLISTED"),
         NEW v \in UsersWith(rows2, "CONFIRMED") \ UsersWith(rows, "CONFIRMED")
  PROVE  IF v \in UsersWith(rows, "WAITLISTED") THEN AheadOf(rows, v, x) ELSE HasRoom(ev)
<1> DEFINE u == c.user
<1>1. CASE Joins(u, ev, rows, ev2, rows2)
  <2>1. PICK t \in ApiClocks : rows2 = [rows EXCEPT ![u] = JoinedRow(ev, t)]
    BY <1>1 DEF Joins
  <2>2. v = u
    BY <2>1 DEF UsersWith
  <2>3. HasRoom(ev)
    BY <2>1, <2>2 DEF UsersWith, JoinedRow
  <2>4. v \notin UsersWith(rows, "WAITLISTED")
    BY <1>1, <2>2 DEF Joins, UsersWith, Active
  <2>5. QED
    BY <2>3, <2>4
<1>2. CASE LeavesQueue(u, ev, rows, ev2, rows2) \/ LeavesPlace(u, ev, rows, ev2, rows2)
  BY <1>2 DEF LeavesQueue, LeavesPlace, UsersWith, Cancelled
<1>3. CASE HandsOver(u, ev, rows, ev2, rows2)
  <2>1. PICK w \in UsersWith(rows, "WAITLISTED") :
          /\ \A y \in UsersWith(rows, "WAITLISTED") \ {w} : AheadOf(rows, w, y)
          /\ rows2 = [[rows EXCEPT ![u] = Cancelled] EXCEPT ![w] = Promoted]
    BY <1>3 DEF HandsOver
  <2>2. v = w /\ x # w
    BY <2>1 DEF UsersWith, Cancelled, Promoted
  <2>3. QED
    BY <2>1, <2>2
<1>4. CASE rows2 = rows
  BY <1>4
<1>5. QED
  BY <1>1, <1>2, <1>3, <1>4 DEF Changes, Repatches

(* Only a join makes a row active that was not, and only of an event that  *)
(* is published.                                                           *)
LEMMA ActiveByJoin ==
  ASSUME NEW ev \in EventRow, NEW rows \in [Users -> RsvpRow], NEW c, c.user \in Users,
         NEW ev2, NEW rows2, Changes(c, ev, rows, ev2, rows2),
         NEW x \in Users, Active(rows2[x]), ~Active(rows[x])
  PROVE  ev.status = "PUBLISHED"
BY DEF Changes, Joins, LeavesQueue, LeavesPlace, HandsOver, Repatches, UsersWith, Active,
       Cancelled, Promoted

(* Joining, leaving, retrying and failing never leave a place idle beside  *)
(* a waitlist; only an organiser's PATCH does.                             *)
THEOREM PlacesAreHandedOver == Spec => IdlePlaceOnlyByUpdate
<1>1. ASSUME Justified, [Next]_vars, NEW e \in Events, IdlePlace(e)', ~IdlePlace(e)
      PROVE  \E r \in Requests : TakesEffect(r) /\ call[r].op = "update"
  <2>1. /\ event'[e] # Gone /\ UsersWith(rsvp'[e], "WAITLISTED") # {} /\ HasRoom(event'[e])
        /\ event[e] = Gone \/ UsersWith(rsvp[e], "WAITLISTED") = {} \/ ~HasRoom(event[e])
    BY <1>1 DEF IdlePlace, Waiting, UsersWith, HasRoom
  <2>2. PICK r \in Requests :
          /\ pc[r] = "commit" /\ pc'[r] # "commit"
          /\ call[r].user \in Users /\ event[e] \in EventRow
          /\ Changes(call[r], event[e], rsvp[e], event'[e], rsvp'[e])
    BY <1>1, <2>1, EventStep
  <2>3. rsvp[e] \in [Users -> RsvpRow] /\ event[e] # Gone
    BY <1>1, <2>2, Sentinels DEF Justified, Isolation, TypeOK
  <2>4. call[r].op = "update"
    BY <2>1, <2>2, <2>3, PlacesStayTaken
  <2>5. tables' # tables
    BY <2>1, <2>3 DEF tables
  <2>6. QED
    BY <2>2, <2>4, <2>5 DEF TakesEffect
<1>2. Justified /\ [Next]_vars =>
        \A e \in Events :
          IdlePlace(e)' /\ ~IdlePlace(e)
            => \E r \in Requests : TakesEffect(r) /\ call[r].op = "update"
  BY <1>1
<1>3. QED
  BY <1>2, JustifiedInvariant, PTL DEF Spec, IdlePlaceOnlyByUpdate

(* Nobody who keeps waiting is overtaken, from behind in the queue or from *)
(* outside it, save into a place an organiser left idle.                   *)
THEOREM QueueIsFair == Spec => QueueOrderKept
<1>1. ASSUME Justified, [Next]_vars, NEW e \in Events,
             NEW u \in Waiting(e) \cap Waiting(e)', NEW v \in Confirmed(e)' \ Confirmed(e)
      PROVE  IF v \in Waiting(e) THEN AheadOf(rsvp[e], v, u) ELSE IdlePlace(e)
  <2> DEFINE rows == rsvp[e]
             rows2 == rsvp'[e]
  <2>1. /\ u \in UsersWith(rows, "WAITLISTED") \cap UsersWith(rows2, "WAITLISTED")
        /\ v \in UsersWith(rows2, "CONFIRMED") \ UsersWith(rows, "CONFIRMED")
    BY <1>1 DEF Waiting, Confirmed, UsersWith
  <2>2. rsvp'[e] # [x \in Users |-> NoRow]
    BY <2>1 DEF UsersWith, NoRow
  <2>3. PICK r \in Requests :
          /\ call[r].user \in Users /\ event[e] \in EventRow
          /\ Changes(call[r], event[e], rsvp[e], event'[e], rsvp'[e])
    BY <1>1, <2>1, <2>2, EventStep
  <2>4. rsvp[e] \in [Users -> RsvpRow] /\ event[e] # Gone
    BY <1>1, <2>3, Sentinels DEF Justified, Isolation, TypeOK
  <2>5. IF v \in UsersWith(rows, "WAITLISTED") THEN AheadOf(rows, v, u) ELSE HasRoom(event[e])
    BY <2>1, <2>3, <2>4, NobodyOvertakes
  <2>6. QED
    BY <2>1, <2>4, <2>5 DEF IdlePlace, Waiting
<1>2. Justified /\ [Next]_vars =>
        \A e \in Events :
          \A u \in Waiting(e) \cap Waiting(e)', v \in Confirmed(e)' \ Confirmed(e) :
            IF v \in Waiting(e) THEN AheadOf(rsvp[e], v, u) ELSE IdlePlace(e)
  BY <1>1
<1>3. QED
  BY <1>2, JustifiedInvariant, PTL DEF Spec, QueueOrderKept

(* Nobody comes onto an event in a state in which it is not published.     *)
THEOREM JoinsArePublished == Spec => JoinOnlyWhilePublished
<1>1. ASSUME Justified, [Next]_vars, NEW e \in Events, NEW u \in Users,
             Active(rsvp[e][u])', ~Active(rsvp[e][u])
      PROVE  event[e].status = "PUBLISHED"
  <2>1. Active(rsvp'[e][u])
    BY <1>1 DEF Active
  <2>2. rsvp'[e] # rsvp[e] /\ rsvp'[e] # [x \in Users |-> NoRow]
    BY <1>1, <2>1 DEF Active, NoRow
  <2>3. PICK r \in Requests :
          /\ call[r].user \in Users /\ event[e] \in EventRow
          /\ Changes(call[r], event[e], rsvp[e], event'[e], rsvp'[e])
    BY <1>1, <2>2, EventStep
  <2>4. rsvp[e] \in [Users -> RsvpRow]
    BY <1>1 DEF Justified, Isolation, TypeOK
  <2>5. QED
    BY <1>1, <2>1, <2>3, <2>4, ActiveByJoin
<1>2. Justified /\ [Next]_vars =>
        \A e \in Events, u \in Users :
          Active(rsvp[e][u])' /\ ~Active(rsvp[e][u]) => event[e].status = "PUBLISHED"
  BY <1>1
<1>3. QED
  BY <1>2, JustifiedInvariant, PTL DEF Spec, JoinOnlyWhilePublished

-----------------------------------------------------------------------------
(* The refinement: each of the five changes is a step of the book. *)

(* The book's entry for an event row and its RSVP rows. *)
EntryOf(ev, rows) ==
  [terms |-> TermsOf(ev), confirmed |-> UsersWith(rows, "CONFIRMED"),
   queue |-> [u \in UsersWith(rows, "WAITLISTED") |-> rows[u].queuedAt]]

(* The book counts as the service does. *)
LEMMA SameCount ==
  ASSUME NEW S
  PROVE  Book!Cardinality(S) = Cardinality(S)
BY DEF Book!Cardinality, Cardinality

(* The counter and the rows say the same about room. *)
LEMMA SameRoom ==
  ASSUME NEW ev \in EventRow, NEW rows, Balanced(ev, rows)
  PROVE  Book!HasRoom(EntryOf(ev, rows)) <=> HasRoom(ev)
<1>1. ev.confirmedCount = Cardinality(UsersWith(rows, "CONFIRMED"))
  BY DEF Balanced
<1>2. ev.confirmedCount \in Int /\ (ev.capacity = Unlimited \/ ev.capacity \in Nat)
  BY Parameters DEF EventRow
<1>3. /\ EntryOf(ev, rows).confirmed = UsersWith(rows, "CONFIRMED")
      /\ EntryOf(ev, rows).terms.capacity = ev.capacity
  BY DEF EntryOf, TermsOf
<1>4. QED
  BY <1>1, <1>2, <1>3, SameCount DEF Book!HasRoom, Book!Fits, HasRoom

(* An entry is never taken for an event that is gone. *)
LEMMA EntryIsThere ==
  ASSUME NEW ev \in EventRow, NEW rows \in [Users -> RsvpRow], Balanced(ev, rows)
  PROVE  EntryOf(ev, rows) # Gone
<1> DEFINE waiting == UsersWith(rows, "WAITLISTED")
           queue == [u \in waiting |-> rows[u].queuedAt]
<1>1. TermsOf(ev) \in Book!Terms
  BY DEF TermsOf, Book!Terms, Book!EventStatus, EventRow, EventStatus
<1>2. UsersWith(rows, "CONFIRMED") \in SUBSET Users /\ waiting \in SUBSET Users
  BY DEF UsersWith
<1>3. ASSUME NEW u \in waiting
      PROVE  rows[u].queuedAt \in Nat
  <2>1. u \in Users /\ rows[u].status = "WAITLISTED" /\ rows[u] \in RsvpRow
    BY DEF UsersWith
  <2>2. rows[u].queuedAt # NotQueued
    BY <2>1 DEF Balanced, ConstraintsHold
  <2>3. QED
    BY <2>1, <2>2 DEF RsvpRow
<1> HIDE DEF waiting
<1>4. queue \in UNION {[S -> Nat] : S \in SUBSET Users}
  <2>1. queue \in [waiting -> Nat]
    BY <1>3
  <2> HIDE DEF queue
  <2>2. QED
    BY <1>2, <2>1
<1> HIDE DEF queue
<1>5. [terms |-> TermsOf(ev), confirmed |-> UsersWith(rows, "CONFIRMED"), queue |-> queue]
        \in Book!Entries
  BY <1>1, <1>2, <1>4 DEF Book!Entries
<1>6. QED
  BY <1>5, GoneIsNoEntry DEF EntryOf, queue, waiting

(* The parts of an entry. *)
LEMMA EntryParts ==
  ASSUME NEW ev, NEW rows
  PROVE  LET b == EntryOf(ev, rows)
             waiting == UsersWith(rows, "WAITLISTED")
         IN  /\ b = [part \in {"terms", "confirmed", "queue"} |-> b[part]]
             /\ b.terms = TermsOf(ev)
             /\ b.confirmed = UsersWith(rows, "CONFIRMED")
             /\ b.queue = [u \in waiting |-> rows[u].queuedAt]
             /\ DOMAIN b.queue = waiting
             /\ \A u \in waiting : b.queue[u] = rows[u].queuedAt
BY DEF EntryOf

(* From an entry to the one a join at time t makes of it. *)
Placed(u, b, b2, t) ==
  \/ /\ Book!HasRoom(b)
     /\ b2.confirmed = b.confirmed \cup {u} /\ b2.queue = b.queue
  \/ /\ ~Book!HasRoom(b) /\ b.terms.waitlistEnabled
     /\ b2.confirmed = b.confirmed
     /\ b2.queue = [v \in DOMAIN b.queue \cup {u} |-> IF v = u THEN t ELSE b.queue[v]]

(* A join: into a free place, or to the end of the queue. *)
LEMMA JoinEntry ==
  ASSUME NEW ev \in EventRow, NEW rows \in [Users -> RsvpRow], Balanced(ev, rows),
         NEW u \in Users, NEW ev2, NEW rows2, Joins(u, ev, rows, ev2, rows2)
  PROVE  LET b == EntryOf(ev, rows)
             b2 == EntryOf(ev2, rows2)
         IN  /\ b.terms.status = "PUBLISHED" /\ b2.terms = b.terms
             /\ u \notin b.confirmed \cup DOMAIN b.queue
             /\ \E t \in ApiClocks : t < b.terms.endsAt /\ Placed(u, b, b2, t)
<1> DEFINE b == EntryOf(ev, rows)
           b2 == EntryOf(ev2, rows2)
           confirmed == UsersWith(rows, "CONFIRMED")
           waiting == UsersWith(rows, "WAITLISTED")
<1>1. PICK t \in ApiClocks : t < ev.endsAt /\ rows2 = [rows EXCEPT ![u] = JoinedRow(ev, t)]
  BY DEF Joins
<1>2. /\ ev.status = "PUBLISHED" /\ ~Active(rows[u])
      /\ HasRoom(ev) \/ ev.waitlistEnabled
      /\ TermsOf(ev2) = TermsOf(ev)
  BY DEF Joins, TermsOf, EventRow
<1>3. u \notin confirmed \cup waiting
  BY <1>2 DEF Active, UsersWith
<1>4. /\ b.terms = TermsOf(ev) /\ b.confirmed = confirmed
      /\ DOMAIN b.queue = waiting /\ b.queue = [v \in waiting |-> rows[v].queuedAt]
      /\ b2.terms = TermsOf(ev) /\ b2.confirmed = UsersWith(rows2, "CONFIRMED")
      /\ b2.queue = [v \in UsersWith(rows2, "WAITLISTED") |-> rows2[v].queuedAt]
  BY <1>2, EntryParts
<1>5. /\ b.terms.status = ev.status /\ b.terms.endsAt = ev.endsAt
      /\ b.terms.waitlistEnabled = ev.waitlistEnabled
  BY <1>4 DEF TermsOf
<1>6. Book!HasRoom(b) <=> HasRoom(ev)
  BY SameRoom
<1> HIDE DEF b, b2
<1>7. CASE HasRoom(ev)
  <2>1. rows2 = [rows EXCEPT ![u] = [status |-> "CONFIRMED", queuedAt |-> NotQueued]]
    BY <1>1, <1>7 DEF JoinedRow
  <2>2. /\ UsersWith(rows2, "CONFIRMED") = confirmed \cup {u}
        /\ UsersWith(rows2, "WAITLISTED") = waiting
        /\ \A v \in waiting : rows2[v].queuedAt = rows[v].queuedAt
    BY <1>3, <2>1 DEF UsersWith
  <2> HIDE DEF confirmed, waiting
  <2>3. b2.confirmed = b.confirmed \cup {u} /\ b2.queue = b.queue
    BY <1>4, <2>2
  <2>4. Placed(u, b, b2, t)
    BY <1>6, <1>7, <2>3 DEF Placed
  <2>5. QED
    BY <1>1, <1>2, <1>3, <1>4, <1>5, <2>4 DEF b, b2
<1>8. CASE ~HasRoom(ev)
  <2>1. rows2 = [rows EXCEPT ![u] = [status |-> "WAITLISTED", queuedAt |-> t]]
    BY <1>1, <1>8 DEF JoinedRow
  <2>2. /\ UsersWith(rows2, "CONFIRMED") = confirmed
        /\ UsersWith(rows2, "WAITLISTED") = waiting \cup {u}
        /\ rows2[u].queuedAt = t
        /\ \A v \in waiting : rows2[v].queuedAt = rows[v].queuedAt
    BY <1>3, <2>1 DEF UsersWith
  <2> HIDE DEF confirmed, waiting
  <2>3. /\ b2.confirmed = b.confirmed
        /\ b2.queue = [v \in DOMAIN b.queue \cup {u} |-> IF v = u THEN t ELSE b.queue[v]]
    BY <1>4, <2>2
  <2>4. Placed(u, b, b2, t)
    BY <1>2, <1>5, <1>6, <1>8, <2>3 DEF Placed
  <2>5. QED
    BY <1>1, <1>2, <1>3, <1>4, <1>5, <2>4 DEF b, b2
<1>9. QED
  BY <1>7, <1>8

(* Somebody waiting leaves the queue. *)
LEMMA LeaveQueueEntry ==
  ASSUME NEW ev \in EventRow, NEW rows \in [Users -> RsvpRow],
         NEW u \in Users, NEW ev2, NEW rows2, LeavesQueue(u, ev, rows, ev2, rows2)
  PROVE  LET b == EntryOf(ev, rows)
             b2 == EntryOf(ev2, rows2)
         IN  /\ u \in DOMAIN b.queue
             /\ b2.terms = b.terms /\ b2.confirmed = b.confirmed
             /\ b2.queue = Book!Without(b.queue, u)
<1> DEFINE b == EntryOf(ev, rows)
           b2 == EntryOf(ev2, rows2)
           confirmed == UsersWith(rows, "CONFIRMED")
           waiting == UsersWith(rows, "WAITLISTED")
<1>0. TermsOf(ev2) = TermsOf(ev)
  BY DEF LeavesQueue
<1>1. /\ rows[u].status = "WAITLISTED" /\ ev2 = ev
      /\ rows2 = [rows EXCEPT ![u] = Cancelled]
  BY DEF LeavesQueue
<1>2. /\ u \in waiting
      /\ UsersWith(rows2, "WAITLISTED") = waiting \ {u}
      /\ UsersWith(rows2, "CONFIRMED") = confirmed
      /\ \A v \in waiting \ {u} : rows2[v].queuedAt = rows[v].queuedAt
  BY <1>1 DEF UsersWith, Cancelled
<1>3. /\ b.terms = TermsOf(ev) /\ b.confirmed = confirmed
      /\ DOMAIN b.queue = waiting /\ b.queue = [v \in waiting |-> rows[v].queuedAt]
      /\ b2.terms = TermsOf(ev) /\ b2.confirmed = UsersWith(rows2, "CONFIRMED")
      /\ b2.queue = [v \in UsersWith(rows2, "WAITLISTED") |-> rows2[v].queuedAt]
  BY <1>0, EntryParts
<1> HIDE DEF b, b2, confirmed, waiting
<1>4. b2.queue = Book!Without(b.queue, u)
  BY <1>2, <1>3 DEF Book!Without
<1>5. QED
  BY <1>2, <1>3, <1>4 DEF b, b2

(* A confirmed place is given up and nobody takes it. *)
LEMMA LeavePlaceEntry ==
  ASSUME NEW ev \in EventRow, NEW rows \in [Users -> RsvpRow],
         NEW u \in Users, NEW ev2, NEW rows2, LeavesPlace(u, ev, rows, ev2, rows2)
  PROVE  LET b == EntryOf(ev, rows)
             b2 == EntryOf(ev2, rows2)
         IN  /\ u \in b.confirmed
             /\ DOMAIN b.queue = {} \/ b.terms.capacity = Unlimited
             /\ b2.terms = b.terms /\ b2.confirmed = b.confirmed \ {u}
             /\ b2.queue = b.queue
<1> DEFINE b == EntryOf(ev, rows)
           b2 == EntryOf(ev2, rows2)
           confirmed == UsersWith(rows, "CONFIRMED")
           waiting == UsersWith(rows, "WAITLISTED")
<1>0. TermsOf(ev2) = TermsOf(ev)
  BY DEF LeavesPlace, TermsOf, EventRow
<1>1. /\ rows[u].status = "CONFIRMED"
      /\ waiting = {} \/ ev.capacity = Unlimited
      /\ rows2 = [rows EXCEPT ![u] = Cancelled]
      /\ TermsOf(ev2) = TermsOf(ev) /\ TermsOf(ev).capacity = ev.capacity
  BY DEF LeavesPlace, TermsOf, EventRow
<1>2. /\ u \in confirmed
      /\ UsersWith(rows2, "CONFIRMED") = confirmed \ {u}
      /\ UsersWith(rows2, "WAITLISTED") = waiting
      /\ \A v \in waiting : rows2[v].queuedAt = rows[v].queuedAt
  BY <1>1 DEF UsersWith, Cancelled
<1>3. /\ b.terms = TermsOf(ev) /\ b.confirmed = confirmed
      /\ DOMAIN b.queue = waiting /\ b.queue = [v \in waiting |-> rows[v].queuedAt]
      /\ b2.terms = TermsOf(ev) /\ b2.confirmed = UsersWith(rows2, "CONFIRMED")
      /\ b2.queue = [v \in UsersWith(rows2, "WAITLISTED") |-> rows2[v].queuedAt]
  BY <1>0, EntryParts
<1> HIDE DEF b, b2, confirmed, waiting
<1>4. b2.queue = b.queue
  BY <1>2, <1>3
<1>5. QED
  BY <1>1, <1>2, <1>3, <1>4 DEF b, b2

(* A confirmed place goes to the one who has waited longest. *)
LEMMA HandOverEntry ==
  ASSUME NEW ev \in EventRow, NEW rows \in [Users -> RsvpRow],
         NEW u \in Users, NEW ev2, NEW rows2, HandsOver(u, ev, rows, ev2, rows2)
  PROVE  LET b == EntryOf(ev, rows)
             b2 == EntryOf(ev2, rows2)
         IN  /\ u \in b.confirmed
             /\ b.terms.capacity # Unlimited /\ b2.terms = b.terms
             /\ \E w \in Users :
                  /\ w \in DOMAIN b.queue
                  /\ \A v \in DOMAIN b.queue \ {w} : Book!Before(b.queue, w, v)
                  /\ b2.confirmed = (b.confirmed \ {u}) \cup {w}
                  /\ b2.queue = Book!Without(b.queue, w)
<1> DEFINE b == EntryOf(ev, rows)
           b2 == EntryOf(ev2, rows2)
           confirmed == UsersWith(rows, "CONFIRMED")
           waiting == UsersWith(rows, "WAITLISTED")
<1>0. TermsOf(ev2) = TermsOf(ev)
  BY DEF HandsOver
<1>1. /\ rows[u].status = "CONFIRMED" /\ ev.capacity # Unlimited /\ ev2 = ev
      /\ TermsOf(ev).capacity = ev.capacity
  BY DEF HandsOver, TermsOf
<1>2. /\ b.terms = TermsOf(ev) /\ b.confirmed = confirmed
      /\ DOMAIN b.queue = waiting /\ b.queue = [v \in waiting |-> rows[v].queuedAt]
      /\ b2.terms = TermsOf(ev) /\ b2.confirmed = UsersWith(rows2, "CONFIRMED")
      /\ b2.queue = [v \in UsersWith(rows2, "WAITLISTED") |-> rows2[v].queuedAt]
  BY <1>0, EntryParts
<1>3. PICK w \in waiting :
        /\ \A v \in waiting \ {w} : AheadOf(rows, w, v)
        /\ rows2 = [[rows EXCEPT ![u] = Cancelled] EXCEPT ![w] = Promoted]
  BY DEF HandsOver
<1>4. /\ u \in confirmed /\ w \in Users /\ w \in waiting
      /\ UsersWith(rows2, "CONFIRMED") = (confirmed \ {u}) \cup {w}
      /\ UsersWith(rows2, "WAITLISTED") = waiting \ {w}
      /\ \A v \in waiting \ {w} : rows2[v].queuedAt = rows[v].queuedAt
  BY <1>1, <1>3 DEF UsersWith, Cancelled, Promoted
<1> HIDE DEF b, b2, confirmed, waiting
<1>5. b2.queue = Book!Without(b.queue, w)
  BY <1>2, <1>4 DEF Book!Without
<1>6. \A v \in waiting \ {w} : Book!Before(b.queue, w, v)
  BY <1>2, <1>3 DEF Book!Before, AheadOf
<1>7. QED
  BY <1>1, <1>2, <1>4, <1>5, <1>6 DEF b, b2

(* The terms become those the PATCH leaves, and everybody keeps their place. *)
LEMMA UpdateEntry ==
  ASSUME NEW ev \in EventRow, NEW rows \in [Users -> RsvpRow], Balanced(ev, rows),
         NEW p \in Patch, NEW ev2, NEW rows2, Repatches(p, ev, rows, ev2, rows2)
  PROVE  LET b == EntryOf(ev, rows)
             b2 == EntryOf(ev2, rows2)
         IN  /\ b2.terms \in Book!Terms
             /\ b2.terms.endsAt > b2.terms.startsAt
             /\ \/ b2.terms.capacity = b.terms.capacity
                \/ Book!Fits(Book!Cardinality(b.confirmed), b2.terms.capacity)
             /\ b2.confirmed = b.confirmed /\ b2.queue = b.queue
<1> DEFINE b == EntryOf(ev, rows)
           b2 == EntryOf(ev2, rows2)
<1>1. /\ ev2 = Patched(ev, p) /\ rows2 = rows /\ ev2.endsAt > ev2.startsAt
      /\ p.capacity \in {Keep, Unlimited} \/ ev.confirmedCount <= p.capacity
  BY DEF Repatches, CoherentTimes
<1>2. ev2 \in EventRow
  BY <1>1, PatchedType
<1>3. /\ b.terms = TermsOf(ev) /\ b.confirmed = UsersWith(rows, "CONFIRMED")
      /\ b.queue = [u \in UsersWith(rows, "WAITLISTED") |-> rows[u].queuedAt]
  BY EntryParts
<1>4. /\ b2.terms = TermsOf(ev2) /\ b2.confirmed = UsersWith(rows2, "CONFIRMED")
      /\ b2.queue = [u \in UsersWith(rows2, "WAITLISTED") |-> rows2[u].queuedAt]
  BY EntryParts
<1> HIDE DEF b, b2
<1>5. b2.confirmed = b.confirmed /\ b2.queue = b.queue
  BY <1>1, <1>3, <1>4
<1>6. b2.terms \in Book!Terms
  BY <1>2, <1>4 DEF TermsOf, Book!Terms, Book!EventStatus, EventRow, EventStatus
<1>7. /\ b2.terms.endsAt > b2.terms.startsAt
      /\ b2.terms.capacity = ev2.capacity /\ b.terms.capacity = ev.capacity
  BY <1>1, <1>3, <1>4 DEF TermsOf
<1>8. ev2.capacity = IF p.capacity = Keep THEN ev.capacity ELSE p.capacity
  BY <1>1 DEF Patched
<1>9. Book!Cardinality(b.confirmed) = ev.confirmedCount
  BY <1>3, SameCount DEF Balanced
<1>10. \/ b2.terms.capacity = b.terms.capacity
       \/ Book!Fits(Book!Cardinality(b.confirmed), b2.terms.capacity)
  BY <1>1, <1>7, <1>8, <1>9 DEF Book!Fits
<1>11. QED
  BY <1>5, <1>6, <1>7, <1>10 DEF b, b2

(* What the book shows of an event row and its RSVP rows. *)
Shown(ev, rows) == IF ev = Gone THEN Gone ELSE EntryOf(ev, rows)

LEMMA PagesShown ==
  /\ Pages = [e \in Events |-> Shown(event[e], rsvp[e])]
  /\ Pages' = [e \in Events |-> Shown(event'[e], rsvp'[e])]
BY DEF Pages, BookEntry, Shown, EntryOf, Confirmed, Waiting, UsersWith

(* Each change is a step of the book on its event. *)
LEMMA ChangeIsBookStep ==
  ASSUME Justified, NEW e \in Events, event[e] \in EventRow, event'[e] # Gone,
         \A f \in Events \ {e} : event'[f] = event[f] /\ rsvp'[f] = rsvp[f],
         NEW c, c.user \in Users, c.patch \in Patch,
         Changes(c, event[e], rsvp[e], event'[e], rsvp'[e])
  PROVE  Book!Next
<1> DEFINE ev == event[e]
           rows == rsvp[e]
           ev2 == event'[e]
           rows2 == rsvp'[e]
           b == EntryOf(ev, rows)
           b2 == EntryOf(ev2, rows2)
           u == c.user
<1>1. ev \in EventRow /\ rows \in [Users -> RsvpRow] /\ Balanced(ev, rows)
  BY Sentinels DEF Justified, Isolation, TypeOK, Accounts
<1>2. b # Gone
  BY <1>1, EntryIsThere
<1>3. /\ Pages = [f \in Events |-> Pages[f]] /\ Pages' = [f \in Events |-> Pages'[f]]
      /\ Pages[e] = b /\ Pages'[e] = b2
      /\ \A f \in Events \ {e} : Pages'[f] = Pages[f]
  BY PagesShown, Sentinels DEF Shown
<1>4. /\ b = [part \in {"terms", "confirmed", "queue"} |-> b[part]]
      /\ b2 = [part \in {"terms", "confirmed", "queue"} |-> b2[part]]
  BY EntryParts
<1> HIDE DEF b, b2
<1>5. CASE Joins(u, ev, rows, ev2, rows2)
  <2>1. /\ b.terms.status = "PUBLISHED" /\ b2.terms = b.terms
        /\ u \notin b.confirmed \cup DOMAIN b.queue
        /\ \E t \in ApiClocks : t < b.terms.endsAt /\ Placed(u, b, b2, t)
    BY <1>1, <1>5, JoinEntry DEF b, b2
  <2>2. PICK t \in ApiClocks : t < b.terms.endsAt /\ Placed(u, b, b2, t)
    BY <2>1
  <2>3. CASE Book!HasRoom(b)
    <3>1. b2.confirmed = b.confirmed \cup {u} /\ b2.queue = b.queue
      BY <2>2, <2>3 DEF Placed
    <3>2. Pages' = [Pages EXCEPT ![e].confirmed = @ \cup {u}]
      BY ONLY <1>3, <1>4, <2>1, <3>1
    <3>3. Book!Join(e, u, t)
      BY <1>2, <1>3, <2>1, <2>2, <2>3, <3>2 DEF Book!Join
    <3>4. QED
      BY <3>3 DEF Book!Next
  <2>4. CASE ~Book!HasRoom(b)
    <3> DEFINE queue == [v \in DOMAIN b.queue \cup {u} |-> IF v = u THEN t ELSE b.queue[v]]
    <3>1. b.terms.waitlistEnabled /\ b2.confirmed = b.confirmed /\ b2.queue = queue
      BY <2>2, <2>4 DEF Placed
    <3> HIDE DEF queue
    <3>2. Pages' = [Pages EXCEPT ![e].queue = queue]
      BY ONLY <1>3, <1>4, <2>1, <3>1
    <3>3. queue = [v \in DOMAIN Pages[e].queue \cup {u} |->
                     IF v = u THEN t ELSE Pages[e].queue[v]]
      BY <1>3 DEF queue
    <3>4. Book!Join(e, u, t)
      BY <1>2, <1>3, <2>1, <2>2, <2>4, <3>1, <3>2, <3>3 DEF Book!Join
    <3>5. QED
      BY <3>4 DEF Book!Next
  <2>5. QED
    BY <2>3, <2>4
<1>6. CASE LeavesQueue(u, ev, rows, ev2, rows2)
  <2>1. /\ u \in DOMAIN b.queue /\ b2.terms = b.terms /\ b2.confirmed = b.confirmed
        /\ b2.queue = Book!Without(b.queue, u)
    BY <1>1, <1>6, LeaveQueueEntry DEF b, b2
  <2>2. Pages' = [Pages EXCEPT ![e].queue = Book!Without(@, u)]
    BY ONLY <1>3, <1>4, <2>1
  <2>3. Book!LeaveQueue(e, u)
    BY <1>2, <1>3, <2>1, <2>2 DEF Book!LeaveQueue
  <2>4. QED
    BY <2>3 DEF Book!Next
<1>7. CASE LeavesPlace(u, ev, rows, ev2, rows2)
  <2>1. /\ u \in b.confirmed
        /\ DOMAIN b.queue = {} \/ b.terms.capacity = Unlimited
        /\ b2.terms = b.terms /\ b2.confirmed = b.confirmed \ {u} /\ b2.queue = b.queue
    BY <1>1, <1>7, LeavePlaceEntry DEF b, b2
  <2>2. Pages' = [Pages EXCEPT ![e].confirmed = @ \ {u}]
    BY ONLY <1>3, <1>4, <2>1
  <2>3. Book!LeavePlace(e, u)
    BY <1>2, <1>3, <2>1, <2>2 DEF Book!LeavePlace
  <2>4. QED
    BY <2>3 DEF Book!Next
<1>8. CASE HandsOver(u, ev, rows, ev2, rows2)
  <2>1. /\ u \in b.confirmed /\ b.terms.capacity # Unlimited /\ b2.terms = b.terms
        /\ \E w \in Users :
             /\ w \in DOMAIN b.queue
             /\ \A v \in DOMAIN b.queue \ {w} : Book!Before(b.queue, w, v)
             /\ b2.confirmed = (b.confirmed \ {u}) \cup {w}
             /\ b2.queue = Book!Without(b.queue, w)
    BY <1>1, <1>8, HandOverEntry DEF b, b2
  <2>2. PICK w \in Users :
          /\ w \in DOMAIN b.queue
          /\ \A v \in DOMAIN b.queue \ {w} : Book!Before(b.queue, w, v)
          /\ b2.confirmed = (b.confirmed \ {u}) \cup {w}
          /\ b2.queue = Book!Without(b.queue, w)
    BY <2>1
  <2>3. Pages' = [Pages EXCEPT ![e].confirmed = (@ \ {u}) \cup {w},
                               ![e].queue = Book!Without(@, w)]
    <3> DEFINE mid == [Pages EXCEPT ![e].confirmed = (@ \ {u}) \cup {w}]
    <3>1. /\ mid = [f \in Events |-> mid[f]] /\ \A f \in Events \ {e} : mid[f] = Pages[f]
          /\ mid[e] = [b EXCEPT !.confirmed = (b.confirmed \ {u}) \cup {w}]
      BY ONLY <1>3
    <3>2. /\ mid[e] = [part \in {"terms", "confirmed", "queue"} |-> mid[e][part]]
          /\ mid[e].terms = b.terms /\ mid[e].queue = b.queue
          /\ mid[e].confirmed = (b.confirmed \ {u}) \cup {w}
      BY ONLY <1>4, <3>1
    <3> HIDE DEF mid
    <3>3. Pages' = [mid EXCEPT ![e].queue = Book!Without(@, w)]
      BY ONLY <1>3, <1>4, <2>1, <2>2, <3>1, <3>2
    <3>4. QED
      BY <3>3 DEF mid
  <2>4. Book!HandOver(e, u, w)
    BY <1>2, <1>3, <2>1, <2>2, <2>3 DEF Book!HandOver
  <2>5. QED
    BY <2>4 DEF Book!Next
<1>9. CASE Repatches(c.patch, ev, rows, ev2, rows2)
  <2>1. /\ b2.terms \in Book!Terms /\ b2.terms.endsAt > b2.terms.startsAt
        /\ \/ b2.terms.capacity = b.terms.capacity
           \/ Book!Fits(Book!Cardinality(b.confirmed), b2.terms.capacity)
        /\ b2.confirmed = b.confirmed /\ b2.queue = b.queue
    BY <1>1, <1>9, UpdateEntry DEF b, b2
  <2>2. Pages' = [Pages EXCEPT ![e].terms = b2.terms]
    BY ONLY <1>3, <1>4, <2>1
  <2>3. Book!Update(e, b2.terms)
    BY <1>2, <1>3, <2>1, <2>2 DEF Book!Update
  <2>4. QED
    BY <2>1, <2>3 DEF Book!Next
<1>10. QED
  BY <1>5, <1>6, <1>7, <1>8, <1>9 DEF Changes

(* A step of the service is a step of the book or shows nothing in it. *)
LEMMA BookStep ==
  ASSUME Justified, [Next]_vars
  PROVE  [Book!Next]_Pages
<1>1. CASE UNCHANGED <<event, rsvp>>
  <2>1. event' = event /\ rsvp' = rsvp
    BY <1>1
  <2>2. Pages' = Pages
    BY <2>1, PagesShown
  <2>3. QED
    BY <2>2
<1>2. ASSUME NEW r \in Requests, pc[r] = "commit",
             call[r].event \in Events, event[call[r].event] \in EventRow,
             event' = [event EXCEPT ![call[r].event] = EventAfter(r)],
             rsvp' = [rsvp EXCEPT ![call[r].event] = RowsAfter(r)]
      PROVE  Book!Next
  <2> DEFINE e == call[r].event
  <2>1. call[r].user \in Users /\ call[r].patch \in Patch
    BY <1>2, CallType DEF Justified, Isolation, CallMade
  <2>2. /\ event'[e] = EventAfter(r) /\ rsvp'[e] = RowsAfter(r)
        /\ \A f \in Events \ {e} : event'[f] = event[f] /\ rsvp'[f] = rsvp[f]
    BY <1>2 DEF Justified, Isolation, TypeOK
  <2>3. Changes(call[r], event[e], rsvp[e], event'[e], rsvp'[e])
    BY <1>2, <2>2 DEF Justified, Decided, Pending
  <2>4. EventAfter(r) \in EventRow
    <3>1. Patched(event[e], call[r].patch) \in EventRow
      BY <1>2, <2>1, PatchedType
    <3>2. work[r].delta \in Int
      <4>1. work[r] \in Work
        BY DEF Justified, Isolation, TypeOK
      <4>2. QED
        BY <4>1 DEF Work
    <3>3. QED
      BY <3>1, <3>2 DEF EventAfter, EventRow
  <2>5. event'[e] # Gone
    BY <2>2, <2>4, Sentinels
  <2> HIDE DEF e
  <2>6. QED
    BY <1>2, <2>1, <2>2, <2>3, <2>5, ChangeIsBookStep DEF e
<1>3. ASSUME NEW e \in Events,
             event' = [event EXCEPT ![e] = Gone],
             rsvp' = [rsvp EXCEPT ![e] = [u \in Users |-> NoRow]]
      PROVE  Pages' = Pages \/ Book!Next
  <2>1. /\ event'[e] = Gone
        /\ \A f \in Events \ {e} : event'[f] = event[f] /\ rsvp'[f] = rsvp[f]
    BY <1>3 DEF Justified, Isolation, TypeOK
  <2>2. /\ Pages = [f \in Events |-> Pages[f]] /\ Pages' = [f \in Events |-> Pages'[f]]
        /\ Pages'[e] = Gone /\ Pages[e] = Shown(event[e], rsvp[e])
        /\ \A f \in Events \ {e} : Pages'[f] = Pages[f]
    BY <2>1, PagesShown DEF Shown
  <2>3. CASE Pages[e] = Gone
    BY ONLY <2>2, <2>3
  <2>4. CASE Pages[e] # Gone
    <3>1. Pages' = [Pages EXCEPT ![e] = Gone]
      BY ONLY <2>2
    <3>2. Book!Delete(e)
      BY <2>4, <3>1 DEF Book!Delete
    <3>3. QED
      BY <3>2 DEF Book!Next
  <2>5. QED
    BY <2>3, <2>4
<1>4. Isolation
  BY DEF Justified
<1>5. QED
  BY <1>1, <1>2, <1>3, <1>4, TablesStep

(* Before the first request nobody is on any event. *)
LEMMA BookInit == Init => Book!Init
<1> SUFFICES ASSUME Init
             PROVE  Book!Init
  OBVIOUS
<1>1. ASSUME NEW e \in Events
      PROVE  /\ event[e] \in NewEvents
             /\ Shown(event[e], rsvp[e]) =
                  Book!Entry(TermsOf(event[e]), {}, Book!NobodyQueued)
  <2> DEFINE rows == rsvp[e]
  <2>1. event[e] \in NewEvents /\ rows = [u \in Users |-> NoRow]
    BY DEF Init
  <2>2. event[e] # Gone
    BY <2>1, Parameters, Sentinels
  <2>3. UsersWith(rows, "CONFIRMED") = {} /\ UsersWith(rows, "WAITLISTED") = {}
    BY <2>1 DEF UsersWith, NoRow
  <2>4. [u \in UsersWith(rows, "WAITLISTED") |-> rows[u].queuedAt] = Book!NobodyQueued
    BY <2>3 DEF Book!NobodyQueued
  <2> HIDE DEF rows
  <2>5. EntryOf(event[e], rows) = Book!Entry(TermsOf(event[e]), {}, Book!NobodyQueued)
    BY <2>3, <2>4 DEF EntryOf, Book!Entry
  <2>6. QED
    BY <2>1, <2>2, <2>5 DEF Shown, rows
<1>2. QED
  BY <1>1, PagesShown DEF Book!Init

(* The service implements the book: whatever the clients, the retries, the *)
(* failures and the interleaving, a reader of the events and their RSVPs   *)
(* sees one atomic step after another, each of them one the book allows.   *)
THEOREM ServiceImplementsBook == Spec => ImplementsBook
<1>1. Init => Book!Init
  BY BookInit
<1>2. Justified /\ [Next]_vars => [Book!Next]_Pages
  BY BookStep
<1>3. QED
  BY <1>1, <1>2, JustifiedInvariant, PTL DEF Spec, ImplementsBook, Book!Spec
=============================================================================
