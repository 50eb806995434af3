-------------------------- MODULE RsvpReadsProofs --------------------------
(***************************************************************************)
(* Proofs that what RsvpReads answers was true while the request ran.  The *)
(* inductive invariant says of every read that is on what its statements   *)
(* have found so far, and that each finding was witnessed; the writers may *)
(* take any step of RsvpService in between.                                *)
(***************************************************************************)
EXTENDS RsvpReads, RsvpServiceProofs, OrderingProofs, SequenceTheorems

readers == <<vars, readVars>>

(* The statements of each kind of read. *)
Stages(kind) ==
  CASE kind = "detail" -> {"detail", "viewer", "place", "done", "refused"}
    [] kind = "roster" -> {"roster", "own", "page", "count", "done", "refused"}
    [] OTHER           -> {"mine", "places", "done", "refused"}

Asked(q) ==
  at[q] # "idle" => question[q] \in Questions /\ at[q] \in Stages(question[q].kind)

(* What is true now has been witnessed. *)
SeesNow(q) == Reading(q) => Truth(q) \in witnessed[q]

EventWasTrue(q, response) ==
  \E w \in witnessed[q] : w.event # Gone /\ response = EventResponse(w.event)

StatusWasTrue(q, status) ==
  \E w \in witnessed[q] : status = IF Active(w.own) THEN w.own.status ELSE "NONE"

PlaceWasTrue(q, place) ==
  (\A w \in witnessed[q] : w.own = row[q]) => \E w \in witnessed[q] : place = w.place

DetailSoFar(q) ==
  /\ at[q] \in {"viewer", "place"} => EventWasTrue(q, found[q])
  /\ at[q] = "place" => /\ row[q].status = "WAITLISTED"
                        /\ \E w \in witnessed[q] : w.own = row[q]
  /\ Answered(q, "detail") /\ question[q].viewer # Anonymous =>
       /\ EventWasTrue(q, found[q].event)
       /\ StatusWasTrue(q, found[q].viewer.status)
       /\ PlaceWasTrue(q, found[q].viewer.place)

RosterSoFar(q) ==
  (at[q] \in {"page", "count"} \/ Answered(q, "roster"))
    /\ Owner[question[q].event] # question[q].viewer
      => \E w \in witnessed[q] : Active(w.own)

MyPages == UNION {[S -> [own : RsvpRow, place : Nat]] : S \in SUBSET Events}

WasMine(q, e) == \E w \in witnessed[q] : Active(w.mine[e].own)

MyPlaceWasTrue(q, e, entry) ==
  (\A w \in witnessed[q] : w.mine[e].own = entry.own) =>
    \E w \in witnessed[q] : entry.place = w.mine[e].place

MineSoFar(q) ==
  at[q] = "places" \/ Answered(q, "mine") =>
    /\ found[q] \in MyPages
    /\ \A e \in DOMAIN found[q] :
         /\ WasMine(q, e)
         /\ \/ at[q] = "places" /\ e \in Unplaced(q)
            \/ MyPlaceWasTrue(q, e, found[q][e])

ReaderOK(q) == Asked(q) /\ SeesNow(q) /\ DetailSoFar(q) /\ RosterSoFar(q) /\ MineSoFar(q)

(* The variables of the readers are functions on them. *)
OnReaders ==
  /\ question = [q \in Readers |-> question[q]]
  /\ at = [q \in Readers |-> at[q]]
  /\ row = [q \in Readers |-> row[q]]
  /\ found = [q \in Readers |-> found[q]]
  /\ witnessed = [q \in Readers |-> witnessed[q]]

ReadInv == Isolation /\ OnReaders /\ \A q \in Readers : ReaderOK(q)

-----------------------------------------------------------------------------
(* What the steps have in common. *)

(* The place counted against a row that has not changed since it was read  *)
(* is the place waitlistPositionOf counts now.                             *)
LEMMA PlaceIsPosition ==
  ASSUME NEW rows, NEW u
  PROVE  /\ PlaceOf(rows, rows[u], u) \in Nat \ {0}
         /\ rows[u].status = "WAITLISTED"
              => PlaceOf(rows, rows[u], u) = WaitlistPosition(rows, u)
         /\ rows[u].status # "WAITLISTED" => WaitlistPosition(rows, u) = 0
<1>1. {v \in UsersWith(rows, "WAITLISTED") :
         \/ rows[v].queuedAt < rows[u].queuedAt
         \/ rows[v].queuedAt = rows[u].queuedAt /\ v < u}
        = {v \in UsersWith(rows, "WAITLISTED") : AheadOf(rows, v, u)}
  BY DEF AheadOf
<1>2. Cardinality({v \in UsersWith(rows, "WAITLISTED") : AheadOf(rows, v, u)}) \in Nat
  BY UsersWithFinite, FS_Subset, FS_CardinalityType
<1>3. QED
  BY <1>1, <1>2 DEF PlaceOf, WaitlistPosition

(* A place counted against an older row is a place all the same. *)
LEMMA PlaceType ==
  ASSUME NEW rows, NEW own, NEW u
  PROVE  PlaceOf(rows, own, u) \in Nat \ {0}
<1> DEFINE ahead == {v \in UsersWith(rows, "WAITLISTED") :
                       \/ rows[v].queuedAt < own.queuedAt
                       \/ rows[v].queuedAt = own.queuedAt /\ v < u}
<1>1. Cardinality(ahead) \in Nat
  BY UsersWithFinite, FS_Subset, FS_CardinalityType
<1>2. QED
  BY <1>1 DEF PlaceOf

(* Every step adds to the history of a read that is on, and witnesses what *)
(* is true after it.                                                       *)
LEMMA WitnessStep ==
  ASSUME OnReaders, Witness, NEW q \in Readers
  PROVE  /\ witnessed' = [p \in Readers |-> witnessed'[p]]
         /\ witnessed[q] \subseteq witnessed'[q]
         /\ SeesNow(q)'
BY DEF OnReaders, Witness, SeesNow

(* What a read has found stays found while others act. *)
LEMMA FoundStays ==
  ASSUME NEW q \in Readers, ReaderOK(q), SeesNow(q)',
         question'[q] = question[q], at'[q] = at[q], row'[q] = row[q], found'[q] = found[q],
         witnessed[q] \subseteq witnessed'[q]
  PROVE  ReaderOK(q)'
<1> USE DEF ReaderOK
<1>1. Asked(q)'
  BY DEF Asked
<1>2. DetailSoFar(q)'
  BY DEF DetailSoFar, Answered, EventWasTrue, StatusWasTrue, PlaceWasTrue
<1>3. RosterSoFar(q)'
  BY DEF RosterSoFar, Answered
<1>4. MineSoFar(q)'
  BY DEF MineSoFar, Answered, WasMine, MyPlaceWasTrue, Unplaced
<1>5. QED
  BY <1>1, <1>2, <1>3, <1>4

-----------------------------------------------------------------------------
(* The statements of a reader keep what is said of its read. *)

(* Nothing has been found when a question is asked. *)
LEMMA AskStep ==
  ASSUME OnReaders, NEW q \in Readers, ReaderOK(q), SeesNow(q)', AskQuestion(q)
  PROVE  ReaderOK(q)'
<1>1. PICK ask \in Questions : question'[q] = ask /\ at'[q] = ask.kind
  BY DEF AskQuestion, Goes, OnReaders
<1>2. ask.kind \in {"detail", "roster", "mine"}
  BY ReadersAsk DEF Question
<1>3. at'[q] \in {"detail", "roster", "mine"}
  BY <1>1, <1>2
<1>4. Asked(q)'
  BY <1>1, <1>2 DEF Asked, Stages
<1>5. DetailSoFar(q)' /\ RosterSoFar(q)' /\ MineSoFar(q)'
  BY <1>3 DEF DetailSoFar, RosterSoFar, MineSoFar, Answered
<1>6. QED
  BY <1>4, <1>5 DEF ReaderOK

(* The statements of findOne. *)
LEMMA DetailStep ==
  ASSUME Isolation, OnReaders, NEW q \in Readers, ReaderOK(q), SeesNow(q)',
         witnessed[q] \subseteq witnessed'[q], UNCHANGED vars,
         ReadEvent(q) \/ ReadViewerRow(q) \/ ReadPlace(q)
  PROVE  ReaderOK(q)'
<1> USE DEF ReaderOK
<1> DEFINE viewer == question[q].viewer
           e == question[q].event
<1>1. at[q] \in {"detail", "viewer", "place"}
  BY DEF ReadEvent, ReadViewerRow, ReadPlace
<1>2. question[q] \in Questions /\ question[q].kind = "detail"
  BY <1>1, ReadersAsk DEF Asked, Stages, Question
<1>3. Truth(q) \in witnessed[q] /\ Truth(q) \in witnessed'[q]
  BY <1>1 DEF SeesNow, Reading
<1>4. question' = question /\ at'[q] \in {"viewer", "place", "done", "refused"}
  BY DEF ReadEvent, ReadViewerRow, ReadPlace, Refuses, Answers, Goes, OnReaders
<1>5. Asked(q)' /\ RosterSoFar(q)' /\ MineSoFar(q)'
  BY <1>2, <1>4 DEF Asked, Stages, RosterSoFar, MineSoFar, Answered
<1>6. /\ Truth(q).event = event[e] /\ Truth(q).own = OwnRow(q)
      /\ viewer # Anonymous => /\ OwnRow(q) = rsvp[e][viewer]
                               /\ Truth(q).place = WaitlistPosition(rsvp[e], viewer)
  BY DEF Truth, OwnRow
<1>7. CASE ReadEvent(q)
  <2>1. CASE Hidden(event[e], Owner[e], viewer)
    <3>1. at'[q] = "refused"
      BY <1>7, <2>1 DEF ReadEvent, Refuses, Goes, Answers, OnReaders
    <3>2. QED
      BY <1>5, <3>1 DEF DetailSoFar, Answered
  <2>2. CASE ~Hidden(event[e], Owner[e], viewer) /\ viewer = Anonymous
    <3>1. at'[q] = "done" /\ question'[q].viewer = Anonymous
      BY <1>4, <1>7, <2>2 DEF ReadEvent, Answers, Goes, OnReaders
    <3>2. QED
      BY <1>5, <3>1 DEF DetailSoFar, Answered
  <2>3. CASE ~Hidden(event[e], Owner[e], viewer) /\ viewer # Anonymous
    <3>1. at'[q] = "viewer" /\ found'[q] = EventResponse(event[e])
      BY <1>7, <2>3 DEF ReadEvent, Goes, OnReaders
    <3>2. event[e] # Gone
      BY <2>3 DEF Hidden
    <3>3. EventWasTrue(q, found[q])'
      BY <1>3, <1>6, <3>1, <3>2 DEF EventWasTrue
    <3>4. QED
      BY <1>5, <3>1, <3>3 DEF DetailSoFar, Answered
  <2>4. QED
    BY <2>1, <2>2, <2>3
<1>8. CASE ReadViewerRow(q)
  <2> DEFINE own == OwnRow(q)
  <2>1. at[q] = "viewer" /\ EventWasTrue(q, found[q]) /\ row'[q] = own
    BY <1>8 DEF ReadViewerRow, DetailSoFar, OnReaders
  <2>2. CASE own.status = "WAITLISTED"
    <3>1. at'[q] = "place" /\ found'[q] = found[q]
      BY <1>8, <2>2 DEF ReadViewerRow, Goes, OnReaders
    <3>2. EventWasTrue(q, found[q])'
      BY <2>1, <3>1 DEF EventWasTrue
    <3>3. \E w \in witnessed'[q] : w.own = row'[q]
      BY <1>3, <1>6, <2>1
    <3>4. QED
      BY <1>5, <2>1, <2>2, <3>1, <3>2, <3>3 DEF DetailSoFar, Answered
  <2>3. CASE own.status # "WAITLISTED"
    <3> DEFINE told == IF Active(own) THEN own.status ELSE "NONE"
    <3>1. /\ at'[q] = "done" /\ found'[q].event = found[q]
          /\ found'[q].viewer = IF Active(own) THEN [Nobody EXCEPT !.status = own.status]
                                ELSE Nobody
      BY <1>8, <2>3 DEF ReadViewerRow, Answers, Goes, OnReaders
    <3>2. found'[q].viewer.status = told /\ found'[q].viewer.place = 0
      BY <3>1 DEF Nobody
    <3>3. EventWasTrue(q, found[q].event)'
      BY <2>1, <3>1 DEF EventWasTrue
    <3>4. StatusWasTrue(q, found[q].viewer.status)'
      BY <1>3, <1>6, <3>2 DEF StatusWasTrue
    <3>5. ASSUME viewer # Anonymous
          PROVE  PlaceWasTrue(q, found[q].viewer.place)'
      <4>1. Truth(q).place = 0
        BY <1>6, <2>3, <3>5, PlaceIsPosition
      <4>2. QED
        BY <1>3, <3>2, <4>1 DEF PlaceWasTrue
    <3>6. QED
      BY <1>4, <1>5, <3>1, <3>3, <3>4, <3>5 DEF DetailSoFar, Answered
  <2>4. QED
    BY <2>2, <2>3
<1>9. CASE ReadPlace(q)
  <2> DEFINE place == PlaceOf(rsvp[e], row[q], viewer)
  <2>1. /\ at[q] = "place" /\ EventWasTrue(q, found[q]) /\ row[q].status = "WAITLISTED"
        /\ \E w \in witnessed[q] : w.own = row[q]
    BY <1>9 DEF ReadPlace, DetailSoFar
  <2>2. /\ at'[q] = "done" /\ row' = row /\ found'[q].event = found[q]
        /\ found'[q].viewer.status = "WAITLISTED" /\ found'[q].viewer.place = place
    BY <1>9, <2>1 DEF ReadPlace, Answers, Goes, OnReaders
  <2>3. EventWasTrue(q, found[q].event)'
    BY <2>1, <2>2 DEF EventWasTrue
  <2>4. StatusWasTrue(q, found[q].viewer.status)'
    BY <2>1, <2>2 DEF StatusWasTrue, Active
  <2>5. ASSUME viewer # Anonymous, \A w \in witnessed'[q] : w.own = row'[q]
        PROVE  \E w \in witnessed'[q] : place = w.place
    <3>1. rsvp[e][viewer] = row[q]
      BY <1>3, <1>6, <2>2, <2>5
    <3>2. Truth(q).place = place
      BY <1>6, <2>1, <2>5, <3>1, PlaceIsPosition
    <3>3. QED
      BY <1>3, <3>2
  <2>6. viewer # Anonymous => PlaceWasTrue(q, found[q].viewer.place)'
    BY <2>2, <2>5 DEF PlaceWasTrue
  <2>7. QED
    BY <1>4, <1>5, <2>2, <2>3, <2>4, <2>6 DEF DetailSoFar, Answered
<1>10. QED
  BY <1>7, <1>8, <1>9

(* The statements of assertMaySeeAttendees and listAttendees. *)
LEMMA RosterStep ==
  ASSUME Isolation, OnReaders, NEW q \in Readers, ReaderOK(q), SeesNow(q)',
         witnessed[q] \subseteq witnessed'[q], UNCHANGED vars,
         CheckOrganiser(q) \/ CheckParticipant(q) \/ ReadRosterPage(q) \/ CountRoster(q)
  PROVE  ReaderOK(q)'
<1> USE DEF ReaderOK
<1>1. at[q] \in {"roster", "own", "page", "count"}
  BY DEF CheckOrganiser, CheckParticipant, ReadRosterPage, CountRoster
<1>2. question[q] \in Questions /\ question[q].kind = "roster"
  BY <1>1, ReadersAsk DEF Asked, Stages, Question
<1>3. Truth(q) \in witnessed'[q] /\ Truth(q).own = OwnRow(q)
  BY <1>1 DEF SeesNow, Reading, Truth
<1>4. question' = question /\ at'[q] \in {"own", "page", "count", "done", "refused"}
  BY DEF CheckOrganiser, CheckParticipant, ReadRosterPage, CountRoster, Refuses, Answers,
         Goes, OnReaders
<1>5. Asked(q)' /\ DetailSoFar(q)' /\ MineSoFar(q)'
  BY <1>2, <1>4 DEF Asked, Stages, DetailSoFar, MineSoFar, Answered
<1>6. CASE CheckOrganiser(q)
  <2>1. \/ at'[q] \in {"refused", "own"}
        \/ Owner[question[q].event] = question[q].viewer
    BY <1>6 DEF CheckOrganiser, Refuses, Goes, OnReaders
  <2>2. at'[q] # "done"
    BY <1>6 DEF CheckOrganiser, Refuses, Goes, OnReaders
  <2>3. QED
    BY <1>4, <1>5, <2>1, <2>2 DEF RosterSoFar, Answered
<1>7. CASE CheckParticipant(q)
  <2>1. at'[q] = "refused" \/ Active(OwnRow(q))
    BY <1>7 DEF CheckParticipant, MaySeeAttendees, Refuses, Goes, OnReaders
  <2>2. at'[q] # "done"
    BY <1>7 DEF CheckParticipant, Refuses, Goes, OnReaders
  <2>3. QED
    BY <1>3, <1>5, <2>1, <2>2 DEF RosterSoFar, Answered
<1>8. CASE ReadRosterPage(q) \/ CountRoster(q)
  <2>1. at[q] \in {"page", "count"}
    BY <1>8 DEF ReadRosterPage, CountRoster
  <2>2. QED
    BY <1>4, <1>5, <2>1 DEF RosterSoFar, Answered
<1>9. QED
  BY <1>6, <1>7, <1>8

(* The statements of listMyRsvps. *)
LEMMA MineStep ==
  ASSUME Isolation, OnReaders, NEW q \in Readers, ReaderOK(q), SeesNow(q)',
         witnessed[q] \subseteq witnessed'[q], UNCHANGED vars,
         ReadMyPage(q) \/ ReadMyPlace(q)
  PROVE  ReaderOK(q)'
<1> USE DEF ReaderOK
<1> DEFINE viewer == question[q].viewer
<1>1. at[q] \in {"mine", "places"}
  BY DEF ReadMyPage, ReadMyPlace
<1>2. question[q] \in Questions /\ question[q].kind = "mine" /\ viewer \in Users
  BY <1>1, ReadersAsk DEF Asked, Stages, Question
<1>3. /\ Truth(q) \in witnessed'[q]
      /\ \A f \in Events : /\ Truth(q).mine[f].own = rsvp[f][viewer]
                           /\ Truth(q).mine[f].place = WaitlistPosition(rsvp[f], viewer)
  BY <1>1, <1>2 DEF SeesNow, Reading, Truth
<1>4. question' = question /\ at'[q] \in {"places", "done"}
  BY <1>1 DEF ReadMyPage, ReadMyPlace, Answers, Goes, OnReaders
<1>5. Asked(q)' /\ DetailSoFar(q)' /\ RosterSoFar(q)'
  BY <1>2, <1>4 DEF Asked, Stages, DetailSoFar, RosterSoFar, Answered
<1>6. CASE ReadMyPage(q)
  <2> DEFINE mine == MyEvents(viewer, question[q].upcoming, now)
             page == [e \in mine |-> [own |-> rsvp[e][viewer], place |-> 0]]
  <2>1. at'[q] = "places" /\ found'[q] = page
    BY <1>6 DEF ReadMyPage, Goes, OnReaders
  <2>2. mine \subseteq Events /\ \A e \in mine : Active(rsvp[e][viewer])
    BY DEF MyEvents
  <2> HIDE DEF mine
  <2>3. page \in MyPages
    <3>1. \A e \in mine : rsvp[e][viewer] \in RsvpRow
      BY <1>2, <2>2 DEF Isolation, TypeOK
    <3>2. page \in [mine -> [own : RsvpRow, place : Nat]]
      BY <3>1
    <3> HIDE DEF page
    <3>3. QED
      BY <2>2, <3>2 DEF MyPages
  <2>4. ASSUME NEW e \in mine
        PROVE  /\ WasMine(q, e)'
               /\ e \in Unplaced(q)' \/ MyPlaceWasTrue(q, e, found[q][e])'
    <3>1. found'[q][e] = [own |-> rsvp[e][viewer], place |-> 0] /\ e \in DOMAIN found'[q]
      BY <2>1
    <3>2. WasMine(q, e)'
      BY <1>3, <2>2 DEF WasMine
    <3>3. CASE rsvp[e][viewer].status = "WAITLISTED"
      BY <3>1, <3>2, <3>3 DEF Unplaced
    <3>4. CASE rsvp[e][viewer].status # "WAITLISTED"
      <4>1. Truth(q).mine[e].place = 0
        BY <1>3, <2>2, <3>4, PlaceIsPosition
      <4>2. QED
        BY <1>3, <3>1, <3>2, <4>1 DEF MyPlaceWasTrue
    <3>5. QED
      BY <3>3, <3>4
  <2>5. DOMAIN found'[q] = mine
    BY <2>1
  <2> HIDE DEF page
  <2>6. MineSoFar(q)'
    BY <2>1, <2>3, <2>4, <2>5 DEF MineSoFar
  <2>7. QED
    BY <1>5, <2>6
<1>7. CASE ReadMyPlace(q)
  <2>1. /\ at[q] = "places" /\ found[q] \in MyPages
        /\ \A e \in DOMAIN found[q] :
             WasMine(q, e) /\ (e \in Unplaced(q) \/ MyPlaceWasTrue(q, e, found[q][e]))
    BY <1>7 DEF ReadMyPlace, MineSoFar
  <2>2. CASE Unplaced(q) = {} /\ Answers(q, found[q])
    <3>1. at'[q] = "done" /\ found'[q] = found[q]
      BY <2>2 DEF Answers, Goes, OnReaders
    <3>2. \A e \in DOMAIN found[q] : WasMine(q, e)' /\ MyPlaceWasTrue(q, e, found[q][e])'
      BY <2>1, <2>2, <3>1 DEF WasMine, MyPlaceWasTrue
    <3>3. MineSoFar(q)'
      BY <2>1, <3>1, <3>2 DEF MineSoFar
    <3>4. QED
      BY <1>5, <3>3
  <2>3. ASSUME NEW e \in Unplaced(q),
               found' = [found EXCEPT ![q][e].place =
                           PlaceOf(rsvp[e], found[q][e].own, viewer)],
               at' = at
        PROVE  MineSoFar(q)'
    <3> DEFINE place == PlaceOf(rsvp[e], found[q][e].own, viewer)
               page == found[q]
               page2 == found'[q]
    <3>1. place \in Nat \ {0}
      BY PlaceType
    <3>2. PICK S \in SUBSET Events : page \in [S -> [own : RsvpRow, place : Nat]]
      BY <2>1 DEF MyPages
    <3>3. e \in S /\ page[e].own.status = "WAITLISTED"
      BY <3>2 DEF Unplaced
    <3>4. page2 = [page EXCEPT ![e] = [@ EXCEPT !.place = place]]
      BY <2>3 DEF OnReaders
    <3>5. page[e] \in [own : RsvpRow, place : Nat] /\ e \in Events
      BY <3>2, <3>3
    <3> HIDE DEF place, page, page2
    <3>6. [page[e] EXCEPT !.place = place] = [own |-> page[e].own, place |-> place]
      BY <3>5
    <3>7. /\ page2 \in [S -> [own : RsvpRow, place : Nat]]
          /\ page2[e].own = page[e].own /\ page2[e].place = place
          /\ \A f \in S \ {e} : page2[f] = page[f]
      BY <3>1, <3>2, <3>3, <3>4, <3>5, <3>6
    <3>8. ASSUME \A w \in witnessed'[q] : w.mine[e].own = page2[e].own
          PROVE  \E w \in witnessed'[q] : page2[e].place = w.mine[e].place
      <4>1. rsvp[e][viewer] = page[e].own
        BY <1>3, <3>5, <3>7, <3>8
      <4>2. Truth(q).mine[e].place = place
        BY <1>3, <3>3, <3>5, <4>1, PlaceIsPosition DEF place, page
      <4>3. QED
        BY <1>3, <3>7, <4>2
    <3>9. MyPlaceWasTrue(q, e, found[q][e])'
      BY <3>8 DEF MyPlaceWasTrue, page2
    <3>10. ASSUME NEW f \in S \ {e}
           PROVE  f \in Unplaced(q)' \/ MyPlaceWasTrue(q, f, found[q][f])'
      <4>1. page2[f] = page[f] /\ f \in DOMAIN page2 /\ f \in DOMAIN page
        BY <3>2, <3>7
      <4>2. CASE f \in Unplaced(q)
        BY <4>1, <4>2 DEF Unplaced, page, page2
      <4>3. CASE MyPlaceWasTrue(q, f, found[q][f])
        BY <4>1, <4>3 DEF MyPlaceWasTrue, page, page2
      <4>4. QED
        BY <2>1, <4>1, <4>2, <4>3 DEF page
    <3>11. \A f \in S : WasMine(q, f)'
      BY <2>1, <3>2 DEF WasMine, page
    <3>12. page2 \in MyPages /\ DOMAIN page2 = S
      BY <3>7 DEF MyPages
    <3>13. QED
      BY <2>1, <2>3, <3>9, <3>10, <3>11, <3>12 DEF MineSoFar, page2
  <2>4. QED
    BY <1>5, <1>7, <2>2, <2>3 DEF ReadMyPlace
<1>8. QED
  BY <1>6, <1>7

-----------------------------------------------------------------------------
(* The invariant and what follows from it. *)

LEMMA ReadInvStep ==
  ASSUME ReadInv, [ReadNext]_readers
  PROVE  ReadInv'
<1> USE DEF ReadInv
<1>1. CASE UNCHANGED readers
  <2> USE <1>1 DEF readers, vars, readVars, tables
  <2>1. Isolation'
    BY IsolationStep
  <2>2. OnReaders'
    BY DEF OnReaders
  <2>3. ASSUME NEW q \in Readers
        PROVE  ReaderOK(q)'
    <3>1. SeesNow(q)'
      BY DEF ReaderOK, SeesNow, Reading, Truth, OwnRow
    <3>2. QED
      BY <3>1, FoundStays
  <2>4. QED
    BY <2>1, <2>2, <2>3
<1>2. ASSUME NEW q \in Readers, AskQuestion(q) \/ ReadStep(q), UNCHANGED vars, Witness
      PROVE  ReadInv'
  <2>1. Isolation'
    BY <1>2, IsolationStep
  <2>2. \A p \in Readers : /\ witnessed[p] \subseteq witnessed'[p]
                           /\ SeesNow(p)'
    BY <1>2, WitnessStep
  <2>3. /\ OnReaders'
        /\ \A p \in Readers \ {q} : /\ question'[p] = question[p] /\ at'[p] = at[p]
                                    /\ row'[p] = row[p] /\ found'[p] = found[p]
    <3>1. witnessed' = [p \in Readers |-> witnessed'[p]]
      BY <1>2, WitnessStep
    <3>2. /\ question' = question \/ \E x : question' = [question EXCEPT ![q] = x]
          /\ at' = at \/ \E x : at' = [at EXCEPT ![q] = x]
          /\ row' = row \/ \E x : row' = [row EXCEPT ![q] = x]
          /\ found' = found \/ \E x : found' = [found EXCEPT ![q] = x]
      BY <1>2 DEF AskQuestion, ReadStep, ReadEvent, ReadViewerRow, ReadPlace, CheckOrganiser,
                  CheckParticipant, ReadRosterPage, CountRoster, ReadMyPage, ReadMyPlace,
                  Answers, Refuses, Goes
    <3>3. QED
      BY <3>1, <3>2 DEF OnReaders
  <2>4. ReaderOK(q)'
    BY <1>2, <2>2, AskStep, DetailStep, RosterStep, MineStep DEF ReadStep
  <2>5. \A p \in Readers \ {q} : ReaderOK(p)'
    BY <2>2, <2>3, FoundStays
  <2>6. QED
    BY <2>1, <2>3, <2>4, <2>5
<1>3. CASE Next /\ UNCHANGED <<question, at, row, found>> /\ Witness
  <2>1. Isolation'
    BY <1>3, IsolationStep
  <2>2. OnReaders'
    BY <1>3, WitnessStep DEF OnReaders, Witness
  <2>3. ASSUME NEW q \in Readers
        PROVE  ReaderOK(q)'
    BY <1>3, WitnessStep, FoundStays
  <2>4. QED
    BY <2>1, <2>2, <2>3
<1>4. QED
  BY <1>1, <1>2, <1>3 DEF ReadNext

LEMMA ReadInvInit == ReadInit => ReadInv
<1> SUFFICES ASSUME ReadInit
             PROVE  ReadInv
  OBVIOUS
<1>1. Isolation
  BY IsolationInit DEF ReadInit
<1>2. OnReaders
  BY DEF ReadInit, OnReaders
<1>3. ASSUME NEW q \in Readers
      PROVE  ReaderOK(q)
  <2>1. at[q] = "idle"
    BY DEF ReadInit
  <2>2. QED
    BY <2>1 DEF ReaderOK, Asked, SeesNow, Reading, DetailSoFar, RosterSoFar, MineSoFar, Answered
<1>4. QED
  BY <1>1, <1>2, <1>3 DEF ReadInv

LEMMA ReadInvariant == ReadSpec => []ReadInv
BY ReadInvInit, ReadInvStep, PTL DEF ReadSpec, readers

(* Every part of what the event page answers was true at some moment while *)
(* the request ran, the place in the queue included if the caller kept it. *)
THEOREM DetailIsTrue == ReadSpec => []DetailWasTrue
<1>1. ReadInv => DetailWasTrue
  BY DEF ReadInv, ReaderOK, DetailSoFar, DetailWasTrue, EventWasTrue, StatusWasTrue,
         PlaceWasTrue
<1>2. QED
  BY <1>1, ReadInvariant, PTL

(* The list of attendees goes to the organiser and to participants alone. *)
THEOREM RosterIsForParticipants == ReadSpec => []RosterForParticipants
<1>1. ReadInv => RosterForParticipants
  BY DEF ReadInv, ReaderOK, RosterSoFar, RosterForParticipants
<1>2. QED
  BY <1>1, ReadInvariant, PTL

(* "My RSVPs" shows events on which the caller was active, each with the   *)
(* place the caller had at some moment of the request.                     *)
THEOREM MineAreTrue == ReadSpec => []MineWereActive
<1>1. ReadInv => MineWereActive
  BY DEF ReadInv, ReaderOK, MineSoFar, MineWereActive, Answered, WasMine, MyPlaceWasTrue
<1>2. QED
  BY <1>1, ReadInvariant, PTL

(* The readers do not disturb the writers: whatever is proved of           *)
(* RsvpService holds beside any reads.                                     *)
THEOREM ReadsOnlyRead == ReadSpec => Spec
<1>1. ReadInit => Init
  BY DEF ReadInit
<1>2. [ReadNext]_readers => [Next]_vars
  BY DEF ReadNext, readers
<1>3. QED
  BY <1>1, <1>2, PTL DEF ReadSpec, Spec, readers

-----------------------------------------------------------------------------
(* The page of waiting people is numbered as waitlistPositionOf counts.    *)

(* QUEUE_ORDER tells waiting people apart. *)
LEMMA QueueIsOrdered ==
  ASSUME NEW rows, \A u \in UsersWith(rows, "WAITLISTED") : rows[u].queuedAt \in Nat
  PROVE  Orders(UsersWith(rows, "WAITLISTED"), ListOrder(rows, "WAITLISTED"))
<1> DEFINE waiting == UsersWith(rows, "WAITLISTED")
<1>1. waiting \subseteq Nat
  BY Parameters DEF UsersWith
<1>2. \A u, v \in waiting : <<u, v>> \in ListOrder(rows, "WAITLISTED") <=> AheadOf(rows, u, v)
  BY DEF ListOrder
<1> HIDE DEF waiting
<1>3. \A u \in waiting : ~AheadOf(rows, u, u)
  BY <1>1 DEF AheadOf, waiting
<1>4. \A u, v \in waiting : u # v => AheadOf(rows, u, v) \/ AheadOf(rows, v, u)
  BY <1>1 DEF AheadOf, waiting
<1>5. \A u, v, w \in waiting : AheadOf(rows, u, v) /\ AheadOf(rows, v, w) => AheadOf(rows, u, w)
  BY <1>1 DEF AheadOf, waiting
<1>6. Orders(waiting, ListOrder(rows, "WAITLISTED"))
  BY <1>2, <1>3, <1>4, <1>5 DEF Orders
<1>7. QED
  BY <1>6 DEF waiting

(* A waiting person's rank in the list is the place counted. *)
LEMMA RankIsPlace ==
  ASSUME NEW rows, NEW u \in UsersWith(rows, "WAITLISTED")
  PROVE  Rank(UsersWith(rows, "WAITLISTED"), ListOrder(rows, "WAITLISTED"), u)
           = PlaceOf(rows, rows[u], u)
<1>1. Before(UsersWith(rows, "WAITLISTED"), ListOrder(rows, "WAITLISTED"), u)
        = {v \in UsersWith(rows, "WAITLISTED") :
             \/ rows[v].queuedAt < rows[u].queuedAt
             \/ rows[v].queuedAt = rows[u].queuedAt /\ v < u}
  BY DEF Before, ListOrder, AheadOf
<1>2. QED
  BY <1>1 DEF Rank, PlaceOf

(* A page holds a stretch of the list, from the offset on. *)
LEMMA PageEntries ==
  ASSUME NEW S, NEW list \in Seq(S), NEW skip \in Nat, NEW limit \in Nat,
         NEW i \in DOMAIN Page(list, skip, limit)
  PROVE  /\ skip + i \in 1..Len(list)
         /\ Page(list, skip, limit)[i] = list[skip + i]
<1> DEFINE last == IF skip + limit < Len(list) THEN skip + limit ELSE Len(list)
<1>1. Len(list) \in Nat
  OBVIOUS
<1>2. last \in Nat /\ last <= Len(list) /\ skip + 1 \in Nat
  BY <1>1
<1> HIDE DEF last
<1>3. \A j \in (skip + 1)..last : j \in 1..Len(list)
  BY <1>1, <1>2
<1>4. SubSeq(list, skip + 1, last) = [j \in 1..(last - skip) |-> list[skip + j]]
  BY <1>1, <1>2, <1>3, SubSeqProperties
<1>5. QED
  BY <1>1, <1>2, <1>4 DEF Page, last

(* Numbering the page by its offset gives everybody on it the place that   *)
(* counting would (listAttendees, waitlistPositionOf).                     *)
THEOREM OffsetsArePlaces == ReadSpec => []OffsetIsPlace
<1>1. WaitersAreTimed => OffsetIsPlace
  <2> SUFFICES ASSUME WaitersAreTimed, NEW e \in Events, NEW skip \in Nat, NEW limit \in Nat,
                      NEW ask, ask = [status |-> "WAITLISTED", skip |-> skip, limit |-> limit],
                      NEW entry \in RosterPage(rsvp[e], ask)
               PROVE  entry.place = PlaceOf(rsvp[e], rsvp[e][entry.user], entry.user)
    <3>1. 1 \in Nat /\ 2 \in Nat /\ 0..Cardinality(Users) \subseteq Nat
      OBVIOUS
    <3>2. QED
      BY <3>1 DEF OffsetIsPlace
  <2> DEFINE waiting == UsersWith(rsvp[e], "WAITLISTED")
             order == ListOrder(rsvp[e], "WAITLISTED")
             list == Listed(rsvp[e], "WAITLISTED")
             n == Cardinality(waiting)
  <2>1. IsFiniteSet(waiting) /\ n \in Nat
    BY UsersWithFinite
  <2>2. Orders(waiting, order)
    BY QueueIsOrdered DEF WaitersAreTimed
  <2>3. list \in [1..n -> waiting] /\ \A i \in 1..n : Rank(waiting, order, list[i]) = i
    BY <2>1, <2>2, SortedByRank DEF Listed
  <2>4. PICK i \in DOMAIN Page(list, skip, limit) :
          entry = [user |-> Page(list, skip, limit)[i], place |-> skip + i]
    BY DEF RosterPage
  <2> HIDE DEF list, n
  <2>5. list \in Seq(waiting) /\ Len(list) = n
    BY <2>1, <2>3
  <2>6. skip + i \in 1..n /\ entry.user = list[skip + i] /\ entry.place = skip + i
    BY <2>4, <2>5, PageEntries
  <2>7. entry.user \in waiting /\ Rank(waiting, order, entry.user) = skip + i
    BY <2>3, <2>6
  <2>8. QED
    BY <2>6, <2>7, RankIsPlace
<1>2. QED
  BY <1>1, ReadsOnlyRead, TimedInvariant, PTL
=============================================================================
