----------------------------- MODULE RsvpReads -----------------------------
(***************************************************************************)
(* The read side of the API beside the write path: the event page's        *)
(* findOne, the attendee list behind its permission check, and the         *)
(* caller's own RSVPs.  Each is a sequence of statements outside any       *)
(* transaction that could hold them together: the two statements of a      *)
(* $transaction([...]) run READ COMMITTED and see two snapshots.  Writers  *)
(* are the requests of RsvpService, which no read waits for.               *)
(***************************************************************************)
EXTENDS RsvpService, Ordering, Sequences

CONSTANTS
  Readers,     \* GET requests; each is made at most once
  Questions,   \* what they may ask
  Anonymous    \* the viewer of a request without a token

(* mine: both events still to come, or past ones.  skip and limit: the     *)
(* page; status: the list of attendees that is asked for.                  *)
Question ==
  [kind : {"detail", "roster", "mine"}, viewer : Users \cup {Anonymous},
   event : Events, status : {"CONFIRMED", "WAITLISTED"}, upcoming : BOOLEAN,
   skip : Nat, limit : Nat \ {0}]

(* Only the event page is public. *)
ASSUME ReadersAsk ==
  /\ Questions \subseteq Question /\ Anonymous \notin Users
  /\ \A ask \in Questions : ask.viewer = Anonymous => ask.kind = "detail"

VARIABLES
  question,    \* what each reader asked
  at,          \* the statement each reader is at
  row,         \* the viewer's RSVP row as it was read
  found,       \* the answer so far
  witnessed    \* history: what was true of the question since it was asked

readVars == <<question, at, row, found, witnessed>>

Nobody == [status |-> "NONE", place |-> 0]

-----------------------------------------------------------------------------
(* The answers. *)

(* toEventResponse: the count is the row's, the rest is derived from it. *)
EventResponse(ev) ==
  [status |-> ev.status, confirmedCount |-> ev.confirmedCount,
   spotsRemaining |-> IF ev.capacity = Unlimited THEN Unlimited
                      ELSE IF ev.capacity < ev.confirmedCount THEN 0
                      ELSE ev.capacity - ev.confirmedCount,
   isFull |-> ev.capacity # Unlimited /\ ev.confirmedCount >= ev.capacity]

(* Mutant of PlaceOf: equal times are not told apart. *)
PlaceByTime(rows, own, u) ==
  1 + Cardinality({v \in UsersWith(rows, "WAITLISTED") :
                     rows[v].queuedAt < own.queuedAt})

(* waitlistPositionOf: counted against the row as it was read earlier. *)
PlaceOf(rows, own, u) ==
  1 + Cardinality({v \in UsersWith(rows, "WAITLISTED") :
                     \/ rows[v].queuedAt < own.queuedAt
                     \/ rows[v].queuedAt = own.queuedAt /\ v < u})

(* Mutant of MaySeeAttendees: any row will do, a cancelled one too. *)
EverHadRow(own) == own.status # "NONE"

(* assertMaySeeAttendees: a current participant. *)
MaySeeAttendees(own) == Active(own)

(* The rows of one status in the order of the list.  Waiting people come   *)
(* in QUEUE_ORDER; the order of the others is by updatedAt, which nothing  *)
(* here depends on.                                                        *)
ListOrder(rows, status) ==
  {p \in UsersWith(rows, status) \X UsersWith(rows, status) :
     IF status = "WAITLISTED" THEN AheadOf(rows, p[1], p[2]) ELSE p[1] < p[2]}

Listed(rows, status) == Sorted(UsersWith(rows, status), ListOrder(rows, status))

Page(list, skip, limit) ==
  SubSeq(list, skip + 1, IF skip + limit < Len(list) THEN skip + limit ELSE Len(list))

(* listAttendees numbers a page by its offset instead of counting. *)
RosterPage(rows, q) ==
  LET page == Page(Listed(rows, q.status), q.skip, q.limit)
  IN  {[user |-> page[i], place |-> IF q.status = "WAITLISTED" THEN q.skip + i ELSE 0] :
         i \in DOMAIN page}

(* Mutant of MyEvents: a cancelled RSVP is shown as well. *)
MyEventsEver(u, upcoming, t) ==
  {e \in Events : /\ event[e] # Gone
                  /\ EverHadRow(rsvp[e][u])
                  /\ upcoming <=> event[e].endsAt >= t}

(* The events on the first page of listMyRsvps; the page is large enough. *)
MyEvents(u, upcoming, t) ==
  {e \in Events : /\ event[e] # Gone
                  /\ Active(rsvp[e][u])
                  /\ upcoming <=> event[e].endsAt >= t}

-----------------------------------------------------------------------------
(* What is true of a question in the current state. *)

OwnRow(q) ==
  IF question[q].viewer = Anonymous THEN NoRow
  ELSE rsvp[question[q].event][question[q].viewer]

Truth(q) ==
  LET e == question[q].event
  IN  [event |-> event[e], own |-> OwnRow(q),
       place |-> IF question[q].viewer = Anonymous THEN 0
                 ELSE WaitlistPosition(rsvp[e], question[q].viewer),
       mine |-> IF question[q].kind # "mine" THEN <<>>
                ELSE [f \in Events |-> [own |-> rsvp[f][question[q].viewer],
                                       place |-> WaitlistPosition(rsvp[f], question[q].viewer)]]]

Reading(q) == at[q] \notin {"idle", "done", "refused"}

(* Every step of anybody adds to the history of the reads that are on. *)
Witness ==
  witnessed' = [q \in Readers |->
                  IF Reading(q)' THEN witnessed[q] \cup {Truth(q)'} ELSE witnessed[q]]

-----------------------------------------------------------------------------
ReadInit ==
  /\ Init
  /\ question = [q \in Readers |-> Nothing]
  /\ at = [q \in Readers |-> "idle"]
  /\ row = [q \in Readers |-> NoRow]
  /\ found = [q \in Readers |-> Nothing]
  /\ witnessed = [q \in Readers |-> {}]

Goes(q, place) == at' = [at EXCEPT ![q] = place]
Answers(q, a) == found' = [found EXCEPT ![q] = a] /\ Goes(q, "done")
Refuses(q, code) == found' = [found EXCEPT ![q] = code] /\ Goes(q, "refused")

AskQuestion(q) ==
  /\ at[q] = "idle"
  /\ \E ask \in Questions :
       /\ question' = [question EXCEPT ![q] = ask]
       /\ Goes(q, ask.kind)
  /\ UNCHANGED <<row, found>>

(* What findOne answers as if it did not exist. *)
Hidden(ev, owner, viewer) == ev # Gone => ev.status = "DRAFT" /\ owner # viewer

(* findOne, first statement.  A draft is its organiser's alone; without a   *)
(* viewer the answer ends here.                                            *)
ReadEvent(q) ==
  LET e == question[q].event
      viewer == question[q].viewer
      hidden == Hidden(event[e], Owner[e], viewer)
  IN  /\ at[q] = "detail"
      /\ \/ hidden /\ Refuses(q, "EVENT_NOT_FOUND")
         \/ /\ ~hidden
            /\ viewer = Anonymous
            /\ Answers(q, [event |-> EventResponse(event[e])])
         \/ /\ ~hidden
            /\ viewer # Anonymous
            /\ found' = [found EXCEPT ![q] = EventResponse(event[e])]
            /\ Goes(q, "viewer")
      /\ UNCHANGED <<question, row>>

(* getViewerRsvp, first statement.  A cancelled RSVP is none. *)
ReadViewerRow(q) ==
  LET own == OwnRow(q)
  IN  /\ at[q] = "viewer"
      /\ row' = [row EXCEPT ![q] = own]
      /\ \/ /\ own.status = "WAITLISTED"
            /\ Goes(q, "place")
            /\ UNCHANGED found
         \/ /\ own.status # "WAITLISTED"
            /\ Answers(q, [event |-> found[q],
                           viewer |-> IF Active(own) THEN [Nobody EXCEPT !.status = own.status]
                                      ELSE Nobody])
      /\ UNCHANGED question

(* getViewerRsvp, second statement. *)
ReadPlace(q) ==
  /\ at[q] = "place"
  /\ Answers(q, [event |-> found[q],
                 viewer |-> [status |-> row[q].status,
                             place |-> PlaceOf(rsvp[question[q].event], row[q],
                                               question[q].viewer)]])
  /\ UNCHANGED <<question, row>>

(* assertMaySeeAttendees, first statement. *)
CheckOrganiser(q) ==
  LET e == question[q].event
  IN  /\ at[q] = "roster"
      /\ \/ event[e] = Gone /\ Refuses(q, "EVENT_NOT_FOUND")
         \/ /\ event[e] # Gone
            /\ Goes(q, IF Owner[e] = question[q].viewer THEN "page" ELSE "own")
            /\ UNCHANGED found
      /\ UNCHANGED <<question, row>>

(* assertMaySeeAttendees, second statement. *)
CheckParticipant(q) ==
  /\ at[q] = "own"
  /\ \/ ~MaySeeAttendees(OwnRow(q)) /\ Refuses(q, "FORBIDDEN")
     \/ MaySeeAttendees(OwnRow(q)) /\ Goes(q, "page") /\ UNCHANGED found
  /\ UNCHANGED <<question, row>>

(* listAttendees: the page, then the count. *)
ReadRosterPage(q) ==
  /\ at[q] = "page"
  /\ found' = [found EXCEPT ![q] = RosterPage(rsvp[question[q].event], question[q])]
  /\ Goes(q, "count")
  /\ UNCHANGED <<question, row>>

CountRoster(q) ==
  /\ at[q] = "count"
  /\ Answers(q, [data |-> found[q],
                 total |-> Cardinality(UsersWith(rsvp[question[q].event],
                                                 question[q].status))])
  /\ UNCHANGED <<question, row>>

(* listMyRsvps: the page; its places are counted afterwards, one statement *)
(* for each waiting row (the count of the page itself says nothing new).   *)
ReadMyPage(q) ==
  LET u == question[q].viewer
      mine == MyEvents(u, question[q].upcoming, now)
  IN  /\ at[q] = "mine"
      /\ found' = [found EXCEPT ![q] =
                     [e \in mine |-> [own |-> rsvp[e][u], place |-> 0]]]
      /\ Goes(q, "places")
      /\ UNCHANGED <<question, row>>

Unplaced(q) == {e \in DOMAIN found[q] : /\ found[q][e].own.status = "WAITLISTED"
                                        /\ found[q][e].place = 0}

ReadMyPlace(q) ==
  /\ at[q] = "places"
  /\ \/ \E e \in Unplaced(q) :
          /\ found' = [found EXCEPT ![q][e].place =
                         PlaceOf(rsvp[e], found[q][e].own, question[q].viewer)]
          /\ UNCHANGED at
     \/ Unplaced(q) = {} /\ Answers(q, found[q])
  /\ UNCHANGED <<question, row>>

ReadStep(q) ==
  \/ ReadEvent(q) \/ ReadViewerRow(q) \/ ReadPlace(q)
  \/ CheckOrganiser(q) \/ CheckParticipant(q) \/ ReadRosterPage(q) \/ CountRoster(q)
  \/ ReadMyPage(q) \/ ReadMyPlace(q)

ReadNext ==
  \/ /\ \E q \in Readers : AskQuestion(q) \/ ReadStep(q)
     /\ UNCHANGED vars
     /\ Witness
  \/ /\ Next
     /\ UNCHANGED <<question, at, row, found>>
     /\ Witness

ReadSpec == ReadInit /\ [][ReadNext]_<<vars, readVars>>

-----------------------------------------------------------------------------
(* What a reader may rely on. *)

Answered(q, kind) ==
  at[q] = "done" /\ question[q].kind = kind

(* Although the statements of a read see different snapshots, every part   *)
(* of an answer was true at some moment while the request ran: the event   *)
(* part, the caller's status and, if the caller kept one place in the      *)
(* queue all along, the number (findOne, getViewerRsvp).                   *)
DetailWasTrue ==
  \A q \in Readers :
    Answered(q, "detail") /\ question[q].viewer # Anonymous =>
      LET told == found[q]
      IN  /\ \E w \in witnessed[q] : w.event # Gone /\ told.event = EventResponse(w.event)
          /\ \E w \in witnessed[q] : told.viewer.status = IF Active(w.own) THEN w.own.status
                                                          ELSE "NONE"
          /\ (\A w \in witnessed[q] : w.own = row[q]) =>
               \E w \in witnessed[q] : told.viewer.place = w.place

(* The list of attendees goes only to the organiser and to somebody who    *)
(* was confirmed or waiting at some moment of the request: an RSVP that    *)
(* was cancelled before it does not count (assertMaySeeAttendees).         *)
RosterForParticipants ==
  \A q \in Readers :
    Answered(q, "roster") /\ Owner[question[q].event] # question[q].viewer
      => \E w \in witnessed[q] : Active(w.own)

(* The place listAttendees derives from the page offset is the place       *)
(* waitlistPositionOf would count for the same person: the two ways the    *)
(* code numbers the queue agree in every committed state, ties and         *)
(* re-joins included.                                                      *)
OffsetIsPlace ==
  \A e \in Events, skip \in 0..Cardinality(Users), limit \in {1, 2} :
    \A entry \in RosterPage(rsvp[e], [status |-> "WAITLISTED", skip |-> skip, limit |-> limit]) :
      entry.place = PlaceOf(rsvp[e], rsvp[e][entry.user], entry.user)

(* "My RSVPs" never shows an event on which the caller was not active at   *)
(* any moment of the request, and the place it gives, counted later than   *)
(* the page was read, was the caller's place at some moment of the request *)
(* unless the caller's own row changed meanwhile.                          *)
MineWereActive ==
  \A q \in Readers :
    Answered(q, "mine") =>
      \A e \in DOMAIN found[q] :
        /\ \E w \in witnessed[q] : Active(w.mine[e].own)
        /\ (\A w \in witnessed[q] : w.mine[e].own = found[q][e].own) =>
             \E w \in witnessed[q] : found[q][e].place = w.mine[e].place
=============================================================================
