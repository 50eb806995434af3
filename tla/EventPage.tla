----------------------------- MODULE EventPage ------------------------------
(***************************************************************************)
(* The event page of the web client and the part of the API it talks to:   *)
(* loads that are aborted when the page moves on and loads that nobody     *)
(* aborts, RSVPs and cancellations whose answers may be lost, late or      *)
(* broken off, the session check of a hard refresh, and the seat, which    *)
(* the organiser and other people may change meanwhile.                    *)
(***************************************************************************)
EXTENDS Integers, FiniteSets

CONSTANTS
  Ids,              \* events whose pages the person visits
  MaxRequests,      \* bound on the requests of a run
  MaxFaults,        \* bound on answers that do not arrive
  MaxJumps,         \* bound on moves from one event's page to another's
  MaxPromotions,    \* bound on promotions from the waitlist
  Nothing

(* The page's first load is always sent. *)
PageParameters == MaxRequests \in Nat \ {0}

VARIABLES
  seat, changed,       \* the API: the person's place, and how often it changed
  request, sent,       \* the requests, numbered as they were sent
  id, auth,            \* the page's event; the session: checking, out or in
  event, error, isSubmitting, isConfirmingCancel,     \* React state
  handler,             \* the handler that runs: its event, and what it awaits
  page,                \* the load that the page's effect will abort
  notice,              \* the last toast
  jumps, promotions, faults,
  settled,             \* history: changes of the seat when a join had ended
  stray                \* history: loads that nobody aborts got in the page's way

server == <<seat, changed>>
screen == <<event, error, isSubmitting, isConfirmingCancel>>
bounds == <<jumps, promotions, faults>>
vars == <<server, request, sent, id, auth, screen, handler, page, notice,
          bounds, settled, stray>>

Numbers == 1..MaxRequests
Idle == [does |-> "nothing", ev |-> Nothing, awaits |-> 0]

(* outcome is the client's side of the request, done the API's: a request  *)
(* the client has given up may still be carried out later.                 *)
Ask(kind, e, signedIn) ==
  [kind |-> kind, ev |-> e, signedIn |-> signedIn, outcome |-> "none",
   done |-> FALSE, aborted |-> FALSE, code |-> "", shows |-> Nothing]

UserIsKnown == auth = "in"
TokenIsSent == auth # "out"

Waiting == {n \in 1..sent : request[n].outcome = "none" /\ ~request[n].aborted}

(* The loads whose answer the page would still show, and those of them     *)
(* that no cleanup will abort: Try again's and a handler's.                *)
Loading == {n \in 1..sent : /\ request[n].kind = "load" /\ ~request[n].aborted
                            /\ request[n].outcome \notin {"told", "untold"}}
Unguarded == Loading \ {page}

-----------------------------------------------------------------------------
(* A new request; the requests in gone are aborted first. *)
Send(kind, e, gone) ==
  /\ sent < MaxRequests /\ sent' = sent + 1
  /\ request' = [n \in Numbers |->
       IF n = sent + 1 THEN Ask(kind, e, TokenIsSent')
       ELSE IF n \in gone THEN [request[n] EXCEPT !.aborted = TRUE] ELSE request[n]]

Init ==
  /\ seat \in [Ids -> {"out", "CONFIRMED", "WAITLISTED"}]
  /\ changed = [e \in Ids |-> 0]
  /\ auth \in {"checking", "out", "in"}
  /\ id \in Ids
  /\ request = [n \in Numbers |-> Ask("load", id, auth # "out")]
  /\ sent = 1 /\ page = 1
  /\ event = Nothing /\ error = FALSE /\ isSubmitting = FALSE
  /\ isConfirmingCancel = FALSE
  /\ handler = Idle /\ notice = ""
  /\ jumps = 0 /\ promotions = 0 /\ faults = 0
  /\ settled = changed /\ stray = FALSE

(* Mutant of AbortedByCleanup: the effect has no cleanup. *)
NothingAborted == {}

(* The cleanup aborts the load the effect started, and no other one. *)
AbortedByCleanup == {page}

(* The effect of [load, user?.id]: the screen is emptied, a load begins.   *)
(* An unguarded load, or a handler that will start one, outlives it.       *)
EffectRuns(e) ==
  /\ event' = Nothing /\ error' = FALSE
  /\ Send("load", e, AbortedByCleanup)
  /\ page' = sent + 1
  /\ stray' = (Unguarded # {} \/ handler # Idle)
  /\ UNCHANGED <<isSubmitting, isConfirmingCancel>>

(* Back and forward may lead from one event's page to another's: the       *)
(* component stays mounted, only its id changes.                           *)
Jump(e) ==
  /\ jumps < MaxJumps /\ jumps' = jumps + 1
  /\ e # id /\ id' = e
  /\ UNCHANGED auth
  /\ EffectRuns(e)
  /\ UNCHANGED <<server, handler, notice, promotions, faults, settled>>

(* The session check of a hard refresh ends; a user it found re-runs the   *)
(* effect, a refusal leaves user?.id as it was.                            *)
SessionChecked ==
  /\ auth = "checking"
  /\ \/ auth' = "in" /\ EffectRuns(id)
     \/ auth' = "out" /\ UNCHANGED <<screen, request, sent, page, stray>>
  /\ UNCHANGED <<server, id, handler, notice, bounds, settled>>

-----------------------------------------------------------------------------
(* The screen shows the event, so its buttons can be pressed. *)
Usable == event # Nothing /\ ~error

(* What handleJoin and handleLeave start with. *)
Submits(kind) ==
  /\ auth' = auth
  /\ isSubmitting' = TRUE
  /\ Send(kind, id, {})
  /\ handler' = [does |-> kind, ev |-> id, awaits |-> sent + 1]

(* handleJoin of a signed-in person; anyone else is sent to /login. *)
PressJoin ==
  /\ Usable /\ UserIsKnown /\ ~isSubmitting
  /\ event.seat = "out"
  /\ Submits("join")
  /\ UNCHANGED <<server, id, event, error, isConfirmingCancel, page, notice, bounds,
                 settled, stray>>

(* onLeave: a confirmed place asks first, a place in the queue does not. *)
PressLeave ==
  /\ Usable /\ UserIsKnown /\ ~isSubmitting
  /\ \/ /\ event.seat = "CONFIRMED"
        /\ isConfirmingCancel' = TRUE
        /\ UNCHANGED <<auth, isSubmitting, request, sent, handler>>
     \/ /\ event.seat = "WAITLISTED"
        /\ Submits("leave")
        /\ UNCHANGED isConfirmingCancel
  /\ UNCHANGED <<server, id, event, error, page, notice, bounds, settled, stray>>

(* The two buttons of the dialog; it is not rendered without an event. *)
ConfirmLeave ==
  /\ Usable /\ isConfirmingCancel /\ ~isSubmitting
  /\ Submits("leave")
  /\ UNCHANGED <<server, id, event, error, isConfirmingCancel, page, notice, bounds,
                 settled, stray>>

KeepPlace ==
  /\ Usable /\ isConfirmingCancel
  /\ isConfirmingCancel' = FALSE
  /\ UNCHANGED <<server, request, sent, id, auth, event, error, isSubmitting, handler,
                 page, notice, bounds, settled, stray>>

(* Try again: a load without a signal.  setError(null) puts the old event, *)
(* with its buttons, on screen again until that load lands.                *)
TryAgain ==
  /\ error
  /\ error' = FALSE /\ auth' = auth
  /\ Send("load", id, {})
  /\ stray' = (stray \/ Loading # {})
  /\ UNCHANGED <<server, id, event, isSubmitting, isConfirmingCancel, handler, page,
                 notice, bounds, settled>>

-----------------------------------------------------------------------------
(* The API carries a request out.  Every RSVP has an Idempotency-Key of    *)
(* its own, so none is ever answered from the record of another.           *)
Seats(n, to, code) ==
  /\ seat' = [seat EXCEPT ![request[n].ev] = to]
  /\ changed' = [changed EXCEPT ![request[n].ev] = @ + 1]
  /\ request' = [request EXCEPT ![n].done = TRUE, ![n].code = code]

Rejects(n, code) ==
  /\ request' = [request EXCEPT ![n].done = TRUE, ![n].code = code]
  /\ UNCHANGED server

Serve(n) ==
  /\ n <= sent /\ ~request[n].done
  /\ LET r == request[n] IN
     \/ /\ r.kind = "load"
        /\ request' = [request EXCEPT ![n].done = TRUE, ![n].code = "OK", ![n].shows =
             [ev |-> r.ev, asOf |-> changed[r.ev],
              seat |-> IF r.signedIn THEN seat[r.ev] ELSE "out"]]
        /\ UNCHANGED server
     \/ /\ r.kind = "join" /\ seat[r.ev] = "out"
        /\ \/ \E to \in {"CONFIRMED", "WAITLISTED"} : Seats(n, to, "OK")
           \/ Rejects(n, "EVENT_FULL")
     \/ /\ r.kind = "join" /\ seat[r.ev] # "out"
        /\ Rejects(n, "RSVP_ALREADY_EXISTS")
     \/ /\ r.kind = "leave" /\ seat[r.ev] # "out"
        /\ Seats(n, "out", "OK")
     \/ /\ r.kind = "leave" /\ seat[r.ev] = "out"
        /\ Rejects(n, "RSVP_NOT_FOUND")
  /\ UNCHANGED <<sent, id, auth, screen, handler, page, notice, bounds, settled, stray>>

(* Somebody else's cancellation moves the person into a place. *)
Promoted(e) ==
  /\ promotions < MaxPromotions /\ promotions' = promotions + 1
  /\ seat[e] = "WAITLISTED"
  /\ seat' = [seat EXCEPT ![e] = "CONFIRMED"]
  /\ changed' = [changed EXCEPT ![e] = @ + 1]
  /\ UNCHANGED <<request, sent, id, auth, screen, handler, page, notice, jumps, faults,
                 settled, stray>>

(* The answer arrives; or the network fails, before or after the API has   *)
(* done its work; or the connection breaks inside the body of an answer,   *)
(* which only an answer with a body can meet (request in client.ts).       *)
HasBody(r) == ~(r.kind = "leave" /\ r.code = "OK")

Travels(n) ==
  /\ n \in Waiting
  /\ \/ /\ request[n].done
        /\ request' = [request EXCEPT ![n].outcome = "answered"]
        /\ UNCHANGED faults
     \/ /\ faults < MaxFaults /\ faults' = faults + 1
        /\ request' = [request EXCEPT ![n].outcome = "unreachable"]
     \/ /\ faults < MaxFaults /\ faults' = faults + 1
        /\ request[n].done /\ HasBody(request[n])
        /\ request' = [request EXCEPT ![n].outcome = "broken"]
  /\ UNCHANGED <<server, sent, id, auth, screen, handler, page, notice, jumps, promotions,
                 settled, stray>>

-----------------------------------------------------------------------------
Unlanded(n) == /\ n <= sent /\ ~request[n].aborted
               /\ request[n].outcome \in {"answered", "unreachable", "broken"}
Landed(n) == IF request[n].outcome = "answered" THEN "told" ELSE "untold"
Lands(n) == request' = [request EXCEPT ![n].outcome = Landed(n)]

(* setEvent, or setError; load never throws. *)
Shows(n) ==
  \/ request[n].outcome = "answered" /\ event' = request[n].shows /\ UNCHANGED error
  \/ request[n].outcome # "answered" /\ error' = TRUE /\ UNCHANGED event

LoadLands(n) ==
  /\ Unlanded(n) /\ request[n].kind = "load" /\ n # handler.awaits
  /\ Lands(n)
  /\ Shows(n)
  /\ UNCHANGED <<server, sent, id, auth, isSubmitting, isConfirmingCancel, handler, page,
                 notice, bounds, settled, stray>>

(* The toast of a failed join.  An answer the client could not read throws *)
(* something other than an ApiError.                                       *)
Notice(n) ==
  IF request[n].outcome = "answered" THEN request[n].code
  ELSE IF request[n].outcome = "unreachable" THEN "NETWORK_ERROR" ELSE "WASNT_CHANGED"

Succeeded(n) == request[n].outcome = "answered" /\ request[n].code = "OK"

(* Mutant of ReloadsAfterJoin: only a success reloads the page. *)
ReloadsAfterSuccess(n) == Succeeded(n)

(* handleJoin awaits load() after a success and after a failure. *)
ReloadsAfterJoin(n) == TRUE

(* handleLeave does so only after a success. *)
Reloads(n) == IF request[n].kind = "join" THEN ReloadsAfterJoin(n) ELSE Succeeded(n)

(* The finally block. *)
Finished(n) == isSubmitting' = FALSE /\ handler' = Idle

Ended(n) == settled' = [settled EXCEPT ![request[n].ev] =
                          IF request[n].kind = "join" THEN changed[request[n].ev] ELSE @]

(* The await of api.rsvp or api.cancelRsvp ends; load() is that of the     *)
(* render the handler belongs to, and reads that render's event.           *)
MutationLands(n) ==
  /\ Unlanded(n) /\ request[n].kind # "load" /\ n = handler.awaits
  /\ notice' = IF Succeeded(n) THEN notice ELSE Notice(n)
  /\ auth' = auth
  /\ IF Reloads(n)
     THEN /\ sent < MaxRequests /\ sent' = sent + 1
          /\ request' = [request EXCEPT ![n].outcome = Landed(n),
                           ![sent + 1] = Ask("load", handler.ev, TokenIsSent)]
          /\ handler' = [handler EXCEPT !.awaits = sent + 1]
          /\ error' = FALSE
          /\ stray' = (stray \/ Loading # {})
          /\ UNCHANGED isSubmitting
     ELSE /\ Lands(n)
          /\ Finished(n)
          /\ UNCHANGED <<sent, error, stray>>
  /\ Ended(n)
  /\ UNCHANGED <<server, id, event, isConfirmingCancel, page, bounds>>

(* The await of load() ends and the handler with it. *)
HandlerEnds(n) ==
  /\ Unlanded(n) /\ request[n].kind = "load" /\ n = handler.awaits
  /\ Lands(n)
  /\ Shows(n)
  /\ isConfirmingCancel' = (isConfirmingCancel /\ handler.does # "leave")
  /\ isSubmitting' = FALSE /\ handler' = Idle
  /\ UNCHANGED <<server, sent, id, auth, page, notice, bounds, settled, stray>>

Landing(n) == LoadLands(n) \/ MutationLands(n) \/ HandlerEnds(n)

Next ==
  \/ SessionChecked \/ PressJoin \/ PressLeave \/ ConfirmLeave \/ KeepPlace \/ TryAgain
  \/ \E e \in Ids : Jump(e) \/ Promoted(e)
  \/ \E n \in Numbers : Serve(n) \/ Travels(n) \/ Landing(n)

Spec == Init /\ [][Next]_vars

(* The API answers what it receives and the browser settles every fetch. *)
FairSpec ==
  Spec /\ \A n \in Numbers : WF_vars(Serve(n)) /\ WF_vars(Travels(n)) /\ WF_vars(Landing(n))

-----------------------------------------------------------------------------
(* A load the page has moved on from does not put its event on the screen  *)
(* of another one, however late it is answered (EventDetailPage's effect). *)
(* ~stray excludes what the code does not guard: a load of Try again or of *)
(* a handler, or a handler still to start one, that was under way when the *)
(* effect ran, and an unguarded load sent beside another.  It lasts until  *)
(* the effect next runs with none of these under way.                      *)
SlowLoadIgnored == event # Nothing /\ ~stray => event.ev = id

(* Once a join has ended, however it ended, and the button can be pressed  *)
(* again, what the page shows was read after that: it shows a place the    *)
(* API gave even when the answer that said so was lost.  Two exceptions    *)
(* are the code's: while a load without a signal is under way (Try again   *)
(* after the read-back failed) the event of before the join is on screen,  *)
(* its button enabled; and when a join pressed there ends before that load *)
(* does, two loads race that nobody orders, and the older may be shown     *)
(* last (~stray, which excludes what it does in SlowLoadIgnored).          *)
JoinIsReadBack ==
  Usable /\ ~isSubmitting /\ ~stray => event.asOf >= settled[id] \/ Unguarded # {}

(* "Joining..." and "Cancelling..." do not last. *)
Pending == isSubmitting /\ sent < MaxRequests
SubmittingEnds == Pending ~> ~Pending

(* "if the response is lost in transit, the user's retry ... resolves to   *)
(* the original outcome instead of a confusing 'you have already RSVP'd'"  *)
(* (client.ts): someone whose only presses were joins, and whose first     *)
(* answer was lost, is not told so.                                        *)
RetryResolves ==
  ~(/\ notice = "RSVP_ALREADY_EXISTS"
    /\ \A n \in 1..sent : request[n].kind # "leave"
    /\ \E n \in 1..sent : /\ request[n].kind = "join" /\ request[n].code = "OK"
                         /\ request[n].outcome = "untold")

(* "We couldn't reach the server. Your RSVP wasn't changed."               *)
(* (EventDetailPage): when that is said, it is so.                         *)
UnchangedIsUnchanged ==
  notice = "WASNT_CHANGED" => \A n \in 1..sent : request[n].kind = "join" => request[n].code # "OK"

(* "The caller is either not signed in, able to join, confirmed, queued"   *)
(* (AttendanceModule): a place is not shown beside the offer to sign in.   *)
StatesExclude == Usable /\ event.seat # "out" => UserIsKnown
=============================================================================
