------------------------------ MODULE EventForm -----------------------------
(***************************************************************************)
(* The organiser's event form: one page component behind the routes "new"  *)
(* and "edit", which the router keeps mounted when the history jumps from  *)
(* one of them to another.  It loads the event, resolves wall-clock times  *)
(* in the event's zone, saves, and asks before it lets edits go.           *)
(***************************************************************************)
EXTENDS Integers, FiniteSets

CONSTANTS
  Events, Foreign,   \* the events, and those of somebody else
  Zones, Defaults,   \* zones an organiser may enter; a new form's wall clocks
  Instants,          \* instants an event may have, 0..11: two to a minute
  MaxLoads, MaxEdits, MaxSaves      \* bounds of one history

(* What the constants must satisfy; an instance assumes it. *)
FormsAndEvents ==
  /\ Foreign \subseteq Events /\ {"new", "away", "stay", "none"} \cap Events = {}
  /\ Instants \subseteq Nat

VARIABLES
  rows,              \* the server's events: startsAt, endsAt, timezone
  route,             \* "new", the event being edited, or "away"
  form, initialForm, originals,
  isLoading, loadError, saved, savedId, isSubmitting,
  loads,             \* GETs in flight: what for, and whether they were aborted
  save,              \* the POST or PATCH in flight
  blocked,           \* where the blocked navigation leads, "stay" when none
  loadCount, editCount, saveCount,
  source, touched,   \* history: what the form was filled from; fields edited since
  silent,            \* history: unsaved edits went without a question
  needless           \* history: the question was asked about saved edits

page == <<form, initialForm, originals, isLoading, loadError, saved, savedId, isSubmitting>>
counts == <<loadCount, editCount, saveCount>>
history == <<source, touched, silent, needless>>
vars == <<rows, route, page, loads, save, blocked, counts, history>>

Unset == 0 - 1       \* no value; also what an empty field holds
NoSource == [id |-> "none", startsAt |-> 0, endsAt |-> 0]
NoForm == [startsAt |-> Unset, endsAt |-> Unset, timezone |-> "none", rest |-> 0]
NoSave == [stage |-> "none", id |-> "new", from |-> NoSource, shown |-> NoForm,
           touched |-> {}, startsAt |-> 0, endsAt |-> 0]
NoOriginals == [startsAt |-> Unset, endsAt |-> Unset, timezone |-> "none"]

-----------------------------------------------------------------------------
(* Wall clocks are minutes.  In the zone "shifting" the clock jumps over   *)
(* minute 2 and shows minutes 3 and 4 twice.                               *)
Offset(zone, minute) ==
  IF zone # "shifting" \/ minute < 2 THEN 0 ELSE IF minute < 4 THEN 1 ELSE 0 - 1

toDateTimeLocal(i, zone) == (i \div 2) + Offset(zone, i \div 2)

Readings(wall, zone) == {2 * m : m \in {n \in 0..5 : n + Offset(zone, n) = wall}}

(* disambiguation: 'reject' *)
fromDateTimeLocal(wall, zone) ==
  IF Cardinality(Readings(wall, zone)) = 1
  THEN CHOOSE i \in Readings(wall, zone) : TRUE ELSE Unset

validTimeZone(zone) == zone \in {"plain", "shifting"}

(* Mutant of resolveEventTime: whatever the field shows. *)
resolveShown(wall, zone, iso, isoZone) == fromDateTimeLocal(wall, zone)

resolveEventTime(wall, zone, iso, isoZone) ==
  IF iso # Unset /\ isoZone = zone /\ toDateTimeLocal(iso, zone) = wall
  THEN iso ELSE fromDateTimeLocal(wall, zone)

resolveTime(key) ==
  resolveEventTime(form[key], form.timezone, originals[key], originals.timezone)

(* validate: every time readable in the zone, in order; rest stands for    *)
(* the other fields, 0 while they are too short to be accepted.            *)
validate ==
  /\ form.rest > 0
  /\ validTimeZone(form.timezone)
  /\ \A key \in {"startsAt", "endsAt"} : form[key] # Unset /\ resolveTime(key) # Unset
  /\ resolveTime("endsAt") > resolveTime("startsAt")

defaultState == [startsAt |-> Defaults.startsAt, endsAt |-> Defaults.endsAt,
                 timezone |-> "plain", rest |-> 0]

loadedForm(e) ==
  [startsAt |-> toDateTimeLocal(e.startsAt, e.timezone),
   endsAt |-> toDateTimeLocal(e.endsAt, e.timezone), timezone |-> e.timezone, rest |-> 1]

Init ==
  /\ \E z \in {"plain", "shifting"}, i, j \in Instants :
       i < j /\ rows = [e \in Events |-> [startsAt |-> i, endsAt |-> j, timezone |-> z]]
  /\ route = "away"
  /\ form = NoForm /\ initialForm = NoForm /\ originals = NoOriginals
  /\ isLoading = FALSE /\ loadError = FALSE /\ saved = FALSE /\ savedId = "none" /\ isSubmitting = FALSE
  /\ loads = {} /\ save = NoSave /\ blocked = "stay"
  /\ loadCount = 0 /\ editCount = 0 /\ saveCount = 0
  /\ source = NoSource /\ touched = {}
  /\ silent = FALSE /\ needless = FALSE

Dirty == form # initialForm /\ ~saved
Unsaved == form # initialForm /\ form # save.shown      \* what the user would lose
Displayed == route # "away" /\ ~loadError /\ ~isLoading /\ blocked = "stay"

(* The load effect: the previous load is aborted, an event asked for.      *)
AbortAll == {[l EXCEPT !.aborted = TRUE] : l \in loads}
Asks(t) ==
  IF t \in Events
  THEN /\ loadCount < MaxLoads /\ loadCount' = loadCount + 1
       /\ loads' = AbortAll \cup {[n |-> loadCount, id |-> t, aborted |-> FALSE]}
  ELSE loads' = AbortAll /\ UNCHANGED loadCount

Opens(t) ==
  /\ route' = t /\ Asks(t)
  /\ form' = defaultState /\ initialForm' = defaultState /\ originals' = NoOriginals
  /\ isLoading' = (t \in Events) /\ loadError' = FALSE
  /\ saved' = FALSE /\ savedId' = "none" /\ isSubmitting' = FALSE /\ save' = NoSave
  /\ source' = NoSource /\ touched' = {}

(* The component unmounts: nobody hears its calls any more. *)
Closes ==
  /\ route' = "away" /\ loads' = {} /\ save' = NoSave
  /\ form' = NoForm /\ initialForm' = NoForm /\ originals' = NoOriginals
  /\ isLoading' = FALSE /\ loadError' = FALSE /\ saved' = FALSE /\ savedId' = "none" /\ isSubmitting' = FALSE
  /\ source' = NoSource /\ touched' = {}
  /\ UNCHANGED loadCount

(* Between two forms only the effect's dependencies change; the effect     *)
(* that leads to the saved event runs again with the path.                 *)
Switches(t) ==
  /\ route' = t /\ Asks(t)
  /\ isLoading' = (t \in Events \/ isLoading)
  /\ UNCHANGED <<form, initialForm, originals, loadError, saved, savedId, isSubmitting, save, source, touched>>

Arrives(t) ==
  \/ route = "away" /\ t # "away" /\ Opens(t)
  \/ route # "away" /\ (t = "away" \/ savedId # "none") /\ Closes
  \/ route # "away" /\ t # "away" /\ savedId = "none" /\ Switches(t)

-----------------------------------------------------------------------------
(* A link, the back button or a jump in the history; useBlocker.           *)
Navigate(t) ==
  /\ blocked = "stay" /\ t # route
  /\ \/ ~Dirty /\ Arrives(t) /\ silent' = (silent \/ Unsaved)
        /\ UNCHANGED <<blocked, needless>>
     \/ Dirty /\ blocked' = t
        /\ UNCHANGED <<route, page, loads, save, loadCount, history>>
  /\ UNCHANGED <<rows, editCount, saveCount>>

(* The dialog "Leave without saving?". *)
Discard ==
  /\ blocked # "stay" /\ blocked' = "stay"
  /\ Arrives(blocked)
  /\ UNCHANGED <<rows, editCount, saveCount, silent, needless>>

KeepEditing ==
  /\ blocked # "stay" /\ blocked' = "stay"
  /\ UNCHANGED <<rows, route, page, loads, save, counts, history>>

(* Fills the form from the event, or shows an error for somebody else's.   *)
Fills(l) ==
  IF l.id \in Foreign
  THEN loadError' = TRUE /\ UNCHANGED <<form, initialForm, originals, source, touched>>
  ELSE /\ originals' = rows[l.id]
       /\ form' = loadedForm(rows[l.id]) /\ initialForm' = form'
       /\ source' = [id |-> l.id, startsAt |-> rows[l.id].startsAt, endsAt |-> rows[l.id].endsAt]
       /\ touched' = {} /\ UNCHANGED loadError

(* The finally of the load: of every load. *)
DoneLoading(l) == FALSE

LoadSettles(l) ==
  /\ loads' = loads \ {l} /\ isLoading' = DoneLoading(l)
  /\ \/ ~l.aborted /\ Fills(l)
     \/ ~l.aborted /\ loadError' = TRUE
        /\ UNCHANGED <<form, initialForm, originals, source, touched>>
     \/ l.aborted /\ UNCHANGED <<form, initialForm, originals, loadError, source, touched>>
  /\ UNCHANGED <<rows, route, saved, savedId, isSubmitting, save, blocked, counts, silent, needless>>

(* Typing; set. *)
Edit(key, value) ==
  /\ Displayed /\ editCount < MaxEdits /\ value # form[key]
  /\ form' = [form EXCEPT ![key] = value]
  /\ touched' = touched \cup {key}
  /\ editCount' = editCount + 1
  /\ UNCHANGED <<rows, route, initialForm, originals, isLoading, loadError, saved, savedId,
                 isSubmitting, loads, save, blocked, loadCount, saveCount, source, silent, needless>>

(* submit: the button is off while it saves, the fields are not.           *)
Submit ==
  /\ Displayed /\ ~isSubmitting /\ validate /\ saveCount < MaxSaves
  /\ isSubmitting' = TRUE /\ saveCount' = saveCount + 1
  /\ save' = [stage |-> "sent", id |-> route, from |-> source, shown |-> form,
              touched |-> touched,
              startsAt |-> resolveTime("startsAt"), endsAt |-> resolveTime("endsAt")]
  /\ UNCHANGED <<rows, route, form, initialForm, originals, isLoading, loadError, saved, savedId,
                 loads, blocked, loadCount, editCount, history>>

(* The API: PATCH replaces what the form sends, of one's own event.        *)
Serve ==
  /\ save.stage = "sent"
  /\ \/ /\ save.id \notin Foreign /\ save' = [save EXCEPT !.stage = "stored"]
        /\ rows' = IF save.id \in Events
                   THEN [rows EXCEPT ![save.id] = [startsAt |-> save.startsAt,
                           endsAt |-> save.endsAt, timezone |-> save.shown.timezone]]
                   ELSE rows
     \/ save' = [save EXCEPT !.stage = "failed"] /\ UNCHANGED rows
  /\ UNCHANGED <<route, page, loads, blocked, counts, history>>

(* The answer.  The effect that leads to the saved event runs before the   *)
(* one that tells the router the form is no longer dirty (useBlocker comes *)
(* after it), so the router judges by the render before; and it does not   *)
(* run for an event it has led to already.                                 *)
SavedAnew == save.id = "new" \/ savedId # save.id

SavedWhileDirty ==
  /\ save.stage = "stored" /\ Dirty /\ blocked' = "away"
  /\ needless' = (needless \/ ~Unsaved)
  /\ saved' = TRUE /\ savedId' = save.id
  /\ isSubmitting' = FALSE /\ save' = [save EXCEPT !.stage = "none"]
  /\ UNCHANGED <<rows, route, form, initialForm, originals, isLoading, loadError,
                 loads, counts, source, touched, silent>>

SavedAndGone ==
  /\ save.stage = "stored" /\ ~Dirty /\ SavedAnew /\ Closes
  /\ silent' = (silent \/ Unsaved)
  /\ UNCHANGED <<rows, blocked, editCount, saveCount, needless>>

SavedAgain ==
  /\ save.stage = "stored" /\ ~Dirty /\ ~SavedAnew
  /\ isSubmitting' = FALSE /\ save' = [save EXCEPT !.stage = "none"]
  /\ UNCHANGED <<rows, route, form, initialForm, originals, isLoading, loadError, saved, savedId,
                 loads, blocked, counts, history>>

SaveFailed ==
  /\ save.stage = "failed"
  /\ isSubmitting' = FALSE /\ save' = NoSave
  /\ UNCHANGED <<rows, route, form, initialForm, originals, isLoading, loadError, saved, savedId,
                 loads, blocked, counts, history>>

Next ==
  \/ \E t \in Events \cup {"new", "away"} : Navigate(t)
  \/ Discard \/ KeepEditing
  \/ \E l \in loads : LoadSettles(l)
  \/ \E key \in {"startsAt", "endsAt"}, v \in {Unset} \cup 0..5 : Edit(key, v)
  \/ \E z \in Zones : Edit("timezone", z)
  \/ \E x \in 0..2 : Edit("rest", x)
  \/ Submit \/ Serve \/ SavedWhileDirty \/ SavedAndGone \/ SavedAgain \/ SaveFailed

Spec == Init /\ [][Next]_vars

(* A fetch settles; an aborted one at once. *)
FairSpec == Spec /\ WF_vars(\E l \in loads : LoadSettles(l))

-----------------------------------------------------------------------------
(* "Preserve seconds and the exact instant on unchanged edits, including   *)
(* DST overlaps" (event-time.ts): a save of a form that was filled from    *)
(* its event moves no bound the organiser did not touch, whatever the page *)
(* showed and saved before.                                                *)
UntouchedTimesSurvive ==
  save.stage = "sent" /\ save.id \in Events /\ save.from.id = save.id =>
    \A key \in {"startsAt", "endsAt"} :
      save.touched \cap {key, "timezone"} = {} => save[key] = save.from[key]

(* "Wall-clock fields always correspond to the zone displayed beside them" *)
(* (event-time.ts): what is sent reads, in that zone, as it was displayed, *)
(* also around a change of the clocks and after the zone was changed.      *)
SentIsShown ==
  save.stage = "sent" =>
    \A key \in {"startsAt", "endsAt"} :
      toDateTimeLocal(save[key], save.shown.timezone) = save.shown[key]

(* Both: what the organiser did not touch stays, what is sent is what was  *)
(* on display.                                                             *)
TimesAreKept == UntouchedTimesSurvive /\ SentIsShown

(* The form stops saying that it loads, also when the history jumped from  *)
(* a form that was loading to one that loads nothing.                      *)
LoadingEnds == isLoading ~> ~isLoading

(* "showing an editable form for somebody else's event [...] would be a    *)
(* pointless dead end" (EventFormPage): it is never shown.                 *)
NoFormForOthers == ~(Displayed /\ route \in Foreign)

(* "Your changes haven't been saved" (the dialog of EventFormPage): it is  *)
(* not said of changes that have just been saved.                          *)
AsksOnlyWhenUnsaved == ~needless

(* "Stay here to finish, or leave and discard them" (the same dialog): the *)
(* page is not left with unsaved edits unless the organiser was asked.     *)
LeavesOnlyAsked == ~silent
=============================================================================
