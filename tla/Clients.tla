------------------------------- MODULE Clients -------------------------------
(***************************************************************************)
(* The clients of the API: the parts of the web client and the platform's  *)
(* prober.  They share no state; one of them, chosen at the start, moves   *)
(* in each behaviour, the variables of the others are Off.                 *)
(***************************************************************************)
EXTENDS Integers, Sequences, FiniteSets

CONSTANTS
  Parts,      \* the clients that may move
  Off, None, Empty, Nothing,
  Tokens, Owner, Flights, MaxCalls, MaxReloads,                 \* WebSession
  PageIds, PageRequests, MaxFaults, MaxJumps, MaxPromotions,    \* EventPage
  FormEvents, FormForeign, Zones, Defaults, Instants,           \* EventForm
  MaxFormLoads, MaxEdits, MaxSaves,
  Views, Limit, MaxTotal, MaxListLoads,                         \* ListPages
  Managed, ManagedForeign, RosterPages, MaxRows,                \* ManagePage
  MaxManageLoads, MaxChanges,
  MaxToasts,                                                    \* Toasts
  Probes, PoolSize, Timeout, MaxOutages, MaxStuck               \* HealthProbe

VARIABLES
  part,
  issued, valid, stored, token, user, sessionLoading, rendered, reader, flight, calls,
  reloads, mounted, tried,
  seat, changed, request, sent, pageId, auth, pageEvent, pageError, pageBusy,
  isConfirmingCancel, handler, guarded, notice, jumps, promotions, faults, settled, stray,
  formRows, route, form, initialForm, originals, formLoading, loadError, saved, savedId,
  saving, formLoads, save, blocked, formLoadCount, editCount, saveCount, source, touched,
  silent, needless,
  total, listQuery, result, listError, listBusy, listLoads, listLoadCount, errorOf,
  manageRows, manageId, tab, rosterPage, manageEvent, roster, waitingTotal, manageError,
  manageBusy, manageLoads, isConfirmingDelete, deleting, manageLoadCount, changeCount, named,
  toasts, nextId, isPaused, countdown, hovered, focused,
  db, outages, open, probeQuery, probeTimer, holding, waiting, probeStatus, sawUp, sawTrouble

sessionVars == <<issued, valid, stored, token, user, sessionLoading, rendered, reader, flight,
                 calls, reloads, mounted, tried>>
pageVars == <<seat, changed, request, sent, pageId, auth, pageEvent, pageError, pageBusy,
              isConfirmingCancel, handler, guarded, notice, jumps, promotions, faults,
              settled, stray>>
formVars == <<formRows, route, form, initialForm, originals, formLoading, loadError, saved,
              savedId, saving, formLoads, save, blocked, formLoadCount, editCount, saveCount,
              source, touched, silent, needless>>
listVars == <<total, listQuery, result, listError, listBusy, listLoads, listLoadCount, errorOf>>
manageVars == <<manageRows, manageId, tab, rosterPage, manageEvent, roster, waitingTotal,
                manageError, manageBusy, manageLoads, isConfirmingDelete, deleting,
                manageLoadCount, changeCount, named>>
toastVars == <<toasts, nextId, isPaused, countdown, hovered, focused>>
probeVars == <<db, outages, open, probeQuery, probeTimer, holding, waiting, probeStatus,
               sawUp, sawTrouble>>
vars == <<part, sessionVars, pageVars, formVars, listVars, manageVars, toastVars, probeVars>>

-----------------------------------------------------------------------------
(* One browser that several people may use. *)
Session == INSTANCE WebSession WITH isLoading <- sessionLoading

(* The event page. *)
Page == INSTANCE EventPage WITH
  id <- pageId, event <- pageEvent, error <- pageError, isSubmitting <- pageBusy,
  page <- guarded, Ids <- PageIds, MaxRequests <- PageRequests

(* The organiser's form. *)
Form == INSTANCE EventForm WITH
  rows <- formRows, isLoading <- formLoading, isSubmitting <- saving, loads <- formLoads,
  loadCount <- formLoadCount, Events <- FormEvents, Foreign <- FormForeign,
  MaxLoads <- MaxFormLoads

(* The pages that list events and RSVPs. *)
Lists == INSTANCE ListPages WITH
  query <- listQuery, error <- listError, busy <- listBusy, loads <- listLoads,
  loadCount <- listLoadCount, MaxLoads <- MaxListLoads

(* The organiser's page of one event. *)
Manage == INSTANCE ManagePage WITH
  rows <- manageRows, id <- manageId, page <- rosterPage, event <- manageEvent,
  error <- manageError, busy <- manageBusy, loads <- manageLoads,
  loadCount <- manageLoadCount, Events <- Managed, Foreign <- ManagedForeign,
  Pages <- RosterPages, MaxLoads <- MaxManageLoads

Toast == INSTANCE Toasts WITH timer <- countdown

(* The platform's prober and the pool of the API. *)
Health == INSTANCE HealthProbe WITH
  query <- probeQuery, timer <- probeTimer, status <- probeStatus

ASSUME ClientsAreCoherent ==
  /\ Session!NoneIsNobody /\ Page!PageParameters /\ Form!FormsAndEvents /\ Manage!ManagedEvents
  /\ Health!ProbeParameters
  /\ Parts \subseteq {"session", "page", "form", "lists", "manage", "toasts", "health"}

-----------------------------------------------------------------------------
NoSession ==
  /\ issued = Off /\ valid = Off /\ stored = Off /\ token = Off /\ user = Off
  /\ sessionLoading = Off /\ rendered = Off /\ reader = Off /\ flight = Off
  /\ calls = Off /\ reloads = Off /\ mounted = Off /\ tried = Off
NoPage ==
  /\ seat = Off /\ changed = Off /\ request = Off /\ sent = Off /\ pageId = Off
  /\ auth = Off /\ pageEvent = Off /\ pageError = Off /\ pageBusy = Off
  /\ isConfirmingCancel = Off /\ handler = Off /\ guarded = Off /\ notice = Off
  /\ jumps = Off /\ promotions = Off /\ faults = Off /\ settled = Off
  /\ stray = Off
NoForm ==
  /\ formRows = Off /\ route = Off /\ form = Off /\ initialForm = Off
  /\ originals = Off /\ formLoading = Off /\ loadError = Off /\ saved = Off
  /\ savedId = Off /\ saving = Off /\ formLoads = Off /\ save = Off
  /\ blocked = Off /\ formLoadCount = Off /\ editCount = Off /\ saveCount = Off
  /\ source = Off /\ touched = Off /\ silent = Off /\ needless = Off
NoList ==
  /\ total = Off /\ listQuery = Off /\ result = Off /\ listError = Off
  /\ listBusy = Off /\ listLoads = Off /\ listLoadCount = Off /\ errorOf = Off
NoManage ==
  /\ manageRows = Off /\ manageId = Off /\ tab = Off /\ rosterPage = Off
  /\ manageEvent = Off /\ roster = Off /\ waitingTotal = Off
  /\ manageError = Off /\ manageBusy = Off /\ manageLoads = Off
  /\ isConfirmingDelete = Off /\ deleting = Off /\ manageLoadCount = Off
  /\ changeCount = Off /\ named = Off
NoToast ==
  /\ toasts = Off /\ nextId = Off /\ isPaused = Off /\ countdown = Off
  /\ hovered = Off /\ focused = Off
NoProbe ==
  /\ db = Off /\ outages = Off /\ open = Off /\ probeQuery = Off
  /\ probeTimer = Off /\ holding = Off /\ waiting = Off /\ probeStatus = Off
  /\ sawUp = Off /\ sawTrouble = Off

Init ==
  /\ part \in Parts
  /\ IF part = "session" THEN Session!Init ELSE NoSession
  /\ IF part = "page" THEN Page!Init ELSE NoPage
  /\ IF part = "form" THEN Form!Init ELSE NoForm
  /\ IF part = "lists" THEN Lists!Init ELSE NoList
  /\ IF part = "manage" THEN Manage!Init ELSE NoManage
  /\ IF part = "toasts" THEN Toast!Init ELSE NoToast
  /\ IF part = "health" THEN Health!Init ELSE NoProbe

Next ==
  \/ /\ part = "session" /\ Session!Next
     /\ UNCHANGED <<part, pageVars, formVars, listVars, manageVars, toastVars, probeVars>>
  \/ /\ part = "page" /\ Page!Next
     /\ UNCHANGED <<part, sessionVars, formVars, listVars, manageVars, toastVars, probeVars>>
  \/ /\ part = "form" /\ Form!Next
     /\ UNCHANGED <<part, sessionVars, pageVars, listVars, manageVars, toastVars, probeVars>>
  \/ /\ part = "lists" /\ Lists!Next
     /\ UNCHANGED <<part, sessionVars, pageVars, formVars, manageVars, toastVars, probeVars>>
  \/ /\ part = "manage" /\ Manage!Next
     /\ UNCHANGED <<part, sessionVars, pageVars, formVars, listVars, toastVars, probeVars>>
  \/ /\ part = "toasts" /\ Toast!Next
     /\ UNCHANGED <<part, sessionVars, pageVars, formVars, listVars, manageVars, probeVars>>
  \/ /\ part = "health" /\ Health!Next
     /\ UNCHANGED <<part, sessionVars, pageVars, formVars, listVars, manageVars, toastVars>>

Spec == Init /\ [][Next]_vars

(* The fairness of each component, which its module explains. *)
FairSpec ==
  /\ Spec
  /\ WF_sessionVars(part = "session" /\ Session!Render)
  /\ \A f \in Flights :
       /\ WF_sessionVars(part = "session" /\ Session!Serve(f))
       /\ WF_sessionVars(part = "session"
            /\ (Session!SignedIn(f) \/ Session!CheckEnds(f) \/ Session!CallEnds(f)))
  /\ \A n \in 1..PageRequests :
       /\ WF_pageVars(part = "page" /\ Page!Serve(n))
       /\ WF_pageVars(part = "page" /\ Page!Travels(n))
       /\ WF_pageVars(part = "page" /\ Page!Landing(n))
  /\ WF_formVars(part = "form" /\ \E l \in formLoads : Form!LoadSettles(l))
  /\ WF_listVars(part = "lists" /\ \E l \in listLoads, ok \in BOOLEAN : Lists!Settle(l, ok))
  /\ WF_manageVars(part = "manage" /\ \E l \in manageLoads :
       Manage!ReadEvent(l) \/ Manage!ReadRows(l) \/ Manage!LoadFails(l))
  /\ \A id \in 1..MaxToasts : WF_toastVars(part = "toasts" /\ Toast!Fires(id))
  /\ WF_probeVars(part = "health" /\ Health!Tick)
  /\ WF_probeVars(part = "health" /\ Health!AbandonedEnds)
  /\ WF_probeVars(part = "health" /\ Health!AbandonedMoves)
  /\ \A p \in Probes :
       /\ WF_probeVars(part = "health" /\ Health!Ask(p))
       /\ WF_probeVars(part = "health" /\ Health!ProbeStep(p))

-----------------------------------------------------------------------------
(* What the clients promise; each claim is stated, with the code it is     *)
(* about, in the module of its component.                                  *)

(* Whatever the order of answers, a session at rest shows the owner of the *)
(* token it sends, and nobody is sent to the login page while the stored   *)
(* token is being checked (AuthProvider, RequireAuth).                     *)
SessionIsTrue == part = "session" => Session!SessionIsTrue

(* A slow load does not put another event on the page (EventDetailPage),   *)
(* unless it is of those that nobody aborts (EventPage.stray).             *)
SlowLoadIgnored == part = "page" => Page!SlowLoadIgnored

(* After a join the page shows what the API has, also when its answer was  *)
(* lost (handleJoin): not while Try again is still loading it, nor after   *)
(* loads that nobody aborts got in each other's way (EventPage.stray).     *)
JoinIsReadBack == part = "page" => Page!JoinIsReadBack

(* Saving a form moves no time the organiser left alone, and sends what    *)
(* was on display, around changes of the clocks too (event-time.ts).       *)
TimesAreKept == part = "form" => Form!TimesAreKept

(* A list at rest shows the answer to its address (EventsPage's effect).   *)
SettledShowsAsked == part = "lists" => Lists!SettledShowsAsked

(* The organiser's page at rest is about one event (its load).             *)
OneEventOnDisplay == part = "manage" => Manage!OneEventOnDisplay

(* The answer of a probe tells of its own time (probeDatabase).            *)
AnswersAreCurrent == [][part = "health" => Health!TellsOfItsTime]_vars

(* Every "loading" and "joining" comes to an end, whatever is lost, late   *)
(* or aborted, and every probe is answered, whatever the database does     *)
(* (the finally blocks of the pages, probeDatabase's timer).               *)
Waits ==
  \/ part = "session" /\ Session!Pending
  \/ part = "page" /\ Page!Pending
  \/ part = "form" /\ formLoading
  \/ part = "lists" /\ listBusy
  \/ part = "manage" /\ manageBusy

WaitsEnd ==
  /\ Waits ~> ~Waits
  /\ \A p \in Probes : (part = "health" /\ p \in open) ~> ~(part = "health" /\ p \in open)

(* When the database stays up, the endpoint comes to say so and keeps      *)
(* saying so (probeDatabase and the pool).                                 *)
ReadyAfterOutage ==
  <>[](part = "health" /\ db = "up") => <>[](part = "health" /\ probeStatus = "ok")

(* A toast nobody attends to goes away (ToastItem's effect).               *)
Unattended(id) == part = "toasts" /\ id \in Toast!Shown /\ hovered # id /\ focused # id
UnattendedGoes == \A id \in 1..MaxToasts : Unattended(id) ~> ~Unattended(id)

-----------------------------------------------------------------------------
(* What comments and texts of the client say that the code does not do;    *)
(* each in a configuration of its own.                                     *)

(* A 401 ends the session it was about, not a newer one (client.ts).       *)
OnlyOwn401Clears == [][part = "session" => Session!ClearsOwn]_vars

(* A join pressed again after its answer was lost is not answered with a   *)
(* conflict (client.ts).                                                   *)
RetryResolves == part = "page" => Page!RetryResolves

(* The toast that says the RSVP was not changed is right                   *)
(* (EventDetailPage.tsx).                                                  *)
UnchangedIsUnchanged == part = "page" => Page!UnchangedIsUnchanged

(* A place and the offer to sign in exclude each other                     *)
(* (AttendanceModule.tsx).                                                 *)
StatesExclude == part = "page" => Page!StatesExclude

(* No form for somebody else's event (EventFormPage.tsx).                  *)
NoFormForOthers == part = "form" => Form!NoFormForOthers

(* Nobody is asked about edits that are saved (EventFormPage.tsx).         *)
AsksOnlyWhenUnsaved == part = "form" => Form!AsksOnlyWhenUnsaved

(* Unsaved edits are not left without a question (EventFormPage.tsx).      *)
LeavesOnlyAsked == part = "form" => Form!LeavesOnlyAsked

(* An empty state is shown of an empty view (MyRsvpsPage.tsx).             *)
EmptyMeansNone == part = "lists" => Lists!EmptyMeansNone

(* The deletion is of the event its dialog names                           *)
(* (OrganizerEventDetailPage.tsx).                                         *)
DeletesWhatItNames == part = "manage" => Manage!DeletesWhatItNames

(* A toast under the pointer stays (Toast.tsx).                            *)
HoveringPauses == part = "toasts" => Toast!HoveringPauses
=============================================================================
