----------------------------- MODULE ManagePage -----------------------------
(***************************************************************************)
(* The organiser's page of one event: the event, one page of its roster    *)
(* and the length of its waitlist, loaded together, and the deletion.      *)
(***************************************************************************)
EXTENDS Integers, FiniteSets

CONSTANTS
  Events, Foreign,       \* the events, and those of somebody else
  Pages, MaxRows,
  MaxLoads, MaxChanges   \* bounds of one history

(* What the constants must satisfy; an instance assumes it. *)
ManagedEvents == Foreign \subseteq Events /\ "none" \notin Events

VARIABLES
  rows,                  \* the server: CONFIRMED and WAITLISTED rows, or gone
  id, tab, page,         \* the route and the page's choices
  event, roster, waitingTotal,
  error, busy,
  loads,                 \* loads in flight, with what they have read
  isConfirmingDelete, deleting,
  loadCount, changeCount,
  named                  \* history: the event the page named when the user agreed

shown == <<event, roster, waitingTotal, error, busy>>
asked == <<id, tab, page>>
deletion == <<isConfirmingDelete, deleting, named>>
counts == <<loadCount, changeCount>>
vars == <<rows, asked, shown, loads, deletion, counts>>

Tabs == {"CONFIRMED", "WAITLISTED"}
NoRoster == [id |-> "none", tab |-> "CONFIRMED", page |-> 0]

Init ==
  /\ rows = [e \in Events |-> [there |-> TRUE, CONFIRMED |-> 1, WAITLISTED |-> 0]]
  /\ id \in Events /\ tab = "CONFIRMED" /\ page = 1
  /\ event = "none" /\ roster = NoRoster /\ waitingTotal = [id |-> "none", of |-> 0]
  /\ error = FALSE /\ busy = TRUE
  /\ loads = {[n |-> 0, id |-> id, tab |-> tab, page |-> page, stage |-> "event", aborted |-> FALSE]}
  /\ isConfirmingDelete = FALSE /\ deleting = "none" /\ named = "none"
  /\ loadCount = 1 /\ changeCount = 0

(* The effect of load, which depends on id, status, page and retry. *)
Reload ==
  /\ loadCount < MaxLoads /\ loadCount' = loadCount + 1
  /\ loads' = {[l EXCEPT !.aborted = TRUE] : l \in loads} \cup
       {[n |-> loadCount, id |-> id', tab |-> tab', page |-> page', stage |-> "event", aborted |-> FALSE]}
  /\ busy' = TRUE /\ error' = FALSE

Kept == UNCHANGED <<rows, event, roster, waitingTotal, changeCount>>

Mounted == deleting = "none" \/ event # "none"

(* The history leads to another event: the component stays.                *)
Jump(e) ==
  /\ Mounted /\ e # id /\ id' = e /\ UNCHANGED <<tab, page>>
  /\ Reload /\ Kept /\ UNCHANGED deletion

Ready == ~error /\ event # "none" /\ ~isConfirmingDelete

Choose(t, p) ==
  /\ Ready /\ <<t, p>> # <<tab, page>>
  /\ tab' = t /\ page' = p /\ UNCHANGED id
  /\ Reload /\ Kept /\ UNCHANGED deletion

Retry ==
  /\ Mounted /\ error /\ UNCHANGED asked
  /\ Reload /\ Kept /\ UNCHANGED deletion

(* Mutant of Lands: what arrives is shown. *)
LandsAlways(l) == TRUE

(* After the awaits: the load was not aborted meanwhile. *)
Lands(l) == ~l.aborted

(* Mutant of Finally: only a complete load ends the wait. *)
FinallyOnSuccess(l, ok) == ok /\ Lands(l)

Finally(l, ok) == Lands(l)

(* The first await: the event, which must be one's own. *)
ReadEvent(l) ==
  /\ l.stage = "event" /\ rows[l.id].there /\ l.id \notin Foreign
  /\ loads' = (loads \ {l}) \cup {[l EXCEPT !.stage = "rows"]}
  /\ UNCHANGED <<rows, asked, shown, deletion, counts>>

(* The second: a page of the roster and the count of the waitlist. *)
ReadRows(l) ==
  /\ l.stage = "rows" /\ rows[l.id].there
  /\ loads' = loads \ {l}
  /\ IF Lands(l)
     THEN /\ event' = l.id /\ roster' = [id |-> l.id, tab |-> l.tab, page |-> l.page]
          /\ waitingTotal' = [id |-> l.id, of |-> rows[l.id].WAITLISTED]
     ELSE UNCHANGED <<event, roster, waitingTotal>>
  /\ busy' = (busy /\ ~Finally(l, TRUE))
  /\ UNCHANGED <<rows, asked, error, deletion, counts>>

(* A call fails, the event is somebody else's or gone, or it was aborted.  *)
LoadFails(l) ==
  /\ loads' = loads \ {l}
  /\ error' = (error \/ Lands(l))
  /\ busy' = (busy /\ ~Finally(l, FALSE))
  /\ UNCHANGED <<rows, asked, event, roster, waitingTotal, deletion, counts>>

-----------------------------------------------------------------------------
(* "Delete event", and the dialog, which names the event on display.       *)
PressDelete ==
  /\ Ready /\ isConfirmingDelete' = TRUE
  /\ UNCHANGED <<rows, asked, shown, loads, deleting, named, counts>>

KeepEvent ==
  /\ isConfirmingDelete /\ deleting = "none" /\ isConfirmingDelete' = FALSE
  /\ UNCHANGED <<rows, asked, shown, loads, deleting, named, counts>>

(* remove: of the id of the route. *)
Confirm ==
  /\ isConfirmingDelete /\ ~error /\ deleting = "none"
  /\ deleting' = id /\ named' = event
  /\ UNCHANGED <<rows, asked, shown, loads, isConfirmingDelete, counts>>

(* Deleted: the page leads away and unmounts. *)
Deleted ==
  /\ deleting # "none" /\ rows[deleting].there /\ deleting \notin Foreign
  /\ rows' = [rows EXCEPT ![deleting].there = FALSE]
  /\ loads' = {} /\ event' = "none" /\ busy' = FALSE /\ isConfirmingDelete' = FALSE
  /\ UNCHANGED <<asked, roster, waitingTotal, error, deleting, named, counts>>

DeleteFails ==
  /\ deleting # "none" /\ event # "none"
  /\ deleting' = "none" /\ isConfirmingDelete' = FALSE
  /\ UNCHANGED <<rows, asked, shown, loads, named, counts>>

(* People join, leave and are promoted. *)
Change(e, t) ==
  /\ rows[e].there /\ changeCount < MaxChanges /\ changeCount' = changeCount + 1
  /\ \E n \in 0..MaxRows : n # rows[e][t] /\ rows' = [rows EXCEPT ![e][t] = n]
  /\ UNCHANGED <<asked, shown, loads, deletion, loadCount>>

Next ==
  \/ \E e \in Events : Jump(e)
  \/ \E t \in Tabs, p \in Pages : Choose(t, p)
  \/ Retry \/ PressDelete \/ KeepEvent \/ Confirm \/ Deleted \/ DeleteFails
  \/ \E l \in loads : ReadEvent(l) \/ ReadRows(l) \/ LoadFails(l)
  \/ \E e \in Events, t \in Tabs : Change(e, t)

Spec == Init /\ [][Next]_vars

(* The calls of a load settle. *)
FairSpec ==
  Spec /\ WF_vars(\E l \in loads : ReadEvent(l) \/ ReadRows(l) \/ LoadFails(l))

-----------------------------------------------------------------------------
(* The page at rest is of one piece: the event, the roster and the count   *)
(* beside it belong to the route, the tab and the page chosen, in whatever *)
(* order the three calls of each load were answered.                       *)
OneEventOnDisplay ==
  ~busy /\ ~error /\ event # "none" =>
    /\ event = id /\ waitingTotal.id = id
    /\ roster = [id |-> id, tab |-> tab, page |-> page]

(* The page stops saying that it loads. *)
BusyEnds == busy ~> ~busy

(* "This permanently removes the event and its RSVPs, including N          *)
(* confirmed places" (the dialog): of the event it speaks of.              *)
DeletesWhatItNames == deleting # "none" => deleting = named
=============================================================================
