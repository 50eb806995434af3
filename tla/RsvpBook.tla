------------------------------ MODULE RsvpBook ------------------------------
(***************************************************************************)
(* What the write path of the events API promises, one atomic step per     *)
(* request: who is confirmed, who waits and since when, and under which    *)
(* terms the event runs.  There is no counter here: an event has room when *)
(* fewer people are confirmed than it has places.                          *)
(***************************************************************************)
EXTENDS Integers, FiniteSets

CONSTANTS
  Events, Users,   \* users are numbered in the order of their RSVP rows' ids
  Capacities, Times,
  NewEvents,       \* terms of events as they are created
  Clocks,          \* readings of the API's clocks
  Unlimited, Gone

EventStatus == {"DRAFT", "PUBLISHED", "CANCELLED", "COMPLETED"}

Terms ==
  [status : EventStatus, capacity : Capacities \cup {Unlimited},
   waitlistEnabled : BOOLEAN, startsAt : Times, endsAt : Times]

Entries ==
  [terms : Terms, confirmed : SUBSET Users, queue : UNION {[S -> Nat] : S \in SUBSET Users}]

VARIABLE book   \* book[e]: Gone, or the terms of e and the people on it

Entry(terms, confirmed, queue) ==
  [terms |-> terms, confirmed |-> confirmed, queue |-> queue]

NobodyQueued == [u \in {} |-> 0]

Without(queue, u) == [v \in DOMAIN queue \ {u} |-> queue[v]]

(* u has waited longer than v; the row ids order equal times. *)
Before(queue, u, v) ==
  queue[u] < queue[v] \/ (queue[u] = queue[v] /\ u < v)

Fits(n, capacity) == capacity = Unlimited \/ n <= capacity

HasRoom(b) == Fits(Cardinality(b.confirmed) + 1, b.terms.capacity)

Init == book \in [Events -> {Entry(t, {}, NobodyQueued) : t \in NewEvents}]

(* A user who is not on the event joins it: confirmed when there is room,   *)
(* queued when there is none and the event keeps a waitlist.               *)
Join(e, u, t) ==
  /\ book[e] # Gone
  /\ book[e].terms.status = "PUBLISHED"
  /\ t < book[e].terms.endsAt
  /\ u \notin book[e].confirmed \cup DOMAIN book[e].queue
  /\ \/ /\ HasRoom(book[e])
        /\ book' = [book EXCEPT ![e].confirmed = @ \cup {u}]
     \/ /\ ~HasRoom(book[e])
        /\ book[e].terms.waitlistEnabled
        /\ book' = [book EXCEPT ![e].queue =
                      [v \in DOMAIN @ \cup {u} |-> IF v = u THEN t ELSE @[v]]]

LeaveQueue(e, u) ==
  /\ book[e] # Gone
  /\ u \in DOMAIN book[e].queue
  /\ book' = [book EXCEPT ![e].queue = Without(@, u)]

(* A confirmed place is given up and nobody takes it: nobody waits, or the  *)
(* event has no limit.                                                     *)
LeavePlace(e, u) ==
  /\ book[e] # Gone
  /\ u \in book[e].confirmed
  /\ DOMAIN book[e].queue = {} \/ book[e].terms.capacity = Unlimited
  /\ book' = [book EXCEPT ![e].confirmed = @ \ {u}]

(* A confirmed place is given up and, in the same step, the one who has    *)
(* waited longest gets it.                                                 *)
HandOver(e, u, w) ==
  /\ book[e] # Gone
  /\ u \in book[e].confirmed
  /\ book[e].terms.capacity # Unlimited
  /\ w \in DOMAIN book[e].queue
  /\ \A v \in DOMAIN book[e].queue \ {w} : Before(book[e].queue, w, v)
  /\ book' = [book EXCEPT ![e].confirmed = (@ \ {u}) \cup {w},
                          ![e].queue = Without(@, w)]

(* The organiser changes the terms; nobody confirmed loses the place. *)
Update(e, terms) ==
  /\ book[e] # Gone
  /\ terms.endsAt > terms.startsAt
  /\ \/ terms.capacity = book[e].terms.capacity
     \/ Fits(Cardinality(book[e].confirmed), terms.capacity)
  /\ book' = [book EXCEPT ![e].terms = terms]

Delete(e) ==
  /\ book[e] # Gone
  /\ book' = [book EXCEPT ![e] = Gone]

Next ==
  \E e \in Events :
    \/ \E u \in Users :
         \/ \E t \in Clocks : Join(e, u, t)
         \/ LeaveQueue(e, u)
         \/ LeavePlace(e, u)
         \/ \E w \in Users : HandOver(e, u, w)
    \/ \E terms \in Terms : Update(e, terms)
    \/ Delete(e)

Spec == Init /\ [][Next]_book
=============================================================================
