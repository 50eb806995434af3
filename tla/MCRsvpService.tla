--------------------------- MODULE MCRsvpService ---------------------------
(***************************************************************************)
(* Instances of RsvpService for TLC: the sets the configurations choose    *)
(* their calls and events from, and the symmetry of the request slots.     *)
(***************************************************************************)
EXTENDS RsvpService, TLC

RequestSymmetry == Permutations(Requests)

(* All clocks agree. *)
NoSkew == [i \in Instances |-> 0]

(* User 1 organises everything. *)
OwnedByFirst == [e \in Events |-> 1]

NewEvent(capacity, waitlist) ==
  [status |-> "PUBLISHED", capacity |-> capacity, waitlistEnabled |-> waitlist,
   startsAt |-> 0, endsAt |-> 9, confirmedCount |-> 0]

CallBy(op, u, e, k, i, p) ==
  [op |-> op, user |-> u, event |-> e, key |-> k, inst |-> i, patch |-> p]

Joins == {CallBy("join", u, e, NoKey, i, NoPatch) :
            u \in Users, e \in Events, i \in Instances}
KeyedJoins == {CallBy("join", u, e, k, i, NoPatch) :
                 u \in Users, e \in Events, k \in Keys, i \in Instances}
Leaves == {CallBy("leave", u, e, NoKey, i, NoPatch) :
             u \in Users, e \in Events, i \in Instances}
Updates(patches) == {CallBy("update", 1, e, NoKey, i, p) :
                       e \in Events, i \in Instances, p \in patches}
Deletes == {CallBy("delete", 1, e, NoKey, i, NoPatch) :
              e \in Events, i \in Instances}

(* A busy event: any mix of joins, cancellations and capacity changes. *)
BusyEvents == {NewEvent(1, TRUE), NewEvent(2, TRUE), NewEvent(1, FALSE)}
CapacityPatches == {[NoPatch EXCEPT !.capacity = c] : c \in {1, 2, Unlimited}}
BusyCalls == Joins \cup Leaves \cup Updates(CapacityPatches)

(* An organiser at work on an event people are joining; the event may end  *)
(* meanwhile.                                                              *)
ShortEvents == {[NewEvent(1, TRUE) EXCEPT !.status = s, !.endsAt = 1] :
                  s \in {"DRAFT", "PUBLISHED"}}
OrganiserPatches ==
  {[NoPatch EXCEPT !.status = s] : s \in {"PUBLISHED", "CANCELLED", "COMPLETED"}}
    \cup {[NoPatch EXCEPT !.startsAt = 1], [NoPatch EXCEPT !.endsAt = 9],
          [NoPatch EXCEPT !.waitlistEnabled = FALSE]}
OrganiserCalls ==
  Joins \cup Leaves \cup Updates(OrganiserPatches) \cup Deletes
    \cup {CallBy("update", 2, e, NoKey, i, NoPatch) :
            e \in Events, i \in Instances}

(* Clients that send a key and resend when they hear nothing. *)
KeyedEvents == {NewEvent(1, TRUE)}
KeyedCalls == KeyedJoins \cup {c \in Leaves : c.user = 1}
=============================================================================
