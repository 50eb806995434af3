---------------------------- MODULE MCRsvpReads ----------------------------
(* Instances of RsvpReads: what the readers ask beside which writers. *)
EXTENDS RsvpReads, TLC

RequestSymmetry == Permutations(Requests)
NoSkew == [i \in Instances |-> 0]
OwnedByFirst == [e \in Events |-> 1]

NewEvent(status, capacity) ==
  [status |-> status, capacity |-> capacity, waitlistEnabled |-> TRUE,
   startsAt |-> 0, endsAt |-> 1, confirmedCount |-> 0]

CallBy(op, u, e, p) ==
  [op |-> op, user |-> u, event |-> e, key |-> NoKey, inst |-> CHOOSE i \in Instances : TRUE,
   patch |-> p]

Ask(kind, viewer, e, status, upcoming, skip) ==
  [kind |-> kind, viewer |-> viewer, event |-> e, status |-> status,
   upcoming |-> upcoming, skip |-> skip, limit |-> 2]

Moves == {CallBy(op, u, e, NoPatch) : op \in {"join", "leave"}, u \in Users, e \in Events}

(* One event with one place, which may be a draft that is published, and   *)
(* which may be deleted and may end meanwhile.                             *)
SomeEvents == {NewEvent("PUBLISHED", 1), NewEvent("DRAFT", 1)}
SomeCalls ==
  Moves \cup {CallBy("update", 1, e, [NoPatch EXCEPT !.status = "PUBLISHED"]) : e \in Events}
    \cup {CallBy("delete", 1, e, NoPatch) : e \in Events}
SomeQuestions ==
  {Ask("detail", v, e, "CONFIRMED", TRUE, 0) : v \in {2, 3, Anonymous}, e \in Events}
    \cup {Ask("roster", v, e, "WAITLISTED", TRUE, 0) : v \in {1, 2}, e \in Events}
    \cup {Ask("mine", 2, e, "CONFIRMED", b, 0) : e \in Events, b \in BOOLEAN}
=============================================================================
