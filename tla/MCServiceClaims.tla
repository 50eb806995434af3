--------------------------- MODULE MCServiceClaims ---------------------------
(***************************************************************************)
(* Instances of ServiceClaims for TLC.                                    *)
(***************************************************************************)
EXTENDS ServiceClaims, MCRsvpService

(* The clock of one instance, chosen arbitrarily, runs two units ahead. *)
OneAhead ==
  LET fast == CHOOSE i \in Instances : TRUE
  IN  [i \in Instances |-> IF i = fast THEN 2 ELSE 0]

(* One place, three people who come and go. *)
QueueEvents == {NewEvent(1, TRUE)}
QueueCalls == Joins \cup Leaves

(* The same, with an organiser who raises or lifts the capacity. *)
RaisingCalls ==
  QueueCalls \cup Updates({[NoPatch EXCEPT !.capacity = c] : c \in {2, Unlimited}})
OrganiserOnlyCalls == Joins \cup Deletes
LiftingCalls == QueueCalls \cup Updates({[NoPatch EXCEPT !.capacity = Unlimited]})
=============================================================================
