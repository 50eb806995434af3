----------------------------- MODULE MCClients ------------------------------
(***************************************************************************)
(* Instances of the clients: two people in one browser, and a new form     *)
(* that is filled in with two walls around a change of the clocks.         *)
(***************************************************************************)
EXTENDS Clients, TLC

OwnerOf == [t \in Tokens |-> IF t = "b1" THEN "bo" ELSE "ann"]
NewForm == [startsAt |-> 0, endsAt |-> 1]

(* The event page treats all events alike. *)
PageSymmetry == Permutations(PageIds)
=============================================================================
