------------------------------ MODULE Ordering ------------------------------
(***************************************************************************)
(* What PostgreSQL returns for an ORDER BY over a finite set of rows, when *)
(* the columns it names tell any two rows apart.                           *)
(***************************************************************************)
EXTENDS Integers, FiniteSets

(* The rows of S, each once, in the order that a set of pairs gives.       *)
Sorted(S, order) ==
  CHOOSE list \in [1..Cardinality(S) -> S] :
    \A i, j \in 1..Cardinality(S) : i < j => <<list[i], list[j]>> \in order
=============================================================================
