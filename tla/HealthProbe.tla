---------------------------- MODULE HealthProbe ----------------------------
(***************************************************************************)
(* The readiness endpoint: SELECT 1 raced against a timer, polled by the   *)
(* platform while the database answers, hangs or is down.  The race drops  *)
(* the loser's result but does not cancel the query: one that hangs keeps  *)
(* its pooled connection until the database lets go of it.                 *)
(***************************************************************************)
EXTENDS Integers, FiniteSets

CONSTANTS
  Probes,      \* requests for /health that may be open at once
  PoolSize,    \* connections of the Prisma client
  Timeout,     \* DATABASE_PROBE_TIMEOUT_MS, in ticks
  MaxOutages,  \* bound on the changes of the database
  MaxStuck     \* bound on abandoned queries that wait for a connection

(* What the constants must satisfy; an instance assumes it. *)
ProbeParameters ==
  /\ PoolSize \in Nat \ {0} /\ Timeout \in Nat \ {0}
  /\ MaxOutages \in Nat /\ MaxStuck \in Nat

VARIABLES
  db, outages,
  open,     \* the probes under way
  query,    \* where each probe's query is: "none", "queued" or "running"
  timer,    \* ticks left until each probe's timer fires, or the platform polls again
  holding, waiting,  \* abandoned queries: with a connection, and without
  status,   \* the last answer of the endpoint: "ok" or "degraded"
  sawUp, sawTrouble   \* history of each probe: what it met since it was asked

vars == <<db, outages, open, query, timer, holding, waiting, status, sawUp, sawTrouble>>

Running == {p \in open : query[p] = "running"}
FreeConnection == Cardinality(Running) + holding < PoolSize

Init ==
  /\ db = "up" /\ outages = 0
  /\ open = {} /\ query = [p \in Probes |-> "none"]
  /\ timer = [p \in Probes |-> 0]
  /\ holding = 0 /\ waiting = 0
  /\ status = "ok"
  /\ sawUp = [p \in Probes |-> FALSE] /\ sawTrouble = [p \in Probes |-> FALSE]

(* Every step records what the open probes can meet after it. *)
Observe ==
  /\ sawUp' = [p \in Probes |-> p \in open' /\ (db' = "up" \/ (p \in open /\ sawUp[p]))]
  /\ sawTrouble' =
       [p \in Probes |-> /\ p \in open'
                         /\ \/ db' # "up"
                            \/ holding' > 0
                            \/ Cardinality(open') > PoolSize
                            \/ p \in open /\ sawTrouble[p]]

(* health: the query and the timer start together. *)
Ask(p) ==
  /\ p \notin open /\ timer[p] = 0
  /\ open' = open \cup {p}
  /\ query' = [query EXCEPT ![p] = "queued"]
  /\ timer' = [timer EXCEPT ![p] = Timeout]
  /\ UNCHANGED <<db, outages, holding, waiting, status>>
  /\ Observe

(* The pool hands out a free connection. *)
Connect(p) ==
  /\ p \in open /\ query[p] = "queued" /\ FreeConnection
  /\ query' = [query EXCEPT ![p] = "running"]
  /\ UNCHANGED <<db, outages, open, timer, holding, waiting, status>>
  /\ Observe

(* An answer; the same prober asks again a tick later at the earliest. *)
Answer(p, s) ==
  /\ timer' = [timer EXCEPT ![p] = 1]
  /\ open' = open \ {p}
  /\ status' = s
  /\ query' = [query EXCEPT ![p] = "none"]

(* Mutant of QuerySettles: an outage is remembered as the answer. *)
SettlesAsBefore(p) ==
  /\ p \in Running /\ db # "hung"
  /\ Answer(p, IF db = "up" THEN status ELSE "degraded")
  /\ UNCHANGED <<db, outages, holding, waiting>>
  /\ Observe

(* probeDatabase: the query settles first. *)
QuerySettles(p) ==
  /\ p \in Running
  /\ \/ db = "up" /\ Answer(p, "ok")
     \/ db = "down" /\ Answer(p, "degraded")
  /\ UNCHANGED <<db, outages, holding, waiting>>
  /\ Observe

(* Mutant of OnTimeout: the timer resolves instead of rejecting. *)
OnTimeoutResolves == "ok"

OnTimeout == "degraded"

(* probeDatabase: the timer rejects first; the query goes on by itself. *)
TimerFires(p) ==
  /\ p \in open /\ timer[p] = 0
  /\ Answer(p, OnTimeout)
  /\ IF query[p] = "running" THEN holding' = holding + 1 /\ UNCHANGED waiting
     ELSE /\ waiting' = IF waiting < MaxStuck THEN waiting + 1 ELSE waiting
          /\ UNCHANGED holding
  /\ UNCHANGED <<db, outages>>
  /\ Observe

(* An abandoned query ends with nobody listening, or gets a connection, or *)
(* is given up by the pool.                                                *)
AbandonedEnds ==
  /\ holding > 0 /\ db # "hung"
  /\ holding' = holding - 1
  /\ UNCHANGED <<db, outages, open, query, timer, waiting, status>>
  /\ Observe

AbandonedMoves ==
  /\ waiting > 0
  /\ waiting' = waiting - 1
  /\ holding' = IF FreeConnection THEN holding + 1 ELSE holding
  /\ UNCHANGED <<db, outages, open, query, timer, status>>
  /\ Observe

(* A database that is up or down answers within a tick, and a timer that   *)
(* is due fires before the next one.                                       *)
Tick ==
  /\ \A p \in open : timer[p] > 0
  /\ db # "hung" => Running = {} /\ holding = 0
  /\ FreeConnection => waiting = 0 /\ \A p \in open : query[p] # "queued"
  /\ timer' = [p \in Probes |-> IF timer[p] > 0 THEN timer[p] - 1 ELSE 0]
  /\ UNCHANGED <<db, outages, open, query, holding, waiting, status>>
  /\ Observe

DatabaseChanges ==
  /\ outages < MaxOutages
  /\ outages' = outages + 1
  /\ db' \in {"up", "hung", "down"} \ {db}
  /\ UNCHANGED <<open, query, timer, holding, waiting, status>>
  /\ Observe

ProbeStep(p) == Connect(p) \/ QuerySettles(p) \/ TimerFires(p)

Next ==
  \/ \E p \in Probes : Ask(p) \/ ProbeStep(p)
  \/ AbandonedEnds \/ AbandonedMoves \/ Tick \/ DatabaseChanges

(* Node settles what is settled and fires its timers, PostgreSQL ends what *)
(* it can end, time passes and the platform keeps polling; outages owe     *)
(* nothing.                                                                *)
FairSpec ==
  /\ Init /\ [][Next]_vars
  /\ WF_vars(Tick) /\ WF_vars(AbandonedEnds) /\ WF_vars(AbandonedMoves)
  /\ \A p \in Probes : WF_vars(Ask(p)) /\ WF_vars(ProbeStep(p))

-----------------------------------------------------------------------------
(* An answer tells of the time the request ran: "ok" only if the database  *)
(* was reachable at some moment of it, "degraded" only if the database was *)
(* not, or every connection was taken, at some moment of it.               *)
TellsOfItsTime ==
  \A p \in open \ open' :
    /\ status' = "ok" => sawUp[p]
    /\ status' = "degraded" => sawTrouble[p]

AnswersAreCurrent == [][TellsOfItsTime]_vars

(* A probe is answered although the database hangs for ever ("A hung       *)
(* database must not hold the health check open indefinitely").            *)
EveryProbeAnswered == \A p \in Probes : p \in open ~> p \notin open

(* Once the database stays up, the endpoint reports so for good: hung      *)
(* queries left behind by earlier probes do not keep the pool.             *)
ReadyAfterOutage == <>[](db = "up") => <>[](status = "ok")
=============================================================================
