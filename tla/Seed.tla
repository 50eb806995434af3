-------------------------------- MODULE Seed --------------------------------
(***************************************************************************)
(* The demo seed: a script of separate statements, each committed as it    *)
(* ends, over the tables the API writes.  A run may be killed between two  *)
(* statements and started again; between runs, or during one, people use   *)
(* the API, whose transactions are single steps here because every one of  *)
(* them holds the event's row lock.                                        *)
(***************************************************************************)
EXTENDS Integers, FiniteSets, Sequences

CONSTANTS
  UserSeq, EventSeq,   \* USERS and EVENTS, in the order of the script
  PlaceSeq,            \* seededRsvps: <<event, user>>
  SeedCapacity,        \* the capacity EVENTS gives an event
  Visitors,            \* people who are not in USERS
  Online,              \* whether the API serves requests while the seed runs
  MaxMoves, MaxKills   \* bounds on the API's transactions and on killed runs

Elements(s) == {s[i] : i \in DOMAIN s}
SeedUsers == Elements(UserSeq)
SeedEvents == Elements(EventSeq)
SeedPlaces == Elements(PlaceSeq)
People == SeedUsers \cup Visitors

(* What the constants must satisfy; an instance assumes it. *)
SeedIsCoherent ==
  /\ UserSeq \in Seq(SeedUsers) /\ EventSeq \in Seq(SeedEvents) /\ PlaceSeq \in Seq(SeedPlaces)
  /\ SeedCapacity \in [SeedEvents -> Nat \ {0}]
  /\ IsFiniteSet(Visitors) /\ Online \in BOOLEAN
  /\ SeedPlaces \subseteq SeedEvents \X SeedUsers
  /\ \A e \in SeedEvents : Cardinality({p \in SeedPlaces : p[1] = e}) <= SeedCapacity[e]

VARIABLES
  users, capacity, confirmedCount, status,   \* the tables; capacity 0: no such event
  at, counted,                               \* the statement, and the subquery's rows
  outcome,                                   \* of the last run: "none", "ok", "failed"
  moves, kills

tables == <<users, capacity, confirmedCount, status>>
vars == <<tables, at, counted, outcome, moves, kills>>

Confirmed(e) == Cardinality({u \in People : status[<<e, u>>] = "CONFIRMED"})

-----------------------------------------------------------------------------
(* main: what it executes, in order. *)
Script ==
  LET Each(kind, s) == [i \in DOMAIN s |-> [does |-> kind, what |-> s[i]]]
  IN  Each("user", UserSeq) \o Each("event", EventSeq) \o Each("place", PlaceSeq)
        \o <<[does |-> "count", what |-> 0], [does |-> "reconcile", what |-> 0]>>

Running == at # 0
Does(kind) == Running /\ Script[at].does = kind
Subject == Script[at].what

Init ==
  /\ users = Visitors
  /\ capacity = [e \in SeedEvents |-> 0] /\ confirmedCount = [e \in SeedEvents |-> 0]
  /\ status = [p \in SeedEvents \X People |-> "none"]
  /\ at = 0 /\ counted = confirmedCount
  /\ outcome = "none" /\ moves = 0 /\ kills = 0

Start ==
  /\ ~Running
  /\ at' = 1 /\ outcome' = "none"
  /\ UNCHANGED <<tables, counted, moves, kills>>

(* The next statement; main returns after the last one. *)
Continues ==
  \/ at < Len(Script) /\ at' = at + 1 /\ UNCHANGED outcome
  \/ at = Len(Script) /\ at' = 0 /\ outcome' = "ok"

(* A constraint is violated: the script ends with an error. *)
Fails == at' = 0 /\ outcome' = "failed"

UpsertUser ==
  /\ Does("user")
  /\ users' = users \cup {Subject}
  /\ Continues
  /\ UNCHANGED <<capacity, confirmedCount, status, counted, moves, kills>>

(* The CHECK events_confirmed_count_within_capacity. *)
Fits(cap, count) == cap = 0 \/ count <= cap

UpsertEvent ==
  /\ Does("event")
  /\ \/ /\ Fits(SeedCapacity[Subject], confirmedCount[Subject])
        /\ capacity' = [capacity EXCEPT ![Subject] = SeedCapacity[Subject]]
        /\ Continues
     \/ /\ ~Fits(SeedCapacity[Subject], confirmedCount[Subject])
        /\ Fails
        /\ UNCHANGED capacity
  /\ UNCHANGED <<users, confirmedCount, status, counted, moves, kills>>

(* Mutant of UpsertPlace: create, which an existing row refuses. *)
CreatePlace ==
  /\ Does("place")
  /\ \/ status[Subject] = "none" /\ status' = [status EXCEPT ![Subject] = "CONFIRMED"] /\ Continues
     \/ status[Subject] # "none" /\ Fails /\ UNCHANGED status
  /\ UNCHANGED <<users, capacity, confirmedCount, counted, moves, kills>>

(* The row becomes CONFIRMED whatever it was and however full the event. *)
UpsertPlace ==
  /\ Does("place")
  /\ status' = [status EXCEPT ![Subject] = "CONFIRMED"]
  /\ Continues
  /\ UNCHANGED <<users, capacity, confirmedCount, counted, moves, kills>>

(* COUNT(...) FILTER (WHERE status = 'CONFIRMED') of a LEFT JOIN *)
Tally(e) == Confirmed(e)

(* reconcileConfirmedCounts is one statement: its subquery reads one       *)
(* snapshot, and a row that a transaction has changed since is written     *)
(* with the total of the snapshot all the same.                            *)
CountRows ==
  /\ Does("count")
  /\ counted' = [e \in SeedEvents |-> Tally(e)]
  /\ Continues
  /\ UNCHANGED <<tables, moves, kills>>

WriteCounts ==
  /\ Does("reconcile")
  /\ \/ /\ \A e \in SeedEvents : Fits(capacity[e], counted[e])
        /\ confirmedCount' = counted
        /\ Continues
     \/ /\ \E e \in SeedEvents : ~Fits(capacity[e], counted[e])
        /\ Fails
        /\ UNCHANGED confirmedCount
  /\ UNCHANGED <<users, capacity, status, counted, moves, kills>>

(* The process is killed; what it has committed stays. *)
Killed ==
  /\ Running /\ kills < MaxKills /\ kills' = kills + 1
  /\ at' = 0 /\ outcome' = "none"
  /\ UNCHANGED <<tables, counted, moves>>

-----------------------------------------------------------------------------
(* The API's transactions. *)
Serves ==
  /\ ~Running \/ Online
  /\ moves < MaxMoves /\ moves' = moves + 1
  /\ UNCHANGED <<users, at, counted, outcome, kills>>

Join(e, u) ==
  /\ Serves
  /\ u \in users /\ capacity[e] # 0 /\ status[<<e, u>>] \in {"none", "CANCELLED"}
  /\ \/ /\ confirmedCount[e] < capacity[e]
        /\ status' = [status EXCEPT ![<<e, u>>] = "CONFIRMED"]
        /\ confirmedCount' = [confirmedCount EXCEPT ![e] = @ + 1]
     \/ /\ confirmedCount[e] >= capacity[e]
        /\ status' = [status EXCEPT ![<<e, u>>] = "WAITLISTED"]
        /\ UNCHANGED confirmedCount
  /\ UNCHANGED capacity

(* A cancellation, with the promotion of someone who waits. *)
Leave(e, u) ==
  /\ Serves
  /\ status[<<e, u>>] = "CONFIRMED"
  /\ LET waiting == {w \in People : status[<<e, w>>] = "WAITLISTED"}
     IN  \/ /\ waiting = {}
            /\ status' = [status EXCEPT ![<<e, u>>] = "CANCELLED"]
            /\ confirmedCount' = [confirmedCount EXCEPT ![e] = @ - 1]
         \/ \E w \in waiting :
              /\ status' = [status EXCEPT ![<<e, u>>] = "CANCELLED", ![<<e, w>>] = "CONFIRMED"]
              /\ UNCHANGED confirmedCount
  /\ UNCHANGED capacity

Resize(e, c) ==
  /\ Serves
  /\ capacity[e] # 0 /\ c >= confirmedCount[e] /\ c # capacity[e]
  /\ capacity' = [capacity EXCEPT ![e] = c]
  /\ UNCHANGED <<confirmedCount, status>>

Next ==
  \/ Start \/ UpsertUser \/ UpsertEvent \/ UpsertPlace \/ CountRows \/ WriteCounts \/ Killed
  \/ \E e \in SeedEvents : \/ \E u \in People : Join(e, u) \/ Leave(e, u)
                           \/ \E c \in {SeedCapacity[e], SeedCapacity[e] + 1} : Resize(e, c)

Spec == Init /\ [][Next]_vars

-----------------------------------------------------------------------------
CountsAgree == \A e \in SeedEvents : confirmedCount[e] = Confirmed(e)

(* "running it twice produces the same database": as long as nobody has    *)
(* used the API, no run fails, whatever was left behind by runs that were  *)
(* killed, and a run that ends leaves the one database there is.           *)
SeedRepairsItself ==
  moves = 0 =>
    /\ outcome # "failed"
    /\ outcome = "ok" =>
         /\ users = People /\ capacity = SeedCapacity /\ CountsAgree
         /\ \A e \in SeedEvents, u \in People :
              status[<<e, u>>] = IF <<e, u>> \in SeedPlaces THEN "CONFIRMED" ELSE "none"

(* A run that ends well has derived the counters from the rows, whatever   *)
(* people had done before it, and no event is over its capacity.           *)
CountsDerived ==
  outcome = "ok" /\ ~Running /\ ~Online =>
    CountsAgree /\ \A e \in SeedEvents : Confirmed(e) <= capacity[e]

(* Both: a run that ends well leaves the database in order. *)
SeedConverges == SeedRepairsItself /\ CountsDerived

(* "the seed can be re-run after manual poking without leaving the         *)
(* database inconsistent" (reconcileConfirmedCounts)                       *)
RerunLeavesConsistent == ~Running /\ kills = 0 => CountsAgree

(* "the seed can never leave the counter disagreeing with the membership   *)
(* it is supposed to summarise" (main)                                     *)
SeedNeverDisagrees == outcome = "ok" => CountsAgree
=============================================================================
