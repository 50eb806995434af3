---------------------------- MODULE ClientProofs ----------------------------
(***************************************************************************)
(* What the clients show, proved for every set of tokens, events, views    *)
(* and requests, and every number of loads, calls and changes.             *)
(***************************************************************************)
EXTENDS Clients, FiniteSetTheorems, TLAPS

-----------------------------------------------------------------------------
(* The part that moves was chosen at the start; its own actions are all    *)
(* that happens to it.                                                     *)

(* A step of the list pages. *)
LEMMA ListsMove ==
  ASSUME [Next]_vars, part' = "lists"
  PROVE  part = "lists" /\ [Lists!Next]_listVars
  BY DEF Next, vars, listVars

(* A step of the organiser's page. *)
LEMMA ManageMoves ==
  ASSUME [Next]_vars, part' = "manage"
  PROVE  part = "manage" /\ [Manage!Next]_manageVars
  BY DEF Next, vars, manageVars

-----------------------------------------------------------------------------
(* The lists.                                                              *)

(* The load that may land is the last one sent, for the address of now,    *)
(* and the page waits for it without an error.                             *)
ListLoad(l) == l = [n |-> l.n, query |-> l.query, aborted |-> l.aborted]

ListLoadsOK ==
  /\ \A l \in listLoads : ListLoad(l)
  /\ \A l \in listLoads : ~l.aborted => listBusy /\ l.query = listQuery
  /\ \A k, l \in listLoads : ~k.aborted /\ ~l.aborted => k = l
  /\ listBusy => ~listError
  /\ listBusy \in BOOLEAN /\ listError \in BOOLEAN

ListInv == part = "lists" => ListLoadsOK /\ Lists!SettledShowsAsked

LEMMA ListInit == Init => ListInv
  <1> SUFFICES ASSUME Init, part = "lists"
               PROVE  ListLoadsOK /\ Lists!SettledShowsAsked
      BY DEF ListInv
  <1>1. Lists!Init
      BY DEF Init
  <1>2. /\ listLoads = {[n |-> 0, query |-> listQuery, aborted |-> FALSE]}
        /\ listBusy = TRUE /\ listError = FALSE
      BY <1>1 DEF Lists!Init
  <1>3. \A l \in listLoads : ListLoad(l) /\ l.query = listQuery
      BY <1>2 DEF ListLoad
  <1> QED
      BY <1>2, <1>3 DEF ListLoadsOK, Lists!SettledShowsAsked

(* A new load leaves every other one aborted. *)
LEMMA ListReloads ==
  ASSUME ListLoadsOK, NEW q, Lists!Load(q), listQuery' = q
  PROVE  ListLoadsOK' /\ Lists!SettledShowsAsked'
  <1> DEFINE new == [n |-> listLoadCount, query |-> q, aborted |-> FALSE]
             old == {[l EXCEPT !.aborted = TRUE] : l \in listLoads}
  <1>1. listLoads' = old \cup {new} /\ listBusy' = TRUE /\ listError' = FALSE
      BY DEF Lists!Load
  <1>2. \A l \in old : ListLoad(l) /\ l.aborted = TRUE
      BY DEF ListLoadsOK, ListLoad
  <1>3. ListLoad(new) /\ new.query = q /\ new.aborted = FALSE
      BY DEF ListLoad
  <1> HIDE DEF new, old
  <1> QED
      BY <1>1, <1>2, <1>3 DEF ListLoadsOK, ListLoad, Lists!SettledShowsAsked

LEMMA ListStep ==
  ASSUME ListInv, [Next]_vars
  PROVE  ListInv'
  <1> SUFFICES ASSUME part' = "lists"
               PROVE  ListLoadsOK' /\ Lists!SettledShowsAsked'
      BY DEF ListInv
  <1>1. ListLoadsOK /\ Lists!SettledShowsAsked /\ [Lists!Next]_listVars
      BY ListsMove DEF ListInv
  <1>2. ASSUME NEW q \in Lists!Queries, Lists!Turn(q)
        PROVE  ListLoadsOK' /\ Lists!SettledShowsAsked'
      BY <1>1, <1>2, ListReloads DEF Lists!Turn
  <1>3. CASE Lists!Retry
      BY <1>1, <1>3, ListReloads DEF Lists!Retry
  <1>4. ASSUME NEW l \in listLoads, NEW ok \in BOOLEAN, Lists!Settle(l, ok)
        PROVE  ListLoadsOK' /\ Lists!SettledShowsAsked'
    <2>1. CASE l.aborted
        BY <1>1, <1>4, <2>1 DEF Lists!Settle, Lists!Lands, Lists!Finally, ListLoadsOK, ListLoad,
           Lists!SettledShowsAsked
    <2>2. CASE ~l.aborted
      <3>1. l.query = listQuery /\ listBusy /\ ~listError
          BY <1>1, <2>2 DEF ListLoadsOK
      <3>2. \A k \in listLoads' : k.aborted
          BY <1>1, <1>4, <2>2 DEF Lists!Settle, ListLoadsOK
      <3>3. /\ listBusy' = FALSE /\ listQuery' = listQuery
            /\ listError' = ~ok
            /\ ok => result'.query = l.query
            /\ ~ok => errorOf' = l.query
          BY <1>4, <2>2, <3>1 DEF Lists!Settle, Lists!Lands, Lists!Finally
      <3> QED
          BY <1>1, <1>4, <3>1, <3>2, <3>3 DEF ListLoadsOK, ListLoad, Lists!SettledShowsAsked,
             Lists!Settle
    <2> QED
        BY <2>1, <2>2
  <1>5. ASSUME NEW v \in Views, Lists!Change(v)
        PROVE  ListLoadsOK' /\ Lists!SettledShowsAsked'
      BY <1>1, <1>5 DEF Lists!Change, ListLoadsOK, ListLoad, Lists!SettledShowsAsked
  <1>6. CASE UNCHANGED listVars
      BY <1>1, <1>6 DEF listVars, ListLoadsOK, ListLoad, Lists!SettledShowsAsked
  <1> QED
      BY <1>1, <1>2, <1>3, <1>4, <1>5, <1>6 DEF Lists!Next

(* A list at rest shows the answer to its address, or an error of it,      *)
(* whatever the order of turns and answers (EventsPage's effect).          *)
THEOREM ListShowsAsked == Spec => []SettledShowsAsked
  <1>1. ListInv => SettledShowsAsked
      BY DEF ListInv, SettledShowsAsked
  <1> QED
      BY ListInit, ListStep, <1>1, PTL DEF Spec

-----------------------------------------------------------------------------
(* The organiser's page.                                                   *)

(* The load that may land is the last one sent, for the route, the tab and *)
(* the page of now.                                                        *)
ManageLoad(l) ==
  l = [n |-> l.n, id |-> l.id, tab |-> l.tab, page |-> l.page, stage |-> l.stage,
       aborted |-> l.aborted]

AsksNow(l) == l.id = manageId /\ l.tab = tab /\ l.page = rosterPage

ManageLoadsOK ==
  /\ \A l \in manageLoads : ManageLoad(l)
  /\ \A l \in manageLoads : ~l.aborted => manageBusy /\ AsksNow(l)
  /\ \A k, l \in manageLoads : ~k.aborted /\ ~l.aborted => k = l
  /\ manageBusy => ~manageError
  /\ manageBusy \in BOOLEAN /\ manageError \in BOOLEAN

ManageInv == part = "manage" => ManageLoadsOK /\ Manage!OneEventOnDisplay

LEMMA ManageInit == Init => ManageInv
  <1> SUFFICES ASSUME Init, part = "manage"
               PROVE  ManageLoadsOK /\ Manage!OneEventOnDisplay
      BY DEF ManageInv
  <1>1. Manage!Init
      BY DEF Init
  <1>2. /\ manageLoads = {[n |-> 0, id |-> manageId, tab |-> tab, page |-> rosterPage,
                           stage |-> "event", aborted |-> FALSE]}
        /\ manageBusy = TRUE /\ manageError = FALSE
      BY <1>1 DEF Manage!Init
  <1>3. \A l \in manageLoads : ManageLoad(l) /\ AsksNow(l)
      BY <1>2 DEF ManageLoad, AsksNow
  <1> QED
      BY <1>2, <1>3 DEF ManageLoadsOK, Manage!OneEventOnDisplay

(* A new load leaves every other one aborted. *)
LEMMA ManageReloads ==
  ASSUME ManageLoadsOK, Manage!Reload
  PROVE  ManageLoadsOK' /\ Manage!OneEventOnDisplay'
  <1> DEFINE new == [n |-> manageLoadCount, id |-> manageId', tab |-> tab',
                     page |-> rosterPage', stage |-> "event", aborted |-> FALSE]
             old == {[l EXCEPT !.aborted = TRUE] : l \in manageLoads}
  <1>1. manageLoads' = old \cup {new} /\ manageBusy' = TRUE /\ manageError' = FALSE
      BY DEF Manage!Reload
  <1>2. \A l \in old : ManageLoad(l) /\ l.aborted = TRUE
      BY DEF ManageLoadsOK, ManageLoad
  <1>3. /\ ManageLoad(new) /\ new.aborted = FALSE
        /\ new.id = manageId' /\ new.tab = tab' /\ new.page = rosterPage'
      BY DEF ManageLoad
  <1> HIDE DEF new, old
  <1> QED
      BY <1>1, <1>2, <1>3 DEF ManageLoadsOK, ManageLoad, AsksNow, Manage!OneEventOnDisplay

(* What leaves the loads and the choices alone, and shows nothing new. *)
LEMMA ManageKeeps ==
  ASSUME ManageLoadsOK, Manage!OneEventOnDisplay,
         UNCHANGED <<Manage!asked, Manage!shown, manageLoads>>
  PROVE  ManageLoadsOK' /\ Manage!OneEventOnDisplay'
  BY DEF Manage!asked, Manage!shown, ManageLoadsOK, ManageLoad, AsksNow,
     Manage!OneEventOnDisplay

(* The first answer of a load moves it on. *)
LEMMA ManageEventRead ==
  ASSUME ManageLoadsOK, Manage!OneEventOnDisplay, NEW l \in manageLoads, Manage!ReadEvent(l)
  PROVE  ManageLoadsOK' /\ Manage!OneEventOnDisplay'
  <1> DEFINE new == [l EXCEPT !.stage = "rows"]
  <1>1. manageLoads' = (manageLoads \ {l}) \cup {new}
      BY DEF Manage!ReadEvent
  <1>2. UNCHANGED <<manageId, tab, rosterPage, manageEvent, roster, waitingTotal, manageError,
                    manageBusy>>
      BY DEF Manage!ReadEvent, Manage!asked, Manage!shown
  <1>3. /\ ManageLoad(new) /\ new.aborted = l.aborted
        /\ new.id = l.id /\ new.tab = l.tab /\ new.page = l.page
      BY DEF ManageLoadsOK, ManageLoad
  <1> HIDE DEF new
  <1> QED
      BY <1>1, <1>2, <1>3 DEF ManageLoadsOK, ManageLoad, AsksNow, Manage!OneEventOnDisplay

(* The end of a load. *)
LEMMA ManageLoadEnds ==
  ASSUME ManageLoadsOK, Manage!OneEventOnDisplay, NEW l \in manageLoads,
         Manage!ReadRows(l) \/ Manage!LoadFails(l)
  PROVE  ManageLoadsOK' /\ Manage!OneEventOnDisplay'
  <1>1. manageLoads' = manageLoads \ {l} /\ UNCHANGED <<manageId, tab, rosterPage>>
      BY DEF Manage!ReadRows, Manage!LoadFails, Manage!asked
  <1>2. CASE l.aborted
    <2>1. UNCHANGED <<manageEvent, roster, waitingTotal, manageError, manageBusy>>
        BY <1>2 DEF Manage!ReadRows, Manage!LoadFails, Manage!Lands, Manage!Finally, ManageLoadsOK
    <2> QED
        BY <1>1, <2>1 DEF ManageLoadsOK, ManageLoad, AsksNow, Manage!OneEventOnDisplay
  <1>3. CASE ~l.aborted
    <2>1. AsksNow(l) /\ manageBusy /\ ~manageError
        BY <1>3 DEF ManageLoadsOK
    <2>2. \A k \in manageLoads' : ManageLoad(k) /\ k.aborted
        BY <1>1, <1>3 DEF ManageLoadsOK, ManageLoad
    <2>3. manageBusy' = FALSE
        BY <1>3, <2>1 DEF Manage!ReadRows, Manage!LoadFails, Manage!Lands, Manage!Finally
    <2>4. CASE Manage!ReadRows(l)
      <3>1. /\ manageEvent' = l.id /\ waitingTotal'.id = l.id
            /\ roster' = [id |-> l.id, tab |-> l.tab, page |-> l.page]
            /\ manageError' = manageError
          BY <1>3, <2>4 DEF Manage!ReadRows, Manage!Lands
      <3> QED
          BY <1>1, <2>1, <2>2, <2>3, <3>1 DEF ManageLoadsOK, ManageLoad, AsksNow,
             Manage!OneEventOnDisplay
    <2>5. CASE Manage!LoadFails(l)
      <3>1. manageError' = TRUE
          BY <1>3, <2>5 DEF Manage!LoadFails, Manage!Lands
      <3> QED
          BY <1>1, <2>2, <2>3, <3>1 DEF ManageLoadsOK, ManageLoad, AsksNow,
             Manage!OneEventOnDisplay
    <2> QED
        BY <2>4, <2>5
  <1> QED
      BY <1>2, <1>3

LEMMA ManageStep ==
  ASSUME ManageInv, [Next]_vars
  PROVE  ManageInv'
  <1> SUFFICES ASSUME part' = "manage"
               PROVE  ManageLoadsOK' /\ Manage!OneEventOnDisplay'
      BY DEF ManageInv
  <1>1. ManageLoadsOK /\ Manage!OneEventOnDisplay /\ [Manage!Next]_manageVars
      BY ManageMoves DEF ManageInv
  <1>2. ASSUME \/ \E e \in Managed : Manage!Jump(e)
               \/ \E t \in Manage!Tabs, p \in RosterPages : Manage!Choose(t, p)
               \/ Manage!Retry
        PROVE  ManageLoadsOK' /\ Manage!OneEventOnDisplay'
      BY <1>1, <1>2, ManageReloads DEF Manage!Jump, Manage!Choose, Manage!Retry
  <1>3. ASSUME NEW l \in manageLoads, Manage!ReadEvent(l) \/ Manage!ReadRows(l) \/ Manage!LoadFails(l)
        PROVE  ManageLoadsOK' /\ Manage!OneEventOnDisplay'
      BY <1>1, <1>3, ManageEventRead, ManageLoadEnds
  <1>4. CASE Manage!Deleted
    <2>1. /\ manageLoads' = {} /\ manageEvent' = "none" /\ manageBusy' = FALSE
          /\ manageError' = manageError
        BY <1>4 DEF Manage!Deleted
    <2> QED
        BY <1>1, <2>1 DEF ManageLoadsOK, ManageLoad, AsksNow, Manage!OneEventOnDisplay
  <1>5. ASSUME \/ Manage!PressDelete \/ Manage!KeepEvent \/ Manage!Confirm \/ Manage!DeleteFails
               \/ \E e \in Managed, t \in Manage!Tabs : Manage!Change(e, t)
        PROVE  ManageLoadsOK' /\ Manage!OneEventOnDisplay'
      BY <1>1, <1>5, ManageKeeps DEF Manage!PressDelete, Manage!KeepEvent, Manage!Confirm,
         Manage!DeleteFails, Manage!Change
  <1>6. CASE UNCHANGED manageVars
      BY <1>1, <1>6, ManageKeeps DEF manageVars, Manage!asked, Manage!shown
  <1> QED
      BY <1>1, <1>2, <1>3, <1>4, <1>5, <1>6 DEF Manage!Next

(* The organiser's page at rest is about one event, one tab and one page   *)
(* of it, in whatever order the calls of each load were answered (its      *)
(* load).                                                                  *)
THEOREM ManageShowsOneEvent == Spec => []OneEventOnDisplay
  <1>1. ManageInv => OneEventOnDisplay
      BY DEF ManageInv, OneEventOnDisplay
  <1> QED
      BY ManageInit, ManageStep, <1>1, PTL DEF Spec

-----------------------------------------------------------------------------
(* The prober.                                                             *)

(* A step of the prober. *)
LEMMA HealthMoves ==
  ASSUME [Next]_vars, part' = "health"
  PROVE  part = "health" /\ [Health!Next]_probeVars
  BY DEF Next, vars, probeVars

(* The pool counts as anybody does. *)
LEMMA NoneRunning == Health!Cardinality({}) = 0
  <1>1. Cardinality({}) = 0
      BY FS_EmptySet
  <1> QED
      BY <1>1 DEF Health!Cardinality, Cardinality

ProbeTypes ==
  /\ open \subseteq Probes /\ holding \in Nat
  /\ probeQuery \in [Probes -> {"none", "queued", "running"}]
  /\ probeTimer \in [Probes -> Nat]

(* An open probe has a query in the pool or at the database, and its       *)
(* history knows the state of now; while it has met no trouble, no time    *)
(* has passed for it.                                                      *)
ProbeTold(p) ==
  /\ probeQuery[p] \in {"queued", "running"}
  /\ db = "up" => sawUp[p]
  /\ db # "up" => sawTrouble[p]
  /\ ~sawTrouble[p] => db = "up" /\ holding = 0 /\ probeTimer[p] = Timeout

HealthOK == ProbeTypes /\ \A p \in open : ProbeTold(p)

HealthInv == part = "health" => HealthOK

LEMMA HealthInit == Init => HealthInv
  <1> SUFFICES ASSUME Init, part = "health"
               PROVE  HealthOK
      BY DEF HealthInv
  <1>1. Health!Init
      BY DEF Init
  <1> QED
      BY <1>1 DEF Health!Init, HealthOK, ProbeTypes

(* What Observe writes down about a probe that is open after the step. *)
LEMMA Observed ==
  ASSUME Health!Observe, NEW p \in Probes, p \in open'
  PROVE  /\ db' = "up" => sawUp'[p]
         /\ db' # "up" => sawTrouble'[p]
         /\ ~sawTrouble'[p] => /\ db' = "up" /\ ~(holding' > 0)
                               /\ p \in open => ~sawTrouble[p]
  BY DEF Health!Observe

(* The types are kept. *)
LEMMA ProbeTypesKept ==
  ASSUME HealthOK, [Health!Next]_probeVars
  PROVE  ProbeTypes'
  <1> USE ClientsAreCoherent DEF Health!ProbeParameters
  <1>1. ASSUME NEW p \in Probes, Health!Ask(p)
        PROVE  ProbeTypes'
      BY <1>1 DEF Health!Ask, HealthOK, ProbeTypes
  <1>2. ASSUME NEW p \in Probes, Health!Connect(p)
        PROVE  ProbeTypes'
      BY <1>2 DEF Health!Connect, HealthOK, ProbeTypes
  <1>3. ASSUME NEW p \in Probes, Health!QuerySettles(p)
        PROVE  ProbeTypes'
      BY <1>3 DEF Health!QuerySettles, Health!Answer, HealthOK, ProbeTypes
  <1>4. ASSUME NEW p \in Probes, Health!TimerFires(p)
        PROVE  ProbeTypes'
      BY <1>4 DEF Health!TimerFires, Health!Answer, HealthOK, ProbeTypes
  <1>5. CASE Health!AbandonedEnds \/ Health!AbandonedMoves
      BY <1>5 DEF Health!AbandonedEnds, Health!AbandonedMoves, HealthOK, ProbeTypes
  <1>6. CASE Health!Tick
      BY <1>6 DEF Health!Tick, HealthOK, ProbeTypes
  <1>7. CASE Health!DatabaseChanges \/ UNCHANGED probeVars
      BY <1>7 DEF Health!DatabaseChanges, probeVars, HealthOK, ProbeTypes
  <1> QED
      BY <1>1, <1>2, <1>3, <1>4, <1>5, <1>6, <1>7 DEF Health!Next, Health!ProbeStep

(* A tick finds every open probe in trouble: a healthy database answers    *)
(* before time passes.                                                     *)
LEMMA TickMeansTrouble ==
  ASSUME HealthOK, Health!Tick, NEW p \in open
  PROVE  sawTrouble[p]
  <1> SUFFICES ASSUME ~sawTrouble[p]
               PROVE  FALSE
      OBVIOUS
  <1>1. db = "up" /\ holding = 0 /\ probeQuery[p] \in {"queued", "running"}
      BY DEF HealthOK, ProbeTold
  <1>2. Health!Running = {}
      BY <1>1 DEF Health!Tick
  <1>4. Health!FreeConnection
      BY <1>1, <1>2, NoneRunning, ClientsAreCoherent DEF Health!FreeConnection, Health!ProbeParameters
  <1> QED
      BY <1>1, <1>2, <1>4 DEF Health!Tick, Health!Running

LEMMA HealthStep ==
  ASSUME HealthInv, [Next]_vars
  PROVE  HealthInv'
  <1> SUFFICES ASSUME part' = "health"
               PROVE  HealthOK'
      BY DEF HealthInv
  <1>1. HealthOK /\ [Health!Next]_probeVars
      BY HealthMoves DEF HealthInv
  <1>2. ProbeTypes /\ ProbeTypes'
      BY <1>1, ProbeTypesKept DEF HealthOK
  <1>3. CASE UNCHANGED probeVars
      BY <1>1, <1>3 DEF probeVars, HealthOK, ProbeTypes, ProbeTold
  <1>4. CASE Health!Next
    <2>1. Health!Observe
        BY <1>4 DEF Health!Next, Health!ProbeStep, Health!Ask, Health!Connect,
           Health!QuerySettles, Health!TimerFires, Health!AbandonedEnds,
           Health!AbandonedMoves, Health!Tick, Health!DatabaseChanges
    <2>2. ASSUME NEW p \in open'
          PROVE  /\ probeQuery'[p] \in {"queued", "running"}
                 /\ ~sawTrouble'[p] => probeTimer'[p] = Timeout
      <3>1. p \in Probes
          BY <1>2, <2>2 DEF ProbeTypes
      <3>2. p \in open => ProbeTold(p)
          BY <1>1 DEF HealthOK
      <3>3. p \in open /\ ~sawTrouble'[p] => ~sawTrouble[p]
          BY <2>1, <2>2, <3>1, Observed
      <3>4. ASSUME NEW q \in Probes, Health!Ask(q)
            PROVE  /\ probeQuery'[p] \in {"queued", "running"}
                   /\ ~sawTrouble'[p] => probeTimer'[p] = Timeout
          BY <1>2, <2>2, <3>1, <3>2, <3>3, <3>4 DEF Health!Ask, ProbeTold, ProbeTypes
      <3>5. ASSUME NEW q \in Probes, Health!Connect(q)
            PROVE  /\ probeQuery'[p] \in {"queued", "running"}
                   /\ ~sawTrouble'[p] => probeTimer'[p] = Timeout
          BY <1>2, <2>2, <3>1, <3>2, <3>3, <3>5 DEF Health!Connect, ProbeTold, ProbeTypes
      <3>6. ASSUME NEW q \in Probes, Health!QuerySettles(q) \/ Health!TimerFires(q)
            PROVE  /\ probeQuery'[p] \in {"queued", "running"}
                   /\ ~sawTrouble'[p] => probeTimer'[p] = Timeout
          BY <1>2, <2>2, <3>1, <3>2, <3>3, <3>6
             DEF Health!QuerySettles, Health!TimerFires, Health!Answer, ProbeTold, ProbeTypes
      <3>7. CASE Health!Tick
        <4>1. p \in open /\ probeQuery' = probeQuery
            BY <2>2, <3>7 DEF Health!Tick
        <4> QED
            BY <1>1, <3>2, <3>3, <3>7, <4>1, TickMeansTrouble DEF ProbeTold
      <3>8. CASE Health!AbandonedEnds \/ Health!AbandonedMoves \/ Health!DatabaseChanges
          BY <2>2, <3>2, <3>3, <3>8 DEF Health!AbandonedEnds, Health!AbandonedMoves,
             Health!DatabaseChanges, ProbeTold
      <3> QED
          BY <1>4, <3>4, <3>5, <3>6, <3>7, <3>8 DEF Health!Next, Health!ProbeStep
    <2> QED
        BY <1>2, <2>1, <2>2, Observed DEF HealthOK, ProbeTold, ProbeTypes
  <1> QED
      BY <1>1, <1>3, <1>4

(* The answer of a probe tells of the time it ran: "ok" only of a database *)
(* that was up meanwhile, "degraded" only of trouble met meanwhile, also   *)
(* when the timer gave it (probeDatabase).                                 *)
THEOREM ProbesTellOfTheirTime == Spec => AnswersAreCurrent
  <1>1. ASSUME HealthInv, [Next]_vars, part = "health"
        PROVE  Health!TellsOfItsTime
    <2>1. HealthOK
        BY <1>1 DEF HealthInv
    <2>2. ASSUME NEW p \in open \ open'
          PROVE  /\ probeStatus' = "ok" => sawUp[p]
                 /\ probeStatus' = "degraded" => sawTrouble[p]
      <3>1. Health!QuerySettles(p) \/ Health!TimerFires(p)
          BY <1>1, <2>2 DEF Next, vars, probeVars, Health!Next, Health!ProbeStep, Health!Ask,
             Health!Connect, Health!QuerySettles, Health!TimerFires, Health!Answer,
             Health!AbandonedEnds, Health!AbandonedMoves, Health!Tick, Health!DatabaseChanges
      <3>2. ProbeTold(p) /\ Timeout # 0
          BY <2>1, <2>2, ClientsAreCoherent DEF HealthOK, Health!ProbeParameters
      <3> QED
          BY <3>1, <3>2 DEF Health!QuerySettles, Health!TimerFires, Health!Answer,
             Health!OnTimeout, ProbeTold
    <2> QED
        BY <2>2 DEF Health!TellsOfItsTime
  <1>2. HealthInv /\ [Next]_vars => [part = "health" => Health!TellsOfItsTime]_vars
      BY <1>1
  <1> QED
      BY HealthInit, HealthStep, <1>2, PTL DEF Spec, AnswersAreCurrent

-----------------------------------------------------------------------------
(* The session.                                                            *)

(* A step of the session. *)
LEMMA SessionMoves ==
  ASSUME [Next]_vars, part' = "session"
  PROVE  part = "session" /\ [Session!Next]_sessionVars
  BY DEF Next, vars, sessionVars

SessionTypes ==
  /\ issued \subseteq Tokens /\ token \in issued \cup {None} /\ mounted \in issued \cup {None}
  /\ rendered \in Tokens \cup {None, Empty}
  /\ flight \in [Flights -> Session!Flight \cup {Empty}]

(* Storage and state change together; so does the client's reader, from    *)
(* the first render on; nothing is under way before it.                    *)
InStep ==
  /\ stored = token
  /\ rendered # Empty => reader = token
  /\ rendered = Empty => user = None /\ \A f \in Flights : flight[f] = Empty

(* The check that still counts is about the token of the last render.      *)
Checks(f) == flight[f] # Empty /\ flight[f].kind = "me"
Counts(f) == Checks(f) /\ flight[f].active

ChecksOK ==
  \A f \in Flights :
    /\ Checks(f) => flight[f].token \in Tokens
    /\ Counts(f) => flight[f].token = rendered

(* A token comes to the page once: no sign-in brings the one it was loaded *)
(* with, so a page that still has that one has rendered it.                *)
SignInsOK ==
  \A f \in Flights :
    flight[f] # Empty /\ flight[f].kind = "login" /\ flight[f].outcome = "ok"
      => flight[f].token \in issued /\ flight[f].token # mounted

FirstToken == rendered # Empty /\ token # None /\ token = mounted => rendered = token

(* Who is on the screen owns the token, unless a check is to say so. *)
UserOK ==
  rendered = token =>
    \/ user = None
    \/ token # None /\ user = Owner[token]
    \/ \E f \in Flights : Counts(f)

SessionOK ==
  /\ SessionTypes /\ InStep /\ ChecksOK /\ SignInsOK /\ FirstToken /\ UserOK
  /\ Session!NotBouncedWhileChecking

SessionInv == part = "session" => SessionOK

LEMMA SessionInit == Init => SessionInv
  <1> SUFFICES ASSUME Init, part = "session"
               PROVE  SessionOK
      BY DEF SessionInv
  <1>1. Session!Init
      BY DEF Init
  <1>2. SessionTypes
      BY <1>1 DEF Session!Init, SessionTypes
  <1>3. token # Empty
      BY <1>2, ClientsAreCoherent DEF SessionTypes, Session!NoneIsNobody
  <1> QED
      BY <1>1, <1>2, <1>3 DEF Session!Init, SessionOK, InStep, Checks, Counts, ChecksOK,
         SignInsOK, FirstToken, UserOK, Session!NotBouncedWhileChecking, Session!Gate,
         Session!StillLoading

(* A request that is sent is not a check, and changes nothing on screen.   *)
LEMMA SessionSends ==
  ASSUME SessionOK, NEW f \in Flights, Session!SubmitCredentials(f) \/ Session!MakeCall(f)
  PROVE  SessionOK'
  <1>1. PICK fl \in Session!Flight :
          /\ flight[f] = Empty /\ flight' = [flight EXCEPT ![f] = fl]
          /\ fl.kind # "me" /\ fl.outcome = "none"
    <2>1. reader \in Tokens \cup {None}
        BY DEF SessionOK, SessionTypes, InStep, Session!MakeCall, Session!SubmitCredentials
    <2> DEFINE new(k, t) == [kind |-> k, token |-> t, outcome |-> "none", active |-> TRUE]
    <2>2. CASE Session!SubmitCredentials(f)
      <3>1. new("login", None) \in Session!Flight
          BY DEF Session!Flight
      <3> QED
          BY <2>2, <3>1 DEF Session!SubmitCredentials, Session!Sends
    <2>3. CASE Session!MakeCall(f)
      <3>1. new("call", reader) \in Session!Flight
          BY <2>1 DEF Session!Flight
      <3> QED
          BY <2>3, <3>1 DEF Session!MakeCall, Session!Sends
    <2> QED
        BY <2>2, <2>3
  <1>2. /\ UNCHANGED <<issued, stored, token, user, sessionLoading, rendered, reader, mounted,
                       tried>>
        /\ rendered # Empty
      BY DEF Session!SubmitCredentials, Session!MakeCall, Session!session
  <1>3. fl # Empty
      BY ClientsAreCoherent DEF Session!NoneIsNobody
  <1>4. SessionTypes' /\ \A g \in Flights : g # f => flight'[g] = flight[g]
      BY <1>1, <1>2 DEF SessionOK, SessionTypes
  <1>5. flight'[f] = fl
      BY <1>1 DEF SessionOK, SessionTypes
  <1>6. \A g \in Flights : (Checks(g)' <=> Checks(g)) /\ (Counts(g)' <=> Counts(g))
      BY <1>1, <1>3, <1>4, <1>5 DEF Checks, Counts
  <1>7. ChecksOK' /\ SignInsOK' /\ UserOK'
      BY <1>1, <1>2, <1>4, <1>5, <1>6 DEF SessionOK, ChecksOK, SignInsOK, UserOK, Checks, Counts
  <1> QED
      BY <1>2, <1>4, <1>7 DEF SessionOK, InStep, FirstToken, Session!NotBouncedWhileChecking,
         Session!Gate

(* A request that has come back is under way no more. *)
LEMMA SessionLands ==
  ASSUME SessionTypes, NEW f \in Flights, Session!Lands(f)
  PROVE  /\ flight' \in [Flights -> Session!Flight \cup {Empty}]
         /\ flight'[f] = Empty
         /\ \A g \in Flights : g # f => flight'[g] = flight[g]
  BY DEF SessionTypes, Session!Lands

(* The requests that are left, when the token and the page are the same.   *)
LEMMA SessionLeft ==
  ASSUME SessionOK, UNCHANGED <<issued, rendered, mounted>>,
         flight' \in [Flights -> Session!Flight \cup {Empty}],
         \A g \in Flights : flight'[g] = flight[g] \/ flight'[g] = Empty
  PROVE  ChecksOK' /\ SignInsOK'
  BY DEF SessionOK, SessionTypes, ChecksOK, SignInsOK, Checks, Counts

(* The session is cleared: by the user, or by a 401. *)
LEMMA SessionCleared ==
  ASSUME SessionOK, UNCHANGED <<issued, rendered, mounted>>, tried \subseteq tried',
         reader' = None, token' = None, user' = None, stored' = None,
         flight' \in [Flights -> Session!Flight \cup {Empty}],
         \A g \in Flights : flight'[g] = flight[g] \/ flight'[g] = Empty
  PROVE  SessionOK'
  <1>1. ChecksOK' /\ SignInsOK'
      BY SessionLeft
  <1> QED
      BY <1>1 DEF SessionOK, SessionTypes, InStep, FirstToken, UserOK,
         Session!NotBouncedWhileChecking

(* A sign-in succeeds or fails. *)
LEMMA SessionSignedIn ==
  ASSUME SessionOK, NEW f \in Flights, Session!SignedIn(f)
  PROVE  SessionOK'
  <1>1. /\ flight[f] # Empty /\ flight[f].kind = "login"
        /\ UNCHANGED <<issued, mounted, tried>> /\ Session!Lands(f)
      BY DEF Session!SignedIn, Session!Answered
  <1>2. /\ flight' \in [Flights -> Session!Flight \cup {Empty}] /\ flight'[f] = Empty
        /\ \A g \in Flights : g # f => flight'[g] = flight[g]
      BY <1>1, SessionLands DEF SessionOK
  <1>3. rendered' = rendered
      BY DEF Session!SignedIn, Session!session
  <1>4. ChecksOK' /\ SignInsOK'
      BY <1>1, <1>2, <1>3, SessionLeft
  <1>5. CASE flight[f].outcome = "ok"
    <2> DEFINE t == flight[f].token
    <2>1. t \in issued /\ t # mounted /\ t \in Tokens
        BY <1>1, <1>5 DEF SessionOK, SignInsOK, SessionTypes
    <2>2. reader' = t /\ stored' = t /\ token' = t /\ user' = Owner[t]
        BY <1>5 DEF Session!SignedIn
    <2>3. t # None /\ t # Empty /\ Owner[t] # None /\ rendered # Empty
        BY <1>1, <2>1, ClientsAreCoherent DEF Session!NoneIsNobody, SessionOK, InStep
    <2> HIDE DEF t
    <2> QED
        BY <1>1, <1>2, <1>3, <1>4, <2>1, <2>2, <2>3 DEF SessionOK, SessionTypes, InStep,
           FirstToken, UserOK, Session!NotBouncedWhileChecking, Session!Gate
  <1>6. CASE flight[f].outcome # "ok"
    <2>1. UNCHANGED <<stored, token, user, sessionLoading, reader>>
        BY <1>6 DEF Session!SignedIn, Session!session
    <2>2. \A g \in Flights : Counts(g) => Counts(g)'
        BY <1>1, <1>2 DEF Counts, Checks
    <2>3. UserOK'
        BY <1>3, <2>1, <2>2 DEF SessionOK, UserOK
    <2> QED
        BY <1>1, <1>2, <1>3, <1>4, <2>1, <2>3 DEF SessionOK, SessionTypes, InStep,
           FirstToken, Session!NotBouncedWhileChecking, Session!Gate
  <1> QED
      BY <1>5, <1>6

(* The check of a token ends; only the one that counts is heard. *)
LEMMA SessionCheckEnds ==
  ASSUME SessionOK, NEW f \in Flights, Session!CheckEnds(f)
  PROVE  SessionOK'
  <1>1. /\ Checks(f) /\ tried' = tried \cup {flight[f].token}
        /\ UNCHANGED <<issued, mounted>> /\ Session!Lands(f)
      BY DEF Session!CheckEnds, Session!Answered, Checks
  <1>2. /\ flight' \in [Flights -> Session!Flight \cup {Empty}] /\ flight'[f] = Empty
        /\ \A g \in Flights : g # f => flight'[g] = flight[g]
      BY <1>1, SessionLands DEF SessionOK
  <1>3. rendered' = rendered
      BY DEF Session!CheckEnds, Session!session
  <1>4. ChecksOK' /\ SignInsOK'
      BY <1>1, <1>2, <1>3, SessionLeft
  <1>5. CASE ~flight[f].active
    <2>1. UNCHANGED <<stored, token, user, sessionLoading, reader>>
        BY <1>5 DEF Session!CheckEnds, Session!session
    <2>2. \A g \in Flights : Counts(g) => Counts(g)'
        BY <1>2, <1>5 DEF Counts, Checks
    <2>3. UserOK'
        BY <1>3, <2>1, <2>2 DEF SessionOK, UserOK
    <2> QED
        BY <1>1, <1>2, <1>3, <1>4, <2>1, <2>3 DEF SessionOK, SessionTypes, InStep,
           FirstToken, Session!NotBouncedWhileChecking, Session!Gate
  <1>6. CASE flight[f].active
    <2> DEFINE t == flight[f].token
    <2>1. t = rendered /\ t \in Tokens
        BY <1>1, <1>6 DEF SessionOK, ChecksOK, Counts
    <2>2. t # None /\ t # Empty /\ Owner[t] # None
        BY <2>1, ClientsAreCoherent DEF Session!NoneIsNobody
    <2>3. CASE flight[f].outcome = "denied"
      <3>1. reader' = None /\ token' = None /\ user' = None /\ stored' = None
          BY <1>6, <2>3 DEF Session!CheckEnds
      <3> QED
          BY <1>1, <1>2, <1>3, <3>1, SessionCleared
    <2>4. CASE flight[f].outcome # "denied"
      <3>1. /\ UNCHANGED <<stored, token, reader>>
            /\ user' = Owner[t] \/ user' = None
          BY <1>6, <2>4 DEF Session!CheckEnds
      <3>2. t \in tried'
          BY <1>1
      <3> HIDE DEF t
      <3>3. UserOK'
          BY <1>3, <2>1, <2>2, <3>1 DEF UserOK
      <3>4. token = mounted /\ token # None => token = t
          BY <2>1, <2>2 DEF SessionOK, FirstToken
      <3>5. Session!NotBouncedWhileChecking'
          BY <1>1, <3>1, <3>2, <3>4 DEF Session!NotBouncedWhileChecking
      <3>6. InStep'
          BY <1>3, <2>1, <2>2, <3>1 DEF SessionOK, InStep
      <3> QED
          BY <1>1, <1>2, <1>3, <1>4, <3>1, <3>3, <3>5, <3>6 DEF SessionOK, SessionTypes,
             FirstToken
    <2> QED
        BY <2>3, <2>4
  <1> QED
      BY <1>5, <1>6

(* Any other call ends. *)
LEMMA SessionCallEnds ==
  ASSUME SessionOK, NEW f \in Flights, Session!CallEnds(f)
  PROVE  SessionOK'
  <1>1. /\ flight[f] # Empty /\ flight[f].kind = "call"
        /\ UNCHANGED <<issued, mounted, tried>> /\ Session!Lands(f)
      BY DEF Session!CallEnds, Session!Answered
  <1>2. /\ flight' \in [Flights -> Session!Flight \cup {Empty}] /\ flight'[f] = Empty
        /\ \A g \in Flights : g # f => flight'[g] = flight[g]
      BY <1>1, SessionLands DEF SessionOK
  <1>3. rendered' = rendered
      BY DEF Session!CallEnds, Session!ClearSession, Session!session
  <1>4. CASE Session!ClearSession
      BY <1>1, <1>2, <1>3, <1>4, SessionCleared DEF Session!ClearSession
  <1>5. CASE UNCHANGED Session!session
    <2>1. UNCHANGED <<stored, token, user, sessionLoading, reader>>
        BY <1>5 DEF Session!session
    <2>2. \A g \in Flights : Counts(g) => Counts(g)'
        BY <1>1, <1>2 DEF Counts, Checks
    <2>3. UserOK'
        BY <1>3, <2>1, <2>2 DEF SessionOK, UserOK
    <2>4. ChecksOK' /\ SignInsOK'
        BY <1>1, <1>2, <1>3, SessionLeft
    <2> QED
        BY <1>1, <1>2, <1>3, <2>1, <2>3, <2>4 DEF SessionOK, SessionTypes, InStep,
           FirstToken, Session!NotBouncedWhileChecking, Session!Gate
  <1> QED
      BY <1>4, <1>5 DEF Session!CallEnds

(* The page is loaded anew: nothing is under way, nothing rendered. *)
LEMMA SessionReloads ==
  ASSUME SessionOK, Session!Reload
  PROVE  SessionOK'
  <1>1. /\ UNCHANGED <<issued, stored, tried>>
        /\ token' = stored /\ mounted' = stored /\ user' = None
        /\ sessionLoading' = (stored # None) /\ rendered' = Empty
        /\ flight' = [f \in Flights |-> Empty]
      BY DEF Session!Reload, Session!Mounted, Session!StillLoading
  <1>2. token' = token /\ token # Empty
      BY <1>1, ClientsAreCoherent DEF SessionOK, SessionTypes, InStep, Session!NoneIsNobody
  <1>3. SessionTypes'
      BY <1>1, <1>2 DEF SessionOK, SessionTypes
  <1>4. ChecksOK' /\ SignInsOK'
      BY <1>1 DEF ChecksOK, SignInsOK, Checks, Counts
  <1> QED
      BY <1>1, <1>2, <1>3, <1>4 DEF SessionOK, InStep, FirstToken, UserOK,
         Session!NotBouncedWhileChecking, Session!Gate

(* The API answers: only a sign-in that succeeds changes more than the     *)
(* outcome, and the token it brings is new.                                *)
LEMMA SessionServed ==
  ASSUME SessionOK, NEW f \in Flights, Session!Serve(f)
  PROVE  SessionOK'
  <1>1. /\ flight[f] # Empty
        /\ UNCHANGED <<stored, token, user, sessionLoading, rendered, reader, mounted, tried>>
      BY DEF Session!Serve, Session!session
  <1>2. flight \in [Flights -> Session!Flight \cup {Empty}] /\ flight[f] \in Session!Flight
      BY <1>1 DEF SessionOK, SessionTypes
  <1>3. PICK o \in {"ok", "denied", "lost"}, t \in Tokens \cup {None} :
          /\ flight' = [flight EXCEPT ![f] = [flight[f] EXCEPT !.outcome = o, !.token = t]]
          /\ \/ /\ t = flight[f].token /\ issued' = issued
                /\ flight[f].kind = "login" => o # "ok"
             \/ /\ flight[f].kind = "login" /\ t \in Tokens \ issued
                /\ issued' = issued \cup {t}
    <2>1. flight[f].token \in Tokens \cup {None}
        BY <1>2 DEF Session!Flight
    <2>2. \A o \in {"ok", "denied", "lost"} :
             [flight EXCEPT ![f].outcome = o]
               = [flight EXCEPT ![f] = [flight[f] EXCEPT !.outcome = o, !.token = flight[f].token]]
        BY <1>2 DEF Session!Flight
    <2>3. \A t \in Tokens :
             [flight EXCEPT ![f].outcome = "ok", ![f].token = t]
               = [flight EXCEPT ![f] = [flight[f] EXCEPT !.outcome = "ok", !.token = t]]
        BY <1>2 DEF Session!Flight
    <2> QED
        BY <2>1, <2>2, <2>3 DEF Session!Serve
  <1> DEFINE Told == /\ t = flight[f].token /\ issued' = issued
                     /\ flight[f].kind = "login" => o # "ok"
             Issued == /\ flight[f].kind = "login" /\ t \in Tokens \ issued
                       /\ issued' = issued \cup {t}
             new == [flight[f] EXCEPT !.outcome = o, !.token = t]
  <1>13. Told \/ Issued
      BY <1>3
  <1>4. /\ new \in Session!Flight /\ new.kind = flight[f].kind /\ new.active = flight[f].active
        /\ new.token = t /\ new.outcome = o
      BY <1>2 DEF Session!Flight
  <1>5. flight' = [flight EXCEPT ![f] = new]
      BY <1>3
  <1>6. new # Empty
      BY <1>4, ClientsAreCoherent DEF Session!NoneIsNobody
  <1>14. (Told => issued' = issued) /\ (Issued => issued' = issued \cup {t} /\ t \in Tokens)
      OBVIOUS
  <1> HIDE DEF new, Told, Issued
  <1>7. /\ flight' \in [Flights -> Session!Flight \cup {Empty}] /\ flight'[f] = new
        /\ \A g \in Flights : g # f => flight'[g] = flight[g]
      BY <1>2, <1>4, <1>5
  <1>8. issued \subseteq issued' /\ issued' \subseteq Tokens
      BY <1>13, <1>14 DEF SessionOK, SessionTypes
  <1>9. SessionTypes'
      BY <1>1, <1>7, <1>8 DEF SessionOK, SessionTypes
  <1>10. \A g \in Flights : /\ Checks(g)' <=> Checks(g)
                            /\ Counts(g)' <=> Counts(g)
                            /\ Checks(g) => flight'[g].token = flight[g].token
      BY <1>1, <1>4, <1>6, <1>7, <1>13 DEF Checks, Counts, Told, Issued
  <1>11. ChecksOK' /\ UserOK'
      BY <1>1, <1>10 DEF SessionOK, ChecksOK, UserOK, Counts
  <1>12. SignInsOK'
    <2>1. ASSUME NEW g \in Flights, flight'[g] # Empty, flight'[g].kind = "login",
                 flight'[g].outcome = "ok"
          PROVE  flight'[g].token \in issued' /\ flight'[g].token # mounted
      <3>1. CASE g # f
          BY <2>1, <3>1, <1>7, <1>8 DEF SessionOK, SignInsOK
      <3>2. CASE g = f
        <4>1. t \in Tokens \ issued /\ issued' = issued \cup {t}
            BY <1>4, <1>7, <1>13, <2>1, <3>2 DEF Told, Issued
        <4>2. t # mounted
            BY <4>1, ClientsAreCoherent DEF SessionOK, SessionTypes, Session!NoneIsNobody
        <4> QED
            BY <1>4, <1>7, <3>2, <4>1, <4>2
      <3> QED
          BY <3>1, <3>2
    <2> QED
        BY <2>1, <1>1 DEF SignInsOK
  <1> QED
      BY <1>1, <1>6, <1>7, <1>9, <1>11, <1>12 DEF SessionOK, InStep, FirstToken,
         Session!NotBouncedWhileChecking, Session!Gate

(* A render hands the token to the client, drops the check that was under  *)
(* way and starts the next one.                                            *)
LEMMA SessionRenders ==
  ASSUME SessionOK, Session!Render
  PROVE  SessionOK'
  <1> DEFINE kept == [f \in Flights |-> Session!Deactivated(flight[f])]
  <1>1. /\ rendered' = token /\ reader' = token
        /\ UNCHANGED <<issued, stored, token, mounted, tried>>
      BY DEF Session!Render
  <1>2. SessionTypes /\ token \in Tokens \cup {None} /\ token # Empty
      BY ClientsAreCoherent DEF SessionOK, SessionTypes, Session!NoneIsNobody
  <1>3. ASSUME NEW g \in Flights
        PROVE  /\ kept[g] \in Session!Flight \cup {Empty}
               /\ kept[g] = Empty <=> flight[g] = Empty
               /\ kept[g] # Empty =>
                    /\ kept[g].kind = flight[g].kind /\ kept[g].token = flight[g].token
                    /\ kept[g].outcome = flight[g].outcome
                    /\ kept[g].kind = "me" => ~kept[g].active
    <2>1. flight[g] \in Session!Flight \cup {Empty}
        BY <1>2 DEF SessionTypes
    <2>2. CASE flight[g] # Empty /\ flight[g].kind = "me"
      <3>1. kept[g] = [flight[g] EXCEPT !.active = FALSE]
          BY <2>2 DEF Session!Deactivated
      <3>2. kept[g] \in Session!Flight
          BY <2>1, <2>2, <3>1 DEF Session!Flight
      <3> QED
          BY <2>1, <2>2, <3>1, <3>2, ClientsAreCoherent DEF Session!Flight, Session!NoneIsNobody
    <2>3. CASE ~(flight[g] # Empty /\ flight[g].kind = "me")
        BY <2>1, <2>3 DEF Session!Deactivated
    <2> QED
        BY <2>2, <2>3
  <1>4. kept \in [Flights -> Session!Flight \cup {Empty}]
      BY <1>3
  <1>5. InStep' /\ FirstToken' /\ (token = None \/ UNCHANGED <<user, sessionLoading>>)
      BY <1>1, <1>2 DEF SessionOK, InStep, FirstToken, Session!Render
  <1>6. Session!NotBouncedWhileChecking'
      BY <1>1, <1>5 DEF SessionOK, Session!NotBouncedWhileChecking, Session!Gate
  <1>7. CASE token = None
    <2>1. flight' = kept /\ user' = None
        BY <1>7 DEF Session!Render, Session!WithoutToken
    <2> HIDE DEF kept
    <2>2. SessionTypes'
        BY <1>1, <1>2, <1>4, <2>1 DEF SessionTypes
    <2>3. ChecksOK' /\ SignInsOK' /\ UserOK'
        BY <1>1, <1>3, <2>1 DEF SessionOK, ChecksOK, SignInsOK, UserOK, Checks, Counts
    <2> QED
        BY <1>5, <1>6, <2>2, <2>3 DEF SessionOK
  <1>8. CASE token # None
    <2> DEFINE new == [kind |-> "me", token |-> token, outcome |-> "none", active |-> TRUE]
    <2>1. PICK f \in Flights : kept[f] = Empty /\ flight' = [kept EXCEPT ![f] = new]
        BY <1>8 DEF Session!Render
    <2>2. /\ new \in Session!Flight /\ new.kind = "me" /\ new.token = token
          /\ new.outcome = "none" /\ new.active
        BY <1>2 DEF Session!Flight
    <2>3. new # Empty
        BY <2>2, ClientsAreCoherent DEF Session!NoneIsNobody
    <2> HIDE DEF kept, new
    <2>4. /\ flight' \in [Flights -> Session!Flight \cup {Empty}] /\ flight'[f] = new
          /\ \A g \in Flights : g # f => flight'[g] = kept[g]
        BY <1>4, <2>1, <2>2
    <2>5. SessionTypes'
        BY <1>1, <1>2, <2>4 DEF SessionTypes
    <2>6. Counts(f)'
        BY <2>2, <2>3, <2>4 DEF Counts, Checks
    <2>7. UserOK'
        BY <2>6 DEF UserOK
    <2>8. SignInsOK'
        BY <1>1, <1>3, <2>2, <2>4 DEF SessionOK, SignInsOK
    <2>9. ChecksOK'
        BY <1>1, <1>2, <1>3, <1>8, <2>2, <2>4 DEF SessionOK, ChecksOK, Checks, Counts
    <2> QED
        BY <1>5, <1>6, <2>5, <2>7, <2>8, <2>9 DEF SessionOK
  <1> QED
      BY <1>7, <1>8

LEMMA SessionStep ==
  ASSUME SessionInv, [Next]_vars
  PROVE  SessionInv'
  <1> SUFFICES ASSUME part' = "session"
               PROVE  SessionOK'
      BY DEF SessionInv
  <1>1. SessionOK /\ [Session!Next]_sessionVars
      BY SessionMoves DEF SessionInv
  <1>2. CASE Session!SignOut
    <2>1. flight' \in [Flights -> Session!Flight \cup {Empty}]
        BY <1>1, <1>2 DEF Session!SignOut, SessionOK, SessionTypes
    <2> QED
        BY <1>1, <1>2, <2>1, SessionCleared DEF Session!SignOut, Session!ClearSession
  <1>3. CASE Session!Expire \/ UNCHANGED sessionVars
    <2>1. UNCHANGED <<issued, stored, token, user, sessionLoading, rendered, reader, flight,
                      mounted, tried>>
        BY <1>3 DEF Session!Expire, Session!session, sessionVars
    <2>2. SessionTypes' /\ InStep' /\ FirstToken'
        BY <1>1, <2>1 DEF SessionOK, SessionTypes, InStep, FirstToken
    <2>3. ChecksOK' /\ SignInsOK' /\ UserOK'
        BY <1>1, <2>1 DEF SessionOK, ChecksOK, SignInsOK, UserOK, Checks, Counts
    <2> QED
        BY <1>1, <2>1, <2>2, <2>3 DEF SessionOK, Session!NotBouncedWhileChecking, Session!Gate
  <1> QED
      BY <1>1, <1>2, <1>3, SessionRenders, SessionReloads, SessionSends, SessionServed,
         SessionSignedIn, SessionCheckEnds, SessionCallEnds DEF Session!Next

(* A session at rest shows the owner of the token it sends, and nobody is  *)
(* sent to the login page while the token the page was loaded with is      *)
(* being checked, whatever the order of renders, sign-ins, sign-outs and   *)
(* answers (AuthProvider, RequireAuth).                                    *)
THEOREM SessionShowsTruth == Spec => []SessionIsTrue
  <1>1. SessionInv => SessionIsTrue
    <2> SUFFICES ASSUME part = "session", SessionOK
                 PROVE  Session!SessionIsTrue
        BY DEF SessionInv, SessionIsTrue
    <2>1. ASSUME Session!Settled
          PROVE  /\ user # None => token # None /\ user = Owner[token]
                 /\ reader = token /\ stored = token
      <3>1. rendered = token /\ \A f \in Flights : ~Counts(f)
          BY <2>1 DEF Session!Settled, Counts, Checks
      <3>2. rendered # Empty
          BY <3>1, ClientsAreCoherent DEF SessionOK, SessionTypes, Session!NoneIsNobody
      <3> QED
          BY <3>1, <3>2 DEF SessionOK, InStep, UserOK
    <2> QED
        BY <2>1 DEF SessionOK, Session!SessionIsTrue, Session!SettledUserOwnsToken
  <1> QED
      BY SessionInit, SessionStep, <1>1, PTL DEF Spec

-----------------------------------------------------------------------------
(* The organiser's form.                                                   *)

(* A step of the form. *)
LEMMA FormMoves ==
  ASSUME [Next]_vars, part' = "form"
  PROVE  part = "form" /\ [Form!Next]_formVars
  BY DEF Next, vars, formVars

Bounds == {"startsAt", "endsAt"}
FormLoad(l) == DOMAIN l = {"n", "id", "aborted"}

FormTypes ==
  /\ DOMAIN form = {"startsAt", "endsAt", "timezone", "rest"}
  /\ DOMAIN save =
       {"stage", "id", "from", "shown", "touched", "startsAt", "endsAt"}
  /\ \A e \in FormEvents, key \in Bounds : formRows[e][key] # Form!Unset
  /\ \A l \in formLoads : FormLoad(l) /\ l.id \in FormEvents

(* The form remembers the event it was filled from, to the instant, and    *)
(* shows it wherever it was not edited.                                    *)
FilledFrom ==
  source.id \in FormEvents =>
    \A key \in Bounds :
      /\ originals[key] = source[key] /\ source[key] # Form!Unset
      /\ touched \cap {key, "timezone"} = {} =>
           /\ form[key] = Form!toDateTimeLocal(source[key], originals.timezone)
           /\ form.timezone = originals.timezone

(* What is sent has been read, so the row it replaces stays readable. *)
SentIsRead ==
  save.stage = "sent" => \A key \in Bounds : save[key] # Form!Unset

FormOK == FormTypes /\ FilledFrom /\ SentIsRead /\ Form!TimesAreKept
FormInv == part = "form" => FormOK

LEMMA NoReading == Form!Cardinality({}) = 0
  <1>1. Form!Cardinality({}) = Cardinality({})
      BY DEF Form!Cardinality, Cardinality
  <1> QED
      BY <1>1, FS_EmptySet

(* A time read from a field reads as the field says. *)
LEMMA ReadsAsShown ==
  ASSUME NEW wall, NEW zone, Form!fromDateTimeLocal(wall, zone) # Form!Unset
  PROVE  Form!toDateTimeLocal(Form!fromDateTimeLocal(wall, zone), zone) = wall
  <1>1. PICK i : i = Form!fromDateTimeLocal(wall, zone)
      OBVIOUS
  <1>2. i \in Form!Readings(wall, zone)
    <2>1. Form!Cardinality(Form!Readings(wall, zone)) = 1
        BY DEF Form!fromDateTimeLocal
    <2>2. Form!Readings(wall, zone) # {}
        BY <2>1, NoReading
    <2> QED
        BY <1>1, <2>1, <2>2 DEF Form!fromDateTimeLocal
  <1>3. PICK n \in 0..5 : i = 2 * n /\ n + Form!Offset(zone, n) = wall
      BY <1>2 DEF Form!Readings
  <1>4. i \div 2 = n
      BY <1>3
  <1> QED
      BY <1>1, <1>3, <1>4 DEF Form!toDateTimeLocal

LEMMA ResolvedAsShown ==
  ASSUME NEW wall, NEW zone, NEW iso, NEW isoZone,
         Form!resolveEventTime(wall, zone, iso, isoZone) # Form!Unset
  PROVE  Form!toDateTimeLocal(Form!resolveEventTime(wall, zone, iso, isoZone), zone) = wall
  BY ReadsAsShown DEF Form!resolveEventTime

LEMMA FormInit == Init => FormInv
  <1> SUFFICES ASSUME Init, part = "form"
               PROVE  FormOK
      BY DEF FormInv
  <1>1. Form!Init
      BY DEF Init
  <1>2. PICK z \in {"plain", "shifting"}, i \in Instants, j \in Instants :
          formRows = [e \in FormEvents |-> [startsAt |-> i, endsAt |-> j, timezone |-> z]]
      BY <1>1 DEF Form!Init
  <1>3. i \in Nat /\ j \in Nat
      BY ClientsAreCoherent DEF Form!FormsAndEvents
  <1>4. \A e \in FormEvents, key \in Bounds : formRows[e][key] # Form!Unset
      BY <1>2, <1>3 DEF Bounds, Form!Unset
  <1>5. FormTypes
      BY <1>1, <1>4 DEF FormTypes, Form!Init, Form!NoForm, Form!NoSave
  <1>6. source.id \notin FormEvents
      BY <1>1, ClientsAreCoherent DEF Form!Init, Form!NoSource, Form!FormsAndEvents
  <1>7. save.stage # "sent"
      BY <1>1 DEF Form!Init, Form!NoSave
  <1> QED
      BY <1>5, <1>6, <1>7 DEF FormOK, FilledFrom, SentIsRead, Form!TimesAreKept,
         Form!UntouchedTimesSurvive, Form!SentIsShown

(* The save in flight says all there is to say of the times it sends. *)
LEMMA SaveKept ==
  ASSUME FormOK, save' = save \/ save'.stage # "sent"
  PROVE  SentIsRead' /\ Form!TimesAreKept'
  BY DEF FormOK, SentIsRead, Form!TimesAreKept, Form!UntouchedTimesSurvive, Form!SentIsShown

(* Neither the form nor what it was filled from changes. *)
LEMMA FillingKept ==
  ASSUME FilledFrom, UNCHANGED <<source, originals, form, touched>>
  PROVE  FilledFrom'
  BY DEF FilledFrom

LEMMA FormAsks ==
  ASSUME FormTypes, NEW t, Form!Asks(t)
  PROVE  \A l \in formLoads' : FormLoad(l) /\ l.id \in FormEvents
  <1>1. \A l \in Form!AbortAll : FormLoad(l) /\ l.id \in FormEvents
    <2>1. ASSUME NEW l \in formLoads, NEW new, new = [l EXCEPT !.aborted = TRUE]
          PROVE  FormLoad(new) /\ new.id \in FormEvents
        BY <2>1 DEF FormTypes, FormLoad
    <2> QED
        BY <2>1 DEF Form!AbortAll
  <1> QED
      BY <1>1 DEF Form!Asks, FormLoad

LEMMA FormClosed ==
  ASSUME FormOK, Form!Closes, formRows' = formRows
  PROVE  FormOK'
  <1>1. FormTypes'
      BY DEF FormOK, Form!Closes, FormTypes, Form!NoForm, Form!NoSave
  <1>2. FilledFrom'
      BY ClientsAreCoherent DEF Form!Closes, FilledFrom, Form!NoSource, Form!FormsAndEvents
  <1> QED
      BY <1>1, <1>2, SaveKept DEF FormOK, Form!Closes, Form!NoSave

(* The form is opened, closed, or shown under another address. *)
LEMMA FormArrives ==
  ASSUME FormOK, NEW t, Form!Arrives(t), formRows' = formRows
  PROVE  FormOK'
  <1> USE DEF FormOK
  <1>1. Form!NoSource.id \notin FormEvents
      BY ClientsAreCoherent DEF Form!NoSource, Form!FormsAndEvents
  <1>2. CASE Form!Opens(t)
    <2>1. FormTypes'
        BY <1>2, FormAsks DEF Form!Opens, FormTypes, Form!defaultState, Form!NoSave
    <2>2. FilledFrom'
        BY <1>1, <1>2 DEF Form!Opens, FilledFrom
    <2> QED
        BY <1>2, <2>1, <2>2, SaveKept DEF Form!Opens, Form!NoSave
  <1>3. CASE Form!Closes
      BY <1>3, FormClosed
  <1>4. CASE Form!Switches(t)
    <2>1. FormTypes'
        BY <1>4, FormAsks DEF Form!Switches, FormTypes
    <2> QED
        BY <1>4, <2>1, SaveKept, FillingKept DEF Form!Switches
  <1> QED
      BY <1>2, <1>3, <1>4 DEF Form!Arrives

LEMMA FormLoadEnds ==
  ASSUME FormOK, NEW l \in formLoads, Form!LoadSettles(l)
  PROVE  FormOK'
  <1> USE DEF FormOK
  <1>1. /\ formRows' = formRows /\ save' = save /\ formLoads' = formLoads \ {l}
        /\ l.id \in FormEvents
      BY DEF Form!LoadSettles, FormTypes
  <1>2. CASE /\ originals' = formRows[l.id] /\ form' = Form!loadedForm(formRows[l.id])
             /\ source' = [id |-> l.id, startsAt |-> formRows[l.id].startsAt,
                           endsAt |-> formRows[l.id].endsAt]
    <2>1. FormTypes'
        BY <1>1, <1>2 DEF FormTypes, Form!loadedForm
    <2>2. FilledFrom'
        BY <1>1, <1>2 DEF FormTypes, FilledFrom, Form!loadedForm, Bounds
    <2> QED
        BY <1>1, <2>1, <2>2, SaveKept
  <1>3. CASE UNCHANGED <<form, originals, source, touched>>
    <2>1. FormTypes'
        BY <1>1, <1>3 DEF FormTypes
    <2> QED
        BY <1>1, <1>3, <2>1, SaveKept, FillingKept
  <1> QED
      BY <1>2, <1>3 DEF Form!LoadSettles, Form!Fills

LEMMA FormEdited ==
  ASSUME FormOK, NEW key, NEW value, Form!Edit(key, value)
  PROVE  FormOK'
  <1> USE DEF FormOK
  <1>1. /\ form' = [form EXCEPT ![key] = value] /\ touched' = touched \cup {key}
        /\ UNCHANGED <<formRows, originals, formLoads, save, source>>
      BY DEF Form!Edit
  <1>2. FormTypes'
      BY <1>1 DEF FormTypes
  <1>3. \A f \in {"startsAt", "endsAt", "timezone"} : f # key => form'[f] = form[f]
      BY <1>1 DEF FormTypes
  <1>4. FilledFrom'
    <2> SUFFICES ASSUME source.id \in FormEvents, NEW b \in Bounds,
                        touched' \cap {b, "timezone"} = {}
                 PROVE  /\ form'[b] = Form!toDateTimeLocal(source[b], originals.timezone)
                        /\ form'.timezone = originals.timezone
        BY <1>1 DEF FilledFrom
    <2>1. b # key /\ "timezone" # key /\ touched \cap {b, "timezone"} = {}
        BY <1>1
    <2>2. form'[b] = form[b] /\ form'.timezone = form.timezone
        BY <1>3, <2>1 DEF Bounds
    <2> QED
        BY <2>1, <2>2 DEF FilledFrom
  <1> QED
      BY <1>1, <1>2, <1>4, SaveKept

(* What is sent: the original instant where nothing was touched, and what  *)
(* the fields read everywhere else.                                        *)
LEMMA FormSubmitted ==
  ASSUME FormOK, Form!Submit
  PROVE  FormOK'
  <1> USE DEF FormOK
  <1>1. /\ save' = [stage |-> "sent", id |-> route, from |-> source, shown |-> form,
                    touched |-> touched, startsAt |-> Form!resolveTime("startsAt"),
                    endsAt |-> Form!resolveTime("endsAt")]
        /\ UNCHANGED <<formRows, form, originals, formLoads, source, touched>>
        /\ Form!validate
      BY DEF Form!Submit, Form!history
  <1>2. \A key \in Bounds : save'[key] = Form!resolveTime(key)
      BY <1>1 DEF Bounds
  <1>3. \A key \in Bounds : Form!resolveTime(key) # Form!Unset
      BY <1>1 DEF Bounds, Form!validate
  <1>4. FormTypes'
      BY <1>1 DEF FormTypes
  <1>5. FilledFrom'
      BY <1>1, FillingKept
  <1>6. SentIsRead'
      BY <1>2, <1>3 DEF SentIsRead
  <1>7. Form!SentIsShown'
    <2>1. \A key \in Bounds :
            Form!toDateTimeLocal(Form!resolveTime(key), form.timezone) = form[key]
        BY <1>3, ResolvedAsShown DEF Form!resolveTime
    <2> QED
        BY <1>1, <1>2, <2>1 DEF Form!SentIsShown, Bounds
  <1>8. Form!UntouchedTimesSurvive'
    <2>1. ASSUME source.id \in FormEvents, NEW key \in Bounds,
                 touched \cap {key, "timezone"} = {}
          PROVE  Form!resolveTime(key) = source[key]
        BY <2>1 DEF FilledFrom, Form!resolveTime, Form!resolveEventTime
    <2>2. \A key \in Bounds : save'.from.id \in FormEvents /\ save'.touched \cap {key, "timezone"} = {}
                                => save'[key] = save'.from[key]
        BY <1>1, <1>2, <2>1
    <2> QED
        BY <2>2 DEF Form!UntouchedTimesSurvive, Bounds
  <1> QED
      BY <1>4, <1>5, <1>6, <1>7, <1>8 DEF Form!TimesAreKept

LEMMA FormServed ==
  ASSUME FormOK, Form!Serve
  PROVE  FormOK'
  <1> USE DEF FormOK
  <1>1. /\ UNCHANGED <<form, originals, formLoads, source, touched>>
        /\ DOMAIN save' = DOMAIN save /\ save'.stage # "sent"
      BY DEF Form!Serve, Form!page, Form!history, FormTypes
  <1>2. \A e \in FormEvents, key \in Bounds : formRows'[e][key] # Form!Unset
    <2>1. CASE formRows' = formRows
        BY <2>1 DEF FormTypes
    <2>2. CASE /\ save.stage = "sent"
               /\ formRows' = [formRows EXCEPT ![save.id] = [startsAt |-> save.startsAt,
                     endsAt |-> save.endsAt, timezone |-> save.shown.timezone]]
      <3> SUFFICES ASSUME NEW e \in FormEvents, NEW key \in Bounds
                   PROVE  formRows'[e][key] # Form!Unset
          OBVIOUS
      <3>1. save.startsAt # Form!Unset /\ save.endsAt # Form!Unset
          BY <2>2 DEF SentIsRead, Bounds
      <3> QED
          BY <2>2, <3>1 DEF FormTypes, Bounds
    <2> QED
        BY <2>1, <2>2 DEF Form!Serve
  <1>3. FormTypes'
      BY <1>1, <1>2 DEF FormTypes
  <1> QED
      BY <1>1, <1>3, SaveKept, FillingKept

LEMMA FormStep ==
  ASSUME FormInv, [Next]_vars
  PROVE  FormInv'
  <1> SUFFICES ASSUME part' = "form"
               PROVE  FormOK'
      BY DEF FormInv
  <1>1. FormOK /\ [Form!Next]_formVars
      BY FormMoves DEF FormInv
  <1>2. ASSUME NEW t, Form!Navigate(t)
        PROVE  FormOK'
    <2>1. CASE Form!Arrives(t)
        BY <1>1, <1>2, <2>1, FormArrives DEF Form!Navigate
    <2>2. CASE UNCHANGED <<form, originals, formLoads, save, source, touched>>
      <3>1. FormTypes'
          BY <1>1, <1>2, <2>2 DEF FormOK, FormTypes, Form!Navigate
      <3> QED
          BY <1>1, <2>2, <3>1, SaveKept, FillingKept DEF FormOK
    <2> QED
        BY <1>2, <2>1, <2>2 DEF Form!Navigate, Form!page, Form!history
  <1>3. CASE Form!Discard
      BY <1>1, <1>3, FormArrives DEF Form!Discard
  <1>4. CASE \E l \in formLoads : Form!LoadSettles(l)
      BY <1>1, <1>4, FormLoadEnds
  <1>5. ASSUME NEW key, NEW value, Form!Edit(key, value)
        PROVE  FormOK'
      BY <1>1, <1>5, FormEdited
  <1>6. CASE Form!Submit
      BY <1>1, <1>6, FormSubmitted
  <1>7. CASE Form!Serve
      BY <1>1, <1>7, FormServed
  <1>8. CASE Form!SavedAndGone
      BY <1>1, <1>8, FormClosed DEF Form!SavedAndGone
  <1>9. CASE \/ Form!KeepEditing \/ Form!SavedWhileDirty \/ Form!SavedAgain \/ Form!SaveFailed
             \/ UNCHANGED formVars
    <2>1. /\ UNCHANGED <<formRows, form, originals, formLoads, source, touched>>
          /\ DOMAIN save' = {"stage", "id", "from", "shown", "touched", "startsAt", "endsAt"}
          /\ save' = save \/ save'.stage # "sent"
        BY <1>1, <1>9 DEF Form!KeepEditing, Form!SavedWhileDirty, Form!SavedAgain, Form!SaveFailed,
           Form!page, Form!counts, Form!history, formVars, FormOK, FormTypes, Form!NoSave
    <2>2. FormTypes'
        BY <1>1, <2>1 DEF FormOK, FormTypes
    <2> QED
        BY <1>1, <2>1, <2>2, SaveKept, FillingKept DEF FormOK
  <1> QED
      BY <1>1, <1>2, <1>3, <1>4, <1>5, <1>6, <1>7, <1>8, <1>9 DEF Form!Next

(* "Preserve seconds and the exact instant on unchanged edits, including   *)
(* DST overlaps" (event-time.ts): whatever the form loaded, showed and     *)
(* saved before, a save moves no bound the organiser left alone, and what  *)
(* it sends reads, in the zone on display, as it was displayed.            *)
THEOREM TimesSurviveEditing == Spec => []TimesAreKept
  <1>1. FormInv => TimesAreKept
      BY DEF FormInv, FormOK, TimesAreKept
  <1> QED
      BY FormInit, FormStep, <1>1, PTL DEF Spec

-----------------------------------------------------------------------------
(* The event page.                                                         *)

(* A step of the event page. *)
LEMMA PageMoves ==
  ASSUME [Next]_vars, part' = "page"
  PROVE  part = "page" /\ [Page!Next]_pageVars
  BY DEF Next, vars, pageVars

RequestFields == {"kind", "ev", "signedIn", "outcome", "done", "aborted", "code", "shows"}

PageTypes ==
  /\ sent \in 1..PageRequests /\ guarded \in 1..sent /\ pageId \in PageIds
  /\ DOMAIN request = Page!Numbers
  /\ changed \in [PageIds -> Nat] /\ settled \in [PageIds -> Nat]
  /\ \A e \in PageIds : settled[e] <= changed[e]
  /\ \A n \in Page!Numbers :
       DOMAIN request[n] = RequestFields /\ request[n].ev \in PageIds
  /\ DOMAIN handler = {"does", "ev", "awaits"}
  /\ handler # Page!Idle => handler.awaits \in 1..sent /\ handler.ev \in PageIds

(* A load whose answer the page would still show. *)
Live(n) ==
  /\ n <= sent /\ request[n].kind = "load" /\ ~request[n].aborted
  /\ request[n].outcome \notin {"told", "untold"}

(* An answered load carries the event it asked for. *)
Carries ==
  \A n \in Page!Numbers : n <= sent /\ request[n].kind = "load" =>
    /\ request[n].outcome = "answered" => request[n].done
    /\ request[n].done => /\ request[n].shows.ev = request[n].ev
                          /\ request[n].shows.asOf \in Nat

(* Unless loads got in each other's way, the page waits for one load at    *)
(* most, of the event on the page, which will tell of every join that has  *)
(* ended; and the effect's load has landed before an event is shown.       *)
Guarded ==
  ~stray =>
    /\ \A n \in Page!Numbers : Live(n) =>
         /\ request[n].ev = pageId
         /\ request[n].done => request[n].shows.asOf >= settled[request[n].ev]
         /\ \A m \in Page!Numbers : Live(m) => m = n
    /\ handler # Page!Idle => handler.ev = pageId
    /\ pageEvent # Nothing => ~Live(guarded)

(* The page is busy while its handler runs. *)
Busy ==
  handler # Page!Idle => pageBusy = TRUE

(* Try again is loading what is on display. *)
Retrying == \E n \in Page!Numbers : Live(n) /\ n # guarded

(* What is on display was read after the last join that has ended, unless  *)
(* the handler, or Try again, is reading it again.                         *)
ReadBack ==
  /\ Page!Usable /\ ~stray
  /\ handler = Page!Idle \/ request[handler.awaits].kind # "load"
  => pageEvent.asOf >= settled[pageId] \/ Retrying

PageOK == PageTypes /\ Carries /\ Guarded /\ Busy /\ ReadBack /\ Page!SlowLoadIgnored
PageInv == part = "page" => PageOK

LEMMA PageInit == Init => PageInv
  <1> SUFFICES ASSUME Init, part = "page"
               PROVE  PageOK
      BY DEF PageInv
  <1>1. Page!Init
      BY DEF Init
  <1>2. PageRequests \in Nat \ {0}
      BY ClientsAreCoherent DEF Page!PageParameters
  <1>3. /\ sent = 1 /\ guarded = 1 /\ pageId \in PageIds /\ handler = Page!Idle
        /\ pageEvent = Nothing /\ changed = [e \in PageIds |-> 0] /\ settled = changed
        /\ request = [n \in Page!Numbers |-> Page!Ask("load", pageId, auth # "out")]
      BY <1>1 DEF Page!Init
  <1>4. \A n \in Page!Numbers :
          /\ DOMAIN request[n] = RequestFields /\ request[n].ev = pageId
          /\ request[n].done = FALSE /\ request[n].outcome = "none"
      BY <1>3 DEF Page!Ask, RequestFields
  <1>5. handler.awaits = 0 /\ DOMAIN handler = {"does", "ev", "awaits"}
      BY <1>3 DEF Page!Idle
  <1>6. PageTypes
      BY <1>2, <1>3, <1>4, <1>5 DEF PageTypes, Page!Numbers
  <1>7. Carries
      BY <1>4 DEF Carries
  <1>8. \A n \in Page!Numbers : n <= sent => n = guarded
      BY <1>2, <1>3 DEF Page!Numbers
  <1>9. Guarded
      BY <1>3, <1>4, <1>8 DEF Guarded, Live
  <1> QED
      BY <1>3, <1>6, <1>7, <1>9 DEF PageOK, Busy, ReadBack, Page!Usable, Page!SlowLoadIgnored

(* Numbers of requests. *)
LEMMA PageNumbers ==
  ASSUME PageTypes
  PROVE  /\ \A n \in Page!Numbers : n \in Nat /\ n # 0
         /\ \A n \in 1..sent : n \in Page!Numbers
         /\ sent < PageRequests => sent + 1 \in Page!Numbers
         /\ sent \in Nat /\ PageRequests \in Nat
  BY ClientsAreCoherent DEF PageTypes, Page!Numbers, Page!PageParameters

(* The loads under way, and those of them that nobody aborts. *)
LEMMA LoadsUnderWay ==
  ASSUME PageTypes
  PROVE  /\ Page!Loading = {} => \A n \in Page!Numbers : ~Live(n)
         /\ Page!Unguarded = {} => \A n \in Page!Numbers : ~Live(n) \/ n = guarded
         /\ Retrying => Page!Unguarded # {}
  <1>1. \A n \in Page!Numbers : Live(n) => n \in Page!Loading
      BY PageNumbers DEF Live, Page!Loading
  <1>2. \A n \in Page!Numbers : Live(n) /\ n # guarded => n \in Page!Unguarded
      BY <1>1 DEF Page!Unguarded
  <1> QED
      BY <1>1, <1>2 DEF Retrying

(* Nothing but what a request says of its answer changes. *)
SameRequest(n) ==
  /\ DOMAIN request'[n] = RequestFields
  /\ request'[n].kind = request[n].kind /\ request'[n].ev = request[n].ev

LEMMA PageSends ==
  ASSUME PageTypes, Carries, NEW kind, NEW e \in PageIds, NEW gone, Page!Send(kind, e, gone)
  PROVE  /\ sent' = sent + 1 /\ sent' \in 1..PageRequests /\ sent + 1 \in Page!Numbers
         /\ DOMAIN request' = Page!Numbers
         /\ \A n \in Page!Numbers : n # sent + 1 =>
              /\ SameRequest(n) /\ request'[n].outcome = request[n].outcome
              /\ request'[n].done = request[n].done /\ request'[n].shows = request[n].shows
              /\ n \in gone => request'[n].aborted = TRUE
              /\ n \notin gone => request'[n].aborted = request[n].aborted
         /\ DOMAIN request'[sent + 1] = RequestFields
         /\ request'[sent + 1].kind = kind /\ request'[sent + 1].ev = e
         /\ request'[sent + 1].done = FALSE /\ request'[sent + 1].outcome = "none"
         /\ request'[sent + 1].aborted = FALSE
         /\ Carries'
  <1>1. /\ sent' = sent + 1 /\ sent' \in 1..PageRequests /\ sent + 1 \in Page!Numbers
      BY PageNumbers DEF Page!Send
  <1>0. PICK signed : signed = Page!TokenIsSent'
      OBVIOUS
  <1>2. request' = [n \in Page!Numbers |->
          IF n = sent + 1 THEN Page!Ask(kind, e, signed)
          ELSE IF n \in gone THEN [request[n] EXCEPT !.aborted = TRUE] ELSE request[n]]
      BY <1>0 DEF Page!Send
  <1>3. DOMAIN request' = Page!Numbers
      BY <1>2
  <1>4. ASSUME NEW n \in Page!Numbers, n # sent + 1
        PROVE  /\ SameRequest(n) /\ request'[n].outcome = request[n].outcome
               /\ request'[n].done = request[n].done /\ request'[n].shows = request[n].shows
               /\ n \in gone => request'[n].aborted = TRUE
               /\ n \notin gone => request'[n].aborted = request[n].aborted
    <2>1. DOMAIN request[n] = RequestFields
        BY DEF PageTypes
    <2>2. CASE n \in gone
      <3>1. request'[n] = [request[n] EXCEPT !.aborted = TRUE]
          BY <1>2, <1>4, <2>2
      <3> QED
          BY <2>1, <2>2, <3>1 DEF SameRequest, RequestFields
    <2>3. CASE n \notin gone
      <3>1. request'[n] = request[n]
          BY <1>2, <1>4, <2>3
      <3> QED
          BY <2>1, <2>3, <3>1 DEF SameRequest
    <2> QED
        BY <2>2, <2>3
  <1>5. request'[sent + 1] = Page!Ask(kind, e, signed)
      BY <1>1, <1>2
  <1>6. /\ DOMAIN request'[sent + 1] = RequestFields
        /\ request'[sent + 1].kind = kind /\ request'[sent + 1].ev = e
        /\ request'[sent + 1].done = FALSE /\ request'[sent + 1].outcome = "none"
        /\ request'[sent + 1].aborted = FALSE
    <2>1. PICK new : new = Page!Ask(kind, e, signed)
        OBVIOUS
    <2>2. /\ DOMAIN new = RequestFields /\ new.kind = kind /\ new.ev = e
          /\ new.done = FALSE /\ new.outcome = "none" /\ new.aborted = FALSE
        BY <2>1 DEF Page!Ask, RequestFields
    <2>3. request'[sent + 1] = new
        BY <1>5, <2>1
    <2> QED
        BY <2>2, <2>3
  <1>7. Carries'
    <2> SUFFICES ASSUME NEW n \in Page!Numbers, n <= sent + 1, request'[n].kind = "load"
                 PROVE  /\ request'[n].outcome = "answered" => request'[n].done
                        /\ request'[n].done => /\ request'[n].shows.ev = request'[n].ev
                                               /\ request'[n].shows.asOf \in Nat
        BY <1>1 DEF Carries
    <2>1. CASE n = sent + 1
        BY <1>6, <2>1
    <2>2. CASE n # sent + 1
      <3>1. n <= sent
          BY <2>2, PageNumbers
      <3> QED
          BY <1>4, <2>2, <3>1 DEF Carries, SameRequest
    <2> QED
        BY <2>1, <2>2
  <1> QED
      BY <1>1, <1>3, <1>4, <1>6, <1>7

(* The types of a page that has sent a request. *)
LEMMA PageTypesSent ==
  ASSUME PageTypes, Carries, NEW kind, NEW e \in PageIds, NEW gone, Page!Send(kind, e, gone),
         changed' = changed, settled' = settled, guarded' \in 1..(sent + 1), pageId' \in PageIds,
         DOMAIN handler' = {"does", "ev", "awaits"},
         handler' # Page!Idle => handler'.awaits \in 1..(sent + 1) /\ handler'.ev \in PageIds
  PROVE  PageTypes'
  <1>1. \A n \in Page!Numbers :
          DOMAIN request'[n] = RequestFields /\ request'[n].ev \in PageIds
    <2> TAKE n \in Page!Numbers
    <2>1. CASE n = sent + 1
        BY <2>1, PageSends
    <2>2. CASE n # sent + 1
      <3>1. SameRequest(n)
          BY <2>2, PageSends
      <3> QED
          BY <3>1 DEF PageTypes, SameRequest
    <2> QED
        BY <2>1, <2>2
  <1> QED
      BY <1>1, PageSends DEF PageTypes

(* The effect: whatever was on its way is aborted, unless it is stray. *)
LEMMA PageEffect ==
  ASSUME PageOK, NEW e \in PageIds, Page!EffectRuns(e), pageId' = e,
         UNCHANGED <<changed, settled, handler>>
  PROVE  PageOK'
  <1> USE DEF PageOK
  <1>1. /\ pageEvent' = Nothing /\ Page!Send("load", e, {guarded}) /\ guarded' = sent + 1
        /\ pageBusy' = pageBusy /\ (~stray' => handler = Page!Idle /\ Page!Unguarded = {})
      BY DEF Page!EffectRuns, Page!AbortedByCleanup
  <1>a. PICK kind : kind = "load"
      OBVIOUS
  <1>b. Page!Send(kind, e, {guarded})
      BY <1>1, <1>a
  <1>c. /\ sent' = sent + 1
        /\ \A n \in Page!Numbers : n # sent + 1 =>
             /\ SameRequest(n) /\ request'[n].outcome = request[n].outcome
             /\ n \in {guarded} => request'[n].aborted = TRUE
             /\ n \notin {guarded} => request'[n].aborted = request[n].aborted
        /\ request'[sent + 1].ev = e /\ request'[sent + 1].done = FALSE
        /\ Carries'
      BY <1>b, PageSends
  <1>2. PageTypes'
    <2>1. handler' # Page!Idle => handler'.awaits \in 1..(sent + 1) /\ handler'.ev \in PageIds
        BY PageNumbers DEF PageTypes
    <2>2. guarded' \in 1..(sent + 1)
        BY <1>1, PageNumbers
    <2>3. DOMAIN handler' = {"does", "ev", "awaits"}
        BY DEF PageTypes
    <2> QED
        BY <1>1, <1>b, <2>1, <2>2, <2>3, PageTypesSent
  <1>3. Carries'
      BY <1>c
  <1>4. Guarded'
    <2> SUFFICES ASSUME ~stray'
                 PROVE  Guarded'
        BY DEF Guarded
    <2>1. handler' = Page!Idle /\ Page!Unguarded = {}
        BY <1>1
    <2>2. ASSUME NEW n \in Page!Numbers, Live(n)'
          PROVE  n = sent + 1
      <3> SUFFICES ASSUME n # sent + 1
                   PROVE  FALSE
          OBVIOUS
      <3>0. n <= sent' /\ sent' = sent + 1 /\ n \in Nat /\ n # 0 /\ sent \in Nat
          BY <1>c, <2>2, PageNumbers DEF Live
      <3>1. /\ n <= sent /\ n \in Nat /\ n # 0
            /\ request'[n].kind = request[n].kind /\ request'[n].outcome = request[n].outcome
            /\ (n = guarded => request'[n].aborted = TRUE)
            /\ (n # guarded => request'[n].aborted = request[n].aborted)
          BY <1>c, <3>0 DEF SameRequest
      <3>2. n # guarded /\ Live(n)
          BY <2>2, <3>1 DEF Live
      <3> QED
          BY <2>1, <3>2, LoadsUnderWay
    <2>3. request'[sent + 1].ev = e /\ request'[sent + 1].done = FALSE
        BY <1>c
    <2> QED
        BY <1>1, <2>1, <2>2, <2>3 DEF Guarded
  <1> QED
      BY <1>1, <1>2, <1>3, <1>4 DEF Busy, ReadBack, Page!Usable, Page!SlowLoadIgnored

(* Nothing the invariant speaks of changes. *)
LEMMA PageKept ==
  ASSUME PageOK,
         UNCHANGED <<changed, settled, request, sent, guarded, pageId, handler, pageBusy,
                     pageEvent, pageError, stray>>
  PROVE  PageOK'
  <1>1. PageTypes' /\ Carries'
      BY DEF PageOK, PageTypes, Carries
  <1>2. Guarded' /\ Busy' /\ ReadBack'
      BY DEF PageOK, Guarded, Live, Busy, ReadBack, Retrying, Page!Usable
  <1> QED
      BY <1>1, <1>2 DEF PageOK, Page!SlowLoadIgnored

(* Try again: nobody will abort that load, which is the only one.  It will *)
(* tell of every join that has ended, and until then the page is retrying. *)
LEMMA PageRetries ==
  ASSUME PageOK, Page!TryAgain
  PROVE  PageOK'
  <1> USE DEF PageOK
  <1>1. PICK kind : kind = "load"
      OBVIOUS
  <1>2. PICK gone : gone = {}
      OBVIOUS
  <1>3. /\ Page!Send(kind, pageId, gone) /\ pageId \in PageIds
        /\ UNCHANGED <<changed, settled, guarded, pageId, handler, pageBusy, pageEvent>>
        /\ ~stray' => ~stray /\ Page!Loading = {}
      BY <1>1, <1>2 DEF Page!TryAgain, Page!server, PageTypes
  <1>4. /\ sent' = sent + 1 /\ sent + 1 \in Page!Numbers /\ Carries'
        /\ \A n \in Page!Numbers : n # sent + 1 =>
             /\ SameRequest(n) /\ request'[n].outcome = request[n].outcome
             /\ n \notin gone => request'[n].aborted = request[n].aborted
        /\ request'[sent + 1].kind = kind /\ request'[sent + 1].ev = pageId
        /\ request'[sent + 1].done = FALSE /\ request'[sent + 1].outcome = "none"
        /\ request'[sent + 1].aborted = FALSE
      BY <1>3, PageSends
  <1>5. PageTypes'
    <2>1. guarded' \in 1..(sent + 1) /\ pageId' \in PageIds
          /\ (handler' # Page!Idle => handler'.awaits \in 1..(sent + 1) /\ handler'.ev \in PageIds)
          /\ DOMAIN handler' = {"does", "ev", "awaits"}
        BY <1>3, PageNumbers DEF PageTypes
    <2> QED
        BY <1>3, <2>1, PageTypesSent
  <1>6. ASSUME ~stray', NEW n \in Page!Numbers, Live(n)'
        PROVE  n = sent + 1
    <2> SUFFICES ASSUME n # sent + 1
                 PROVE  FALSE
        OBVIOUS
    <2>1. n <= sent
        BY <1>4, <1>6, PageNumbers DEF Live
    <2>2. Live(n)
        BY <1>2, <1>4, <1>6, <2>1 DEF Live, SameRequest
    <2> QED
        BY <1>3, <1>6, <2>2, LoadsUnderWay
  <1>7. guarded \in Page!Numbers /\ guarded # sent + 1
      BY PageNumbers DEF PageTypes
  <1>8. Guarded'
      BY <1>3, <1>4, <1>6, <1>7 DEF Guarded
  <1>9. ASSUME ~stray' PROVE ReadBack'
    <2>1. PICK new \in Page!Numbers : new = sent + 1
        BY <1>4
    <2>2. Live(new)'
        BY <1>1, <1>4, <2>1, PageNumbers DEF Live
    <2>3. Retrying'
        BY <1>3, <1>7, <2>1, <2>2 DEF Retrying
    <2> QED
        BY <2>3 DEF ReadBack
  <1> QED
      BY <1>3, <1>4, <1>5, <1>8, <1>9 DEF Busy, ReadBack, Page!SlowLoadIgnored

(* A join or a cancellation is sent; the page's own load has landed. *)
LEMMA PageSubmits ==
  ASSUME PageOK, NEW kind \in {"join", "leave"}, Page!Usable, ~pageBusy, Page!Submits(kind),
         UNCHANGED <<changed, settled, pageId, pageEvent, pageError, guarded, stray>>
  PROVE  PageOK'
  <1> USE DEF PageOK
  <1>1. /\ pageBusy' = TRUE /\ Page!Send(kind, pageId, {}) /\ pageId \in PageIds
        /\ handler' = [does |-> kind, ev |-> pageId, awaits |-> sent + 1]
      BY DEF Page!Submits, PageTypes
  <1>2. handler = Page!Idle
      BY DEF Busy
  <1>3. /\ sent' = sent + 1 /\ sent + 1 \in Page!Numbers /\ Carries'
        /\ \A n \in Page!Numbers : n # sent + 1 =>
             /\ SameRequest(n) /\ request'[n].outcome = request[n].outcome
             /\ request'[n].aborted = request[n].aborted
             /\ request'[n].done = request[n].done /\ request'[n].shows = request[n].shows
        /\ request'[sent + 1].kind = kind
    <2>1. PICK gone : gone = {}
        OBVIOUS
    <2>2. Page!Send(kind, pageId, gone)
        BY <1>1, <2>1
    <2>3. /\ sent' = sent + 1 /\ sent + 1 \in Page!Numbers /\ Carries'
          /\ \A n \in Page!Numbers : n # sent + 1 =>
               /\ SameRequest(n) /\ request'[n].outcome = request[n].outcome
               /\ request'[n].done = request[n].done /\ request'[n].shows = request[n].shows
               /\ n \notin gone => request'[n].aborted = request[n].aborted
          /\ request'[sent + 1].kind = kind
        BY <1>1, <2>2, PageSends
    <2> QED
        BY <2>1, <2>3
  <1>4. PageTypes'
    <2>1. guarded' \in 1..(sent + 1) /\ pageId' \in PageIds /\ sent + 1 \in 1..(sent + 1)
          /\ DOMAIN handler' = {"does", "ev", "awaits"}
          /\ handler'.awaits = sent + 1 /\ handler'.ev = pageId
        BY <1>1, PageNumbers DEF PageTypes
    <2> QED
        BY <1>1, <2>1, PageTypesSent
  <1>5. ASSUME NEW n \in Page!Numbers
        PROVE  (Live(n)' <=> Live(n)) /\ (Live(n) => n # sent + 1)
    <2>1. CASE n = sent + 1
        BY <1>3, <2>1, PageNumbers DEF Live
    <2>2. CASE n # sent + 1
      <3>1. n <= sent <=> n <= sent + 1
          BY <2>2, PageNumbers
      <3> QED
          BY <1>3, <2>2, <3>1 DEF Live, SameRequest
    <2> QED
        BY <2>1, <2>2
  <1>6. guarded \in Page!Numbers
      BY PageNumbers DEF PageTypes
  <1>7. Guarded'
    <2> SUFFICES ASSUME ~stray
                 PROVE  Guarded'
        BY DEF Guarded
    <2>1. ~Live(guarded)'
        BY <1>5, <1>6 DEF Guarded, Page!Usable
    <2>2. ASSUME NEW n \in Page!Numbers, Live(n)'
          PROVE  /\ request'[n].ev = pageId
                 /\ request'[n].done => request'[n].shows.asOf >= settled[request'[n].ev]
                 /\ \A m \in Page!Numbers : Live(m)' => m = n
      <3>1. Live(n) /\ n # sent + 1
          BY <1>5, <2>2
      <3> QED
          BY <1>3, <1>5, <3>1 DEF Guarded, SameRequest
    <2> QED
        BY <1>1, <2>1, <2>2 DEF Guarded
  <1>8. Busy' /\ Page!SlowLoadIgnored'
      BY <1>1 DEF Busy, Page!SlowLoadIgnored
  <1>9. ReadBack'
      BY <1>2, <1>5 DEF ReadBack, Retrying, Page!Usable
  <1> QED
      BY <1>3, <1>4, <1>7, <1>8, <1>9

(* One request's record of its answer changes, and nothing else.           *)
OneRequest(n) ==
  /\ DOMAIN request' = Page!Numbers
  /\ \A m \in Page!Numbers : SameRequest(m) /\ (m # n => request'[m] = request[m])
  /\ request'[n].aborted = request[n].aborted

(* The API carries out a request. *)
LEMMA PageServed ==
  ASSUME PageOK, NEW n \in Page!Numbers, Page!Serve(n)
  PROVE  PageOK'
  <1> USE DEF PageOK
  <1>1. /\ UNCHANGED <<sent, pageId, handler, guarded, settled, stray, pageEvent, pageError, pageBusy>>
        /\ n <= sent
      BY DEF Page!Serve, Page!screen
  <1>2. \/ /\ request[n].kind = "load" /\ changed' = changed
           /\ request' = [request EXCEPT ![n].done = TRUE, ![n].code = "OK", ![n].shows =
                [ev |-> request[n].ev, asOf |-> changed[request[n].ev],
                 seat |-> IF request[n].signedIn THEN seat[request[n].ev] ELSE "out"]]
        \/ /\ request[n].kind # "load"
           /\ \/ changed' = [changed EXCEPT ![request[n].ev] = @ + 1] \/ changed' = changed
           /\ \E code : request' = [request EXCEPT ![n].done = TRUE, ![n].code = code]
      BY DEF Page!Serve, Page!Seats, Page!Rejects, Page!server
  <1>3. /\ DOMAIN request = Page!Numbers /\ DOMAIN request[n] = RequestFields
        /\ request[n].ev \in PageIds
      BY DEF PageTypes
  <1>4. OneRequest(n) /\ request'[n].outcome = request[n].outcome /\ request'[n].done = TRUE
      BY <1>2, <1>3 DEF OneRequest, SameRequest, RequestFields, PageTypes
  <1>5. request[n].kind = "load" =>
          /\ request'[n].shows.ev = request[n].ev
          /\ request'[n].shows.asOf = changed[request[n].ev]
      BY <1>2, <1>3 DEF RequestFields
  <1>6. changed' \in [PageIds -> Nat] /\ \A e \in PageIds : settled[e] <= changed'[e]
      BY <1>2, <1>3 DEF PageTypes
  <1>7. PageTypes'
      BY <1>1, <1>4, <1>6 DEF PageTypes, OneRequest, SameRequest
  <1>8. Carries'
    <2> SUFFICES ASSUME NEW m \in Page!Numbers, m <= sent, request'[m].kind = "load"
                 PROVE  /\ request'[m].outcome = "answered" => request'[m].done
                        /\ request'[m].done => /\ request'[m].shows.ev = request'[m].ev
                                               /\ request'[m].shows.asOf \in Nat
        BY <1>1 DEF Carries
    <2>1. CASE m = n
        BY <1>3, <1>4, <1>5, <2>1 DEF OneRequest, SameRequest, PageTypes
    <2>2. CASE m # n
        BY <1>4, <2>2 DEF OneRequest, Carries
    <2> QED
        BY <2>1, <2>2
  <1>9. \A m \in Page!Numbers : Live(m)' <=> Live(m)
      BY <1>1, <1>4 DEF Live, OneRequest, SameRequest
  <1>10. Guarded'
    <2> SUFFICES ASSUME ~stray
                 PROVE  Guarded'
        BY <1>1 DEF Guarded
    <2>1. ASSUME NEW m \in Page!Numbers, Live(m)
          PROVE  /\ request'[m].ev = pageId
                 /\ request'[m].done => request'[m].shows.asOf >= settled[request'[m].ev]
      <3>1. CASE m = n
          BY <1>3, <1>4, <1>5, <2>1, <3>1 DEF Guarded, Live, OneRequest, SameRequest, PageTypes
      <3>2. CASE m # n
          BY <1>4, <2>1, <3>2 DEF Guarded, OneRequest
      <3> QED
          BY <3>1, <3>2
    <2>2. guarded \in Page!Numbers
        BY PageNumbers DEF PageTypes
    <2>3. pageEvent # Nothing => ~Live(guarded)'
        BY <1>1, <1>9, <2>2 DEF Guarded
    <2> QED
        BY <1>1, <1>9, <2>1, <2>3 DEF Guarded
  <1>11. ReadBack'
    <2>1. handler # Page!Idle => request'[handler.awaits].kind = request[handler.awaits].kind
        BY <1>4, PageNumbers DEF PageTypes, OneRequest, SameRequest
    <2> QED
        BY <1>1, <1>9, <2>1 DEF ReadBack, Retrying, Page!Usable
  <1> QED
      BY <1>1, <1>7, <1>8, <1>10, <1>11 DEF Busy, Page!SlowLoadIgnored

(* Somebody else's cancellation. *)
LEMMA PagePromoted ==
  ASSUME PageOK, NEW e \in PageIds, Page!Promoted(e)
  PROVE  PageOK'
  <1> USE DEF PageOK
  <1>1. /\ UNCHANGED <<request, sent, pageId, handler, guarded, settled, stray, pageEvent,
                       pageError, pageBusy>>
        /\ changed' = [changed EXCEPT ![e] = @ + 1]
      BY DEF Page!Promoted, Page!screen
  <1>2. changed' \in [PageIds -> Nat] /\ \A x \in PageIds : settled[x] <= changed'[x]
      BY <1>1 DEF PageTypes
  <1>3. PageTypes' /\ Carries'
      BY <1>1, <1>2 DEF PageTypes, Carries
  <1>4. Guarded' /\ Busy' /\ ReadBack'
      BY <1>1 DEF Guarded, Live, Busy, ReadBack, Retrying, Page!Usable
  <1> QED
      BY <1>1, <1>3, <1>4 DEF Page!SlowLoadIgnored

(* An answer travels, or is lost. *)
LEMMA PageTravels ==
  ASSUME PageOK, NEW n \in Page!Numbers, Page!Travels(n)
  PROVE  PageOK'
  <1> USE DEF PageOK
  <1>1. /\ UNCHANGED <<sent, pageId, handler, guarded, settled, stray, pageEvent, pageError,
                       pageBusy, changed>>
        /\ request[n].outcome = "none" /\ ~request[n].aborted
      BY DEF Page!Travels, Page!Waiting, Page!screen, Page!server
  <1>2. PICK o \in {"answered", "unreachable", "broken"} :
          /\ request' = [request EXCEPT ![n].outcome = o]
          /\ o = "answered" => request[n].done
      BY DEF Page!Travels
  <1>3. DOMAIN request = Page!Numbers /\ DOMAIN request[n] = RequestFields
      BY DEF PageTypes
  <1>4. /\ OneRequest(n) /\ request'[n].outcome = o
        /\ \A m \in Page!Numbers : request'[m].done = request[m].done
                                   /\ request'[m].shows = request[m].shows
      BY <1>2, <1>3 DEF OneRequest, SameRequest, RequestFields, PageTypes
  <1>5. PageTypes'
      BY <1>1, <1>4 DEF PageTypes, OneRequest, SameRequest
  <1>6. Carries'
      BY <1>1, <1>2, <1>4 DEF Carries, OneRequest, SameRequest
  <1>7. \A m \in Page!Numbers : Live(m)' <=> Live(m)
      BY <1>1, <1>2, <1>4 DEF Live, OneRequest, SameRequest
  <1>8. guarded \in Page!Numbers
      BY PageNumbers DEF PageTypes
  <1>9. Guarded'
      BY <1>1, <1>4, <1>7, <1>8 DEF Guarded, OneRequest, SameRequest
  <1>10. ReadBack'
    <2>1. handler # Page!Idle => request'[handler.awaits].kind = request[handler.awaits].kind
        BY <1>4, PageNumbers DEF PageTypes, OneRequest, SameRequest
    <2> QED
        BY <1>1, <1>7, <2>1 DEF ReadBack, Retrying, Page!Usable
  <1> QED
      BY <1>1, <1>5, <1>6, <1>9, <1>10 DEF Busy, Page!SlowLoadIgnored

(* A request that has landed is told or untold, and its load is not live.  *)
LEMMA PageLanding ==
  ASSUME PageTypes, Carries, NEW n \in Page!Numbers, Page!Lands(n), sent' = sent
  PROVE  /\ OneRequest(n) /\ Carries'
         /\ \A m \in Page!Numbers : request'[m].done = request[m].done
                                    /\ request'[m].shows = request[m].shows
         /\ \A m \in Page!Numbers : Live(m)' <=> Live(m) /\ m # n
  <1>1. PICK o : o = Page!Landed(n)
      OBVIOUS
  <1>2. o \in {"told", "untold"} /\ request' = [request EXCEPT ![n].outcome = o]
      BY <1>1 DEF Page!Landed, Page!Lands
  <1>3. DOMAIN request = Page!Numbers /\ DOMAIN request[n] = RequestFields
      BY DEF PageTypes
  <1>4. /\ OneRequest(n) /\ request'[n].outcome = o
        /\ \A m \in Page!Numbers : request'[m].done = request[m].done
                                   /\ request'[m].shows = request[m].shows
      BY <1>2, <1>3 DEF OneRequest, SameRequest, RequestFields, PageTypes
  <1>5. Carries'
      BY <1>2, <1>4 DEF Carries, OneRequest, SameRequest
  <1>6. \A m \in Page!Numbers : Live(m)' <=> Live(m) /\ m # n
      BY <1>2, <1>4 DEF Live, OneRequest, SameRequest
  <1> QED
      BY <1>4, <1>5, <1>6

(* What a live load puts on the screen. *)
LEMMA PageShows ==
  ASSUME PageOK, ~stray, NEW n \in Page!Numbers, Live(n), Page!Shows(n)
  PROVE  \/ /\ pageEvent' = request[n].shows /\ pageError' = pageError
            /\ pageEvent'.ev = pageId /\ pageEvent'.asOf >= settled[pageId]
         \/ pageError' = TRUE /\ pageEvent' = pageEvent
  BY DEF PageOK, Page!Shows, Guarded, Live, Carries

(* The load of the effect lands, or one that nobody guards. *)
LEMMA PageLoadLands ==
  ASSUME PageOK, NEW n \in Page!Numbers, Page!LoadLands(n)
  PROVE  PageOK'
  <1> USE DEF PageOK
  <1>1. /\ UNCHANGED <<sent, pageId, handler, guarded, settled, stray, pageBusy, changed>>
        /\ Page!Lands(n) /\ Page!Shows(n) /\ Live(n) /\ n # handler.awaits
      BY DEF Page!LoadLands, Page!Unlanded, Page!server, Live
  <1>2. /\ OneRequest(n) /\ Carries'
        /\ \A m \in Page!Numbers : request'[m].done = request[m].done
                                   /\ request'[m].shows = request[m].shows
        /\ \A m \in Page!Numbers : Live(m)' <=> Live(m) /\ m # n
      BY <1>1, PageLanding
  <1>3. PageTypes'
      BY <1>1, <1>2 DEF PageTypes, OneRequest, SameRequest
  <1>4. ~stray => \A m \in Page!Numbers : ~Live(m)'
      BY <1>1, <1>2 DEF Guarded
  <1>5. Guarded'
    <2> SUFFICES ASSUME ~stray
                 PROVE  Guarded'
        BY <1>1 DEF Guarded
    <2>1. guarded' \in Page!Numbers
        BY <1>1, PageNumbers DEF PageTypes
    <2> QED
        BY <1>1, <1>4, <2>1 DEF Guarded
  <1>6. ~stray => Page!SlowLoadIgnored'
      BY <1>1, PageShows DEF Page!SlowLoadIgnored
  <1>7. ReadBack'
    <2>1. handler # Page!Idle => request'[handler.awaits].kind = request[handler.awaits].kind
        BY <1>2, PageNumbers DEF PageTypes, OneRequest, SameRequest
    <2>2. ~stray => \/ pageEvent'.asOf >= settled[pageId]
                    \/ pageError' = TRUE /\ pageEvent' = pageEvent
        BY <1>1, PageShows
    <2> QED
        BY <1>1, <2>1, <2>2 DEF ReadBack, Page!Usable
  <1> QED
      BY <1>1, <1>2, <1>3, <1>5, <1>6, <1>7 DEF Busy, Page!SlowLoadIgnored

(* The answer of a join or of a cancellation: the page is read again, or   *)
(* the handler ends.                                                       *)
LEMMA PageMutationLands ==
  ASSUME PageOK, NEW n \in Page!Numbers, Page!MutationLands(n)
  PROVE  PageOK'
  <1> USE DEF PageOK
  <1>1. /\ UNCHANGED <<pageId, guarded, changed, pageEvent>>
        /\ ~stray' => ~stray
        /\ request[n].kind # "load" /\ n = handler.awaits /\ Page!Ended(n)
      BY DEF Page!MutationLands, Page!server
  <1>2. handler # Page!Idle /\ request[n].ev \in PageIds
      BY <1>1, PageNumbers DEF Page!Idle, PageTypes
  <1>3. /\ settled' \in [PageIds -> Nat] /\ \A e \in PageIds : settled'[e] <= changed[e]
        /\ request[n].kind # "join" => settled' = settled
      BY <1>1, <1>2 DEF Page!Ended, PageTypes
  <1>4. CASE Page!Reloads(n)
    <2>1. PICK o : o = Page!Landed(n)
        OBVIOUS
    <2>2. PICK new : new = Page!Ask("load", handler.ev, Page!TokenIsSent)
        OBVIOUS
    <2>3. /\ sent < PageRequests /\ sent' = sent + 1 /\ pageError' = FALSE /\ pageBusy' = pageBusy
          /\ request' = [request EXCEPT ![n].outcome = o, ![sent + 1] = new]
          /\ handler' = [handler EXCEPT !.awaits = sent + 1]
          /\ ~stray' => Page!Loading = {}
        BY <1>4, <2>1, <2>2 DEF Page!MutationLands
    <2>4. o \in {"told", "untold"}
        BY <2>1 DEF Page!Landed
    <2>5. /\ DOMAIN new = RequestFields /\ new.kind = "load" /\ new.ev = handler.ev
          /\ new.done = FALSE /\ new.outcome = "none"
        BY <2>2 DEF Page!Ask, RequestFields
    <2>6. /\ sent + 1 \in Page!Numbers /\ n # sent + 1 /\ sent \in Nat
          /\ sent' \in 1..PageRequests
        BY <1>1, <1>2, <2>3, PageNumbers DEF PageTypes
    <2>7. /\ DOMAIN request' = Page!Numbers /\ request'[sent + 1] = new
          /\ \A m \in Page!Numbers : m # n /\ m # sent + 1 => request'[m] = request[m]
          /\ SameRequest(n) /\ request'[n].outcome = o
        BY <2>3, <2>6 DEF PageTypes, SameRequest, RequestFields
    <2>8. /\ handler'.awaits = sent + 1 /\ handler'.ev = handler.ev
          /\ DOMAIN handler' = {"does", "ev", "awaits"}
        BY <2>3 DEF PageTypes
    <2>9. handler' # Page!Idle
        BY <2>6, <2>8 DEF Page!Idle
    <2>10. handler.ev \in PageIds
        BY <1>2 DEF PageTypes
    <2>11. PageTypes'
      <3>1. \A m \in Page!Numbers : DOMAIN request'[m] = RequestFields /\ request'[m].ev \in PageIds
        <4> TAKE m \in Page!Numbers
        <4>1. CASE m = n
            BY <2>7, <4>1 DEF PageTypes, SameRequest
        <4>2. CASE m = sent + 1
            BY <2>5, <2>7, <2>10, <4>2
        <4>3. CASE m # n /\ m # sent + 1
            BY <2>7, <4>3 DEF PageTypes
        <4> QED
            BY <4>1, <4>2, <4>3
      <3>2. guarded' \in 1..sent' /\ handler'.awaits \in 1..sent'
          BY <1>1, <2>3, <2>6, <2>8 DEF PageTypes
      <3> QED
          BY <1>1, <1>3, <2>6, <2>7, <2>8, <2>10, <3>1, <3>2 DEF PageTypes
    <2>12. Carries'
      <3> SUFFICES ASSUME NEW m \in Page!Numbers, m <= sent + 1, request'[m].kind = "load"
                   PROVE  /\ request'[m].outcome = "answered" => request'[m].done
                          /\ request'[m].done => /\ request'[m].shows.ev = request'[m].ev
                                                 /\ request'[m].shows.asOf \in Nat
          BY <2>3 DEF Carries
      <3>1. CASE m = sent + 1
          BY <2>5, <2>7, <3>1
      <3>2. CASE m # sent + 1
        <4>1. m # n /\ m <= sent
            BY <1>1, <2>6, <2>7, <3>2, PageNumbers DEF SameRequest
        <4> QED
            BY <2>7, <3>2, <4>1 DEF Carries
      <3> QED
          BY <3>1, <3>2
    <2>13. ASSUME ~stray', NEW m \in Page!Numbers, Live(m)'
           PROVE  m = sent + 1
      <3> SUFFICES ASSUME m # sent + 1
                   PROVE  FALSE
          OBVIOUS
      <3>1. m <= sent
          BY <2>3, <2>6, <2>13, PageNumbers DEF Live
      <3>2. m # n
          BY <1>1, <2>7, <2>13 DEF Live, SameRequest
      <3>3. Live(m)
          BY <2>7, <2>13, <3>1, <3>2 DEF Live
      <3> QED
          BY <2>3, <2>13, <3>3, LoadsUnderWay
    <2>14. Guarded'
      <3> SUFFICES ASSUME ~stray'
                   PROVE  Guarded'
          BY DEF Guarded
      <3>1. handler.ev = pageId
          BY <1>1, <1>2 DEF Guarded
      <3>2. guarded' \in Page!Numbers /\ guarded' # sent + 1
          BY <1>1, <2>6, PageNumbers DEF PageTypes
      <3>3. ~Live(guarded)'
          BY <2>13, <3>2 DEF Live
      <3> QED
          BY <1>1, <2>5, <2>7, <2>8, <2>13, <3>1, <3>3 DEF Guarded
    <2>15. Busy'
        BY <1>2, <2>3 DEF Busy
    <2>16. ReadBack'
        BY <2>5, <2>7, <2>8, <2>9 DEF ReadBack
    <2> QED
        BY <1>1, <2>11, <2>12, <2>14, <2>15, <2>16 DEF Page!SlowLoadIgnored
  <1>5. CASE ~Page!Reloads(n)
    <2>1. /\ Page!Lands(n) /\ pageBusy' = FALSE /\ handler' = Page!Idle
          /\ sent' = sent /\ pageError' = pageError /\ stray' = stray
        BY <1>5 DEF Page!MutationLands, Page!Finished
    <2>2. settled' = settled
        BY <1>3, <1>5 DEF Page!Reloads, Page!ReloadsAfterJoin
    <2>3. /\ OneRequest(n) /\ Carries'
          /\ \A m \in Page!Numbers : request'[m].done = request[m].done
                                     /\ request'[m].shows = request[m].shows
          /\ \A m \in Page!Numbers : Live(m)' <=> Live(m) /\ m # n
        BY <2>1, PageLanding
    <2>4. PageTypes'
        BY <1>1, <2>1, <2>2, <2>3 DEF PageTypes, OneRequest, SameRequest, Page!Idle
    <2>5. \A m \in Page!Numbers : Live(m)' <=> Live(m)
        BY <1>1, <2>3 DEF Live
    <2>6. guarded \in Page!Numbers
        BY PageNumbers DEF PageTypes
    <2>7. Guarded'
        BY <1>1, <2>1, <2>2, <2>3, <2>5, <2>6 DEF Guarded, OneRequest, SameRequest
    <2>8. ReadBack'
        BY <1>1, <2>1, <2>2, <2>5 DEF ReadBack, Retrying, Page!Usable
    <2> QED
        BY <1>1, <2>1, <2>3, <2>4, <2>7, <2>8 DEF Busy, Page!SlowLoadIgnored
  <1> QED
      BY <1>4, <1>5

(* The reload lands, and the handler ends. *)
LEMMA PageHandlerEnds ==
  ASSUME PageOK, NEW n \in Page!Numbers, Page!HandlerEnds(n)
  PROVE  PageOK'
  <1> USE DEF PageOK
  <1>1. /\ UNCHANGED <<sent, pageId, guarded, settled, stray, changed>>
        /\ handler' = Page!Idle /\ pageBusy' = FALSE
        /\ Page!Lands(n) /\ Page!Shows(n) /\ Live(n) /\ n = handler.awaits
      BY DEF Page!HandlerEnds, Page!Unlanded, Page!server, Live
  <1>2. /\ OneRequest(n) /\ Carries'
        /\ \A m \in Page!Numbers : Live(m)' <=> Live(m) /\ m # n
      BY <1>1, PageLanding
  <1>3. handler # Page!Idle
      BY <1>1, PageNumbers DEF Page!Idle
  <1>4. PageTypes'
      BY <1>1, <1>2 DEF PageTypes, OneRequest, SameRequest, Page!Idle
  <1>5. ~stray => \A m \in Page!Numbers : ~Live(m)'
      BY <1>1, <1>2, <1>3 DEF Guarded
  <1>6. Guarded'
    <2>1. guarded' \in Page!Numbers
        BY <1>1, PageNumbers DEF PageTypes
    <2> QED
        BY <1>1, <1>5, <2>1 DEF Guarded
  <1>7. ~stray => Page!SlowLoadIgnored'
      BY <1>1, PageShows DEF Page!SlowLoadIgnored
  <1>8. ReadBack'
      BY <1>1, PageShows DEF ReadBack, Page!Usable
  <1> QED
      BY <1>1, <1>2, <1>4, <1>6, <1>7, <1>8 DEF Busy, Page!SlowLoadIgnored

LEMMA PageStep ==
  ASSUME PageInv, [Next]_vars
  PROVE  PageInv'
  <1> SUFFICES ASSUME part' = "page"
               PROVE  PageOK'
      BY DEF PageInv
  <1>1. PageOK /\ [Page!Next]_pageVars
      BY PageMoves DEF PageInv
  <1>2. ASSUME NEW e \in PageIds, Page!Jump(e)
        PROVE  PageOK'
      BY <1>1, <1>2, PageEffect DEF Page!Jump, Page!server
  <1>3. CASE Page!SessionChecked
    <2>1. pageId \in PageIds /\ UNCHANGED <<changed, settled, handler, pageId>>
        BY <1>1, <1>3 DEF Page!SessionChecked, Page!server, PageOK, PageTypes
    <2>2. CASE Page!EffectRuns(pageId)
        BY <1>1, <2>1, <2>2, PageEffect
    <2>3. CASE UNCHANGED <<Page!screen, request, sent, guarded, stray>>
        BY <1>1, <2>1, <2>3, PageKept DEF Page!screen
    <2> QED
        BY <1>3, <2>2, <2>3 DEF Page!SessionChecked
  <1>4. CASE Page!PressJoin \/ Page!ConfirmLeave
    <2>1. PICK kind \in {"join", "leave"} : Page!Submits(kind)
        BY <1>4 DEF Page!PressJoin, Page!ConfirmLeave
    <2> QED
        BY <1>1, <1>4, <2>1, PageSubmits DEF Page!PressJoin, Page!ConfirmLeave, Page!server
  <1>5. CASE Page!PressLeave
    <2>1. CASE Page!Submits("leave")
      <3>1. PICK kind \in {"join", "leave"} : Page!Submits(kind)
          BY <2>1
      <3> QED
          BY <1>1, <1>5, <3>1, PageSubmits DEF Page!PressLeave, Page!server
    <2>2. CASE UNCHANGED <<auth, pageBusy, request, sent, handler>>
        BY <1>1, <1>5, <2>2, PageKept DEF Page!PressLeave, Page!server
    <2> QED
        BY <1>5, <2>1, <2>2 DEF Page!PressLeave
  <1>6. CASE Page!KeepPlace
      BY <1>1, <1>6, PageKept DEF Page!KeepPlace, Page!server
  <1>7. CASE Page!TryAgain
      BY <1>1, <1>7, PageRetries
  <1>8. CASE UNCHANGED pageVars
      BY <1>1, <1>8, PageKept DEF pageVars
  <1> QED
      BY <1>1, <1>2, <1>3, <1>4, <1>5, <1>6, <1>7, <1>8, PagePromoted, PageServed, PageTravels,
         PageLoadLands, PageMutationLands, PageHandlerEnds DEF Page!Next, Page!Landing

(* A load the page has moved on from does not put its event on another     *)
(* one's page, however late it is answered, unless the effect ran while a  *)
(* load without a signal, or a handler that starts one, was under way, or  *)
(* two such loads overlapped (~stray; EventDetailPage's effect).           *)
THEOREM SlowLoadsAreIgnored == Spec => []SlowLoadIgnored
  <1>1. PageInv => SlowLoadIgnored
      BY DEF PageInv, PageOK, SlowLoadIgnored
  <1> QED
      BY PageInit, PageStep, <1>1, PTL DEF Spec

(* Once a join has ended, however it ended, and the button can be pressed  *)
(* again, what the page shows was read after it, also when the answer that *)
(* gave the place was lost (handleJoin's load after success and failure):  *)
(* unless Try again is loading it at the moment, or the loads that nobody  *)
(* aborts got in each other's way before (~stray).                         *)
THEOREM JoinsAreReadBack == Spec => []JoinIsReadBack
  <1>1. PageInv => JoinIsReadBack
    <2> SUFFICES ASSUME PageOK, Page!Usable, ~pageBusy, ~stray
                 PROVE  pageEvent.asOf >= settled[pageId] \/ Page!Unguarded # {}
        BY DEF PageInv, JoinIsReadBack, Page!JoinIsReadBack
    <2>1. handler = Page!Idle
        BY DEF PageOK, Busy
    <2> QED
        BY <2>1, LoadsUnderWay DEF PageOK, ReadBack
  <1> QED
      BY PageInit, PageStep, <1>1, PTL DEF Spec
=============================================================================
