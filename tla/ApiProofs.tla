------------------------------ MODULE ApiProofs ------------------------------
(***************************************************************************)
(* The request pipeline, the bodies of events, the configuration, the seed *)
(* and the listing, proved for every set of requests and inputs, every     *)
(* limit, every script and any number of events.  (Accounts have a module  *)
(* of their own.)                                                          *)
(***************************************************************************)
EXTENDS Api, OrderingProofs, FiniteSetTheorems, SequenceTheorems, TLAPS

-----------------------------------------------------------------------------
(* The request pipeline.                                                   *)

Thrown == {"nothing", "syntax", "unauthenticated", "throttled", "fields"} \cup Pipeline!Throwables

PipelineTypes ==
  /\ input \in [PipelineRequests -> Inputs]
  /\ DOMAIN stage = PipelineRequests
  /\ thrown \in [PipelineRequests -> Thrown]
  /\ user \in [PipelineRequests -> {"ann", "bo", Nobody}]
  /\ hits \in [Pipeline!Keys -> Nat] /\ window \in Nat
  /\ counted \in [PipelineRequests -> Int]
  /\ DOMAIN requestId = PipelineRequests /\ DOMAIN header = PipelineRequests
  /\ DOMAIN reply = PipelineRequests

(* What is known of a request by where it is. *)
Underway(q) ==
  /\ stage[q] \in {"parse", "tag", "authenticate", "throttle"} => counted[q] = 0 - 1
  /\ stage[q] \notin {"filter", "done"} => thrown[q] = "nothing"
  /\ counted[q] <= window
  /\ counted[q] < 0 => thrown[q] # "throttled"
  /\ counted[q] >= 0 => Bucket[input[q].route] # "none"
  /\ stage[q] = "done" =>
       (reply[q].code = "RATE_LIMIT_EXCEEDED" <=> thrown[q] = "throttled")

(* Its id is settled before anything else can go wrong. *)
Labelled(q) ==
  /\ stage[q] \notin {"parse", "tag"} /\ thrown[q] # "syntax"
       => requestId[q] = header[q] /\ header[q] \in {"plain", "fresh"}
  /\ stage[q] = "done" /\ reply[q].code # "" => reply[q].requestId = requestId[q]

(* The requests a budget has counted in a window, and those let through.   *)
KeyOf(q) == <<input[q].route, Pipeline!Tracker(q)>>
CountedIn(w, k) == {p \in PipelineRequests : counted[p] = w /\ KeyOf(p) = k}
ThroughIn(w, k) == {p \in CountedIn(w, k) : thrown[p] # "throttled"}

(* The storage counts the requests of its window; no window lets more of   *)
(* them through than the limit, and refuses none before.                   *)
BudgetsOK ==
  /\ \A k \in Pipeline!Keys : hits[k] = Cardinality(CountedIn(window, k))
  /\ \A k \in Pipeline!Keys, w \in 0..window :
       Bucket[k[1]] # "none" => Cardinality(ThroughIn(w, k)) <= Limit[Bucket[k[1]]]
  /\ \A q \in PipelineRequests :
       thrown[q] = "throttled"
         => Cardinality(CountedIn(counted[q], KeyOf(q))) > Limit[Bucket[input[q].route]]

PipelineOK ==
  /\ PipelineTypes /\ BudgetsOK
  /\ \A q \in PipelineRequests : Underway(q) /\ Labelled(q)

PipelineInv == part = "pipeline" => PipelineOK

-----------------------------------------------------------------------------
(* While the pipeline is the part that moves, its steps are all there are. *)
LEMMA PipelineMoves ==
  ASSUME [Next]_vars, part' = "pipeline"
  PROVE  part = "pipeline" /\ [Pipeline!Next]_pipelineVars
  BY DEF Next, vars, pipelineVars

(* The component counts as anybody does. *)
LEMMA PipelineCounts ==
  /\ \A S : Pipeline!Cardinality(S) = Cardinality(S)
  /\ IsFiniteSet(PipelineRequests)
  <1>1. \A S : Pipeline!Cardinality(S) = Cardinality(S)
      BY DEF Pipeline!Cardinality, Cardinality
  <1>2. \A S : Pipeline!IsFiniteSet(S) <=> IsFiniteSet(S)
      BY DEF Pipeline!IsFiniteSet, IsFiniteSet
  <1> QED
      BY <1>1, <1>2, PartsAreCoherent DEF Pipeline!PipelineParameters

(* A budget counts finitely many requests, and lets some of them through.  *)
LEMMA BudgetsAreFinite ==
  ASSUME NEW w, NEW k
  PROVE  /\ IsFiniteSet(CountedIn(w, k)) /\ Cardinality(CountedIn(w, k)) \in Nat
         /\ IsFiniteSet(ThroughIn(w, k)) /\ Cardinality(ThroughIn(w, k)) \in Nat
         /\ Cardinality(ThroughIn(w, k)) <= Cardinality(CountedIn(w, k))
  <1>1. CountedIn(w, k) \subseteq PipelineRequests /\ ThroughIn(w, k) \subseteq CountedIn(w, k)
      BY DEF CountedIn, ThroughIn
  <1>2. IsFiniteSet(CountedIn(w, k))
      BY <1>1, PipelineCounts, FS_Subset
  <1> QED
      BY <1>1, <1>2, FS_Subset, FS_CardinalityType

(* What a request may be. *)
LEMMA InputHas ==
  ASSUME PipelineTypes, NEW q \in PipelineRequests
  PROVE  /\ input[q].route \in DOMAIN Bucket /\ input[q].ip \in {"office", "home"}
         /\ input[q].account \in {"ann", "bo"}
         /\ input[q].body \in {"fine", "invalid", "malformed"}
         /\ KeyOf(q) \in Pipeline!Keys /\ KeyOf(q)[1] = input[q].route
  <1>1. input[q] \in Pipeline!Input
      BY PartsAreCoherent DEF PipelineTypes, Pipeline!PipelineParameters
  <1>2. Pipeline!Tracker(q) \in {"ann", "bo", "office", "home"}
      BY <1>1 DEF PipelineTypes, Pipeline!Tracker, Pipeline!ThrottledUser, Pipeline!Input
  <1> QED
      BY <1>1, <1>2 DEF Pipeline!Input, Pipeline!Routes, Pipeline!Keys, KeyOf

(* Two requests are on one budget when they are of one person: names and   *)
(* addresses are never mistaken for each other.                            *)
LEMMA OnePersonOneKey ==
  ASSUME PipelineTypes, NEW p \in PipelineRequests, NEW q \in PipelineRequests
  PROVE  KeyOf(p) = KeyOf(q)
           <=> input[p].route = input[q].route /\ Pipeline!SamePerson(p, q)
  <1>1. /\ user[p] \in {"ann", "bo", Nobody} /\ user[q] \in {"ann", "bo", Nobody}
        /\ Nobody \notin {"ann", "bo"}
        /\ input[p].ip \in {"office", "home"} /\ input[q].ip \in {"office", "home"}
      BY InputHas, PartsAreCoherent DEF PipelineTypes, Pipeline!PipelineParameters
  <1>2. Pipeline!Tracker(p) = Pipeline!Tracker(q) <=> Pipeline!SamePerson(p, q)
      BY <1>1 DEF Pipeline!Tracker, Pipeline!ThrottledUser, Pipeline!SamePerson
  <1> QED
      BY <1>2 DEF KeyOf

LEMMA PipelineInit == Init => PipelineInv
  <1> SUFFICES ASSUME Init, part = "pipeline"
               PROVE  PipelineOK
      BY DEF PipelineInv
  <1>1. Pipeline!Init
      BY DEF Init
  <1>2. PipelineTypes
      BY <1>1 DEF Pipeline!Init, PipelineTypes, Thrown
  <1>3. \A q \in PipelineRequests : Underway(q) /\ Labelled(q)
      BY <1>1 DEF Pipeline!Init, Underway, Labelled
  <1>4. \A k, w : w \in 0..window => CountedIn(w, k) = {} /\ ThroughIn(w, k) = {}
      BY <1>1 DEF Pipeline!Init, CountedIn, ThroughIn
  <1>5. BudgetsOK
    <2>1. Cardinality({}) = 0 /\ window = 0 /\ \A k \in Pipeline!Keys : hits[k] = 0
        BY <1>1, FS_EmptySet DEF Pipeline!Init
    <2>2. \A k \in Pipeline!Keys : Bucket[k[1]] # "none" => 0 <= Limit[Bucket[k[1]]]
        BY PartsAreCoherent DEF Pipeline!PipelineParameters, Pipeline!Keys, Pipeline!Routes
    <2>3. \A q \in PipelineRequests : thrown[q] # "throttled"
        BY <1>1 DEF Pipeline!Init
    <2>4. \A k : CountedIn(window, k) = {}
        BY <1>4, <2>1
    <2> QED
        BY <1>4, <2>1, <2>2, <2>3, <2>4 DEF BudgetsOK
  <1> QED
      BY <1>2, <1>3, <1>5 DEF PipelineOK

-----------------------------------------------------------------------------
(* A step that counts nobody leaves the budgets as they are.               *)
LEMMA BudgetsStay ==
  ASSUME PipelineOK, PipelineTypes',
         UNCHANGED <<input, hits, window, counted>>,
         \A p \in PipelineRequests :
           /\ counted[p] >= 0 => user'[p] = user[p]
           /\ thrown'[p] = "throttled" <=> thrown[p] = "throttled"
  PROVE  BudgetsOK'
  <1>1. \A p \in PipelineRequests : counted[p] \in Int
      BY DEF PipelineOK, PipelineTypes
  <1>2. \A p \in PipelineRequests : counted[p] >= 0 => KeyOf(p)' = KeyOf(p)
      BY DEF KeyOf, Pipeline!Tracker, Pipeline!ThrottledUser
  <1>3. \A w, k : w \in Nat => CountedIn(w, k)' = CountedIn(w, k)
      BY <1>1, <1>2 DEF CountedIn
  <1>4. \A w, k : w \in Nat => ThroughIn(w, k)' = ThroughIn(w, k)
    <2> SUFFICES ASSUME NEW w, NEW k, w \in Nat
                 PROVE  ThroughIn(w, k)' = ThroughIn(w, k)
        OBVIOUS
    <2>1. CountedIn(w, k)' = CountedIn(w, k) /\ CountedIn(w, k) \subseteq PipelineRequests
        BY <1>3 DEF CountedIn
    <2> QED
        BY <2>1 DEF ThroughIn
  <1>5. window \in Nat /\ \A w \in 0..window : w \in Nat
      BY DEF PipelineOK, PipelineTypes
  <1>6. ASSUME NEW q \in PipelineRequests, thrown'[q] = "throttled"
        PROVE  Cardinality(CountedIn(counted[q], KeyOf(q)))' > Limit[Bucket[input'[q].route]]
    <2>1. counted[q] \in Nat
        BY <1>1, <1>6 DEF PipelineOK, Underway
    <2>2. KeyOf(q)' = KeyOf(q)
        BY <1>2, <2>1
    <2>3. CountedIn(counted[q], KeyOf(q))' = CountedIn(counted[q], KeyOf(q))
        BY <1>3, <2>1, <2>2
    <2> QED
        BY <1>6, <2>3 DEF PipelineOK, BudgetsOK
  <1>7. Pipeline!Keys' = Pipeline!Keys
      BY DEF Pipeline!Keys, Pipeline!Routes
  <1>8. \A k \in Pipeline!Keys : hits'[k] = Cardinality(CountedIn(window, k))'
      BY <1>3, <1>5 DEF PipelineOK, BudgetsOK
  <1>9. \A k \in Pipeline!Keys, w \in 0..window' :
          Bucket[k[1]] # "none" => Cardinality(ThroughIn(w, k))' <= Limit[Bucket[k[1]]]
      BY <1>4, <1>5 DEF PipelineOK, BudgetsOK
  <1> QED
      BY <1>6, <1>7, <1>8, <1>9 DEF BudgetsOK

(* A request is counted: its budget grows by it, and by nobody else. *)
LEMMA OneIsCounted ==
  ASSUME PipelineOK, PipelineTypes', NEW q \in PipelineRequests,
         counted[q] < 0, Bucket[input[q].route] # "none",
         hits' = [hits EXCEPT ![KeyOf(q)] = @ + 1],
         counted' = [counted EXCEPT ![q] = window],
         UNCHANGED <<input, user, window>>,
         \A p \in PipelineRequests \ {q} : thrown'[p] = thrown[p],
         thrown[q] # "throttled",
         thrown'[q] = "throttled" <=> hits[KeyOf(q)] >= Limit[Bucket[input[q].route]]
  PROVE  BudgetsOK'
  <1> DEFINE limit == Limit[Bucket[input[q].route]]
  <1>0. PICK key, now : key = KeyOf(q) /\ now = window
      OBVIOUS
  <1>1. /\ PipelineTypes /\ BudgetsOK /\ now \in Nat /\ key \in Pipeline!Keys
        /\ key[1] = input[q].route /\ hits[key] \in Nat /\ limit \in Nat
    <2>1. PipelineTypes /\ BudgetsOK
        BY DEF PipelineOK
    <2>2. key \in Pipeline!Keys /\ key[1] = input[q].route /\ input[q].route \in DOMAIN Bucket
        BY <1>0, <2>1, InputHas
    <2>3. Bucket[input[q].route] = "none" \/ limit \in Nat
        BY <2>2, PartsAreCoherent DEF Pipeline!PipelineParameters, Pipeline!Routes
    <2> QED
        BY <1>0, <2>1, <2>2, <2>3 DEF PipelineTypes
  <1>2. \A p : KeyOf(p)' = KeyOf(p)
      BY DEF KeyOf, Pipeline!Tracker, Pipeline!ThrottledUser
  <1>3. /\ counted'[q] = now
        /\ \A p \in PipelineRequests \ {q} : counted'[p] = counted[p]
        /\ \A p \in PipelineRequests : counted[p] \in Int
      BY <1>0, <1>1 DEF PipelineTypes
  <1> HIDE DEF limit
  <1>4. CountedIn(now, key)' = CountedIn(now, key) \cup {q}
        /\ q \notin CountedIn(now, key)
      BY <1>0, <1>1, <1>2, <1>3 DEF CountedIn
  <1>5. ASSUME NEW w \in Nat, NEW k, ~(w = now /\ k = key)
        PROVE  /\ CountedIn(w, k)' = CountedIn(w, k)
               /\ CountedIn(w, k) \subseteq PipelineRequests \ {q}
    <2>1. KeyOf(q) = key /\ counted[q] < 0
        BY <1>0
    <2>2. \A p \in PipelineRequests :
            counted'[p] = w /\ KeyOf(p)' = k <=> counted[p] = w /\ KeyOf(p) = k
        BY <1>2, <1>3, <1>5, <2>1
    <2> QED
        BY <1>3, <2>1, <2>2 DEF CountedIn
  <1>6. Cardinality(CountedIn(now, key)') = hits[key] + 1
    <2>1. hits[key] = Cardinality(CountedIn(now, key))
        BY <1>0, <1>1 DEF BudgetsOK
    <2> QED
        BY <1>4, <2>1, BudgetsAreFinite, FS_AddElement
  <1>7. ASSUME NEW w \in Nat, NEW k, ~(w = now /\ k = key)
        PROVE  ThroughIn(w, k)' = ThroughIn(w, k)
    <2>1. CountedIn(w, k)' = CountedIn(w, k) /\ CountedIn(w, k) \subseteq PipelineRequests \ {q}
        BY <1>5, <1>7
    <2> QED
        BY <2>1 DEF ThroughIn
  <1>8. ThroughIn(now, key)' \subseteq CountedIn(now, key)'
      BY DEF ThroughIn
  <1>9. Cardinality(ThroughIn(now, key)') <= limit
    <2>1. CASE thrown'[q] = "throttled"
      <3>1. CountedIn(now, key) \subseteq PipelineRequests \ {q}
          BY <1>4 DEF CountedIn
      <3>2. ThroughIn(now, key)' = ThroughIn(now, key)
          BY <1>4, <2>1, <3>1 DEF ThroughIn
      <3>3. now \in 0..window /\ Bucket[key[1]] # "none" /\ limit = Limit[Bucket[key[1]]]
          BY <1>0, <1>1 DEF limit
      <3> QED
          BY <1>1, <3>2, <3>3 DEF BudgetsOK
    <2>2. CASE thrown'[q] # "throttled"
      <3>1. hits[key] + 1 <= limit
          BY <1>0, <1>1, <2>2 DEF limit
      <3>2. IsFiniteSet(CountedIn(now, key)')
          BY <1>4, BudgetsAreFinite, FS_AddElement
      <3>3. /\ Cardinality(ThroughIn(now, key)') <= Cardinality(CountedIn(now, key)')
            /\ Cardinality(ThroughIn(now, key)') \in Nat
          BY <1>8, <3>2, FS_Subset, FS_CardinalityType
      <3> QED
          BY <1>1, <1>6, <3>1, <3>3
    <2> QED
        BY <2>1, <2>2
  <1>10. \A k \in Pipeline!Keys : hits'[k] = Cardinality(CountedIn(now, k)')
    <2>1. hits'[key] = hits[key] + 1 /\ \A k \in Pipeline!Keys : k # key => hits'[k] = hits[k]
        BY <1>0, <1>1 DEF PipelineTypes
    <2>2. \A k \in Pipeline!Keys : hits[k] = Cardinality(CountedIn(now, k))
        BY <1>0, <1>1 DEF BudgetsOK
    <2>3. \A k \in Pipeline!Keys : k # key => CountedIn(now, k)' = CountedIn(now, k)
        BY <1>1, <1>5
    <2> QED
        BY <1>6, <2>1, <2>2, <2>3
  <1>11. ASSUME NEW k \in Pipeline!Keys, NEW w \in 0..now, Bucket[k[1]] # "none"
         PROVE  Cardinality(ThroughIn(w, k)') <= Limit[Bucket[k[1]]]
    <2>1. w \in Nat /\ w \in 0..window
        BY <1>0, <1>1
    <2>2. CASE w = now /\ k = key
        BY <1>1, <1>9, <2>2 DEF limit
    <2>3. CASE ~(w = now /\ k = key)
        BY <1>1, <1>7, <1>11, <2>1, <2>3 DEF BudgetsOK
    <2> QED
        BY <2>2, <2>3
  <1>12. ASSUME NEW p \in PipelineRequests, thrown'[p] = "throttled",
                NEW w, NEW k, w = counted'[p], k = KeyOf(p)
         PROVE  Cardinality(CountedIn(w, k)') > Limit[Bucket[input[p].route]]
    <2>1. CASE p = q
      <3>1. w = now /\ k = key /\ hits[key] >= limit
          BY <1>0, <1>3, <1>12, <2>1 DEF limit
      <3> QED
          BY <1>1, <1>6, <2>1, <3>1 DEF limit
    <2>2. CASE p # q
      <3>1. thrown[p] = "throttled" /\ counted[p] = w /\ w \in Nat
          BY <1>3, <1>12, <2>2 DEF PipelineOK, Underway
      <3>2. Cardinality(CountedIn(w, k)) > Limit[Bucket[input[p].route]]
          BY <1>1, <1>12, <3>1 DEF BudgetsOK
      <3>3. CASE w = now /\ k = key
        <4>1. KeyOf(p)[1] = input[p].route
            BY <1>1, InputHas
        <4>2. /\ input[p].route = input[q].route
              /\ Cardinality(CountedIn(now, key)) = hits[key]
            BY <1>0, <1>1, <1>12, <3>3, <4>1 DEF BudgetsOK
        <4>3. Limit[Bucket[input[p].route]] = limit
            BY <4>2 DEF limit
        <4> QED
            BY <1>1, <1>6, <3>2, <3>3, <4>2, <4>3
      <3>4. CASE ~(w = now /\ k = key)
          BY <1>5, <3>1, <3>2, <3>4
      <3> QED
          BY <3>3, <3>4
    <2> QED
        BY <2>1, <2>2
  <1>13. Pipeline!Keys' = Pipeline!Keys /\ window' = now /\ input' = input
      BY <1>0 DEF Pipeline!Keys, Pipeline!Routes
  <1>14. \A p \in PipelineRequests :
           thrown'[p] = "throttled"
             => Cardinality(CountedIn(counted[p], KeyOf(p)))' > Limit[Bucket[input'[p].route]]
      BY <1>2, <1>12, <1>13
  <1>15. \A k \in Pipeline!Keys : hits'[k] = Cardinality(CountedIn(window, k))'
      BY <1>10, <1>13
  <1> QED
      BY <1>11, <1>13, <1>14, <1>15 DEF BudgetsOK

(* A window passes: the storage is empty, and so is the new window. *)
LEMMA AWindowPasses ==
  ASSUME PipelineOK, Pipeline!WindowPasses
  PROVE  PipelineOK'
  <1>1. /\ PipelineTypes /\ BudgetsOK /\ window' = window + 1 /\ window \in Nat
        /\ hits' = [k \in Pipeline!Keys |-> 0]
        /\ UNCHANGED <<input, stage, requestId, header, user, counted, thrown, reply>>
      BY DEF PipelineOK, PipelineTypes, Pipeline!WindowPasses
  <1>2. PipelineTypes' /\ Pipeline!Keys' = Pipeline!Keys
      BY <1>1 DEF PipelineTypes, Pipeline!Keys, Pipeline!Routes
  <1>3. ASSUME NEW q \in PipelineRequests
        PROVE  Underway(q)' /\ Labelled(q)'
    <2>1. Underway(q) /\ Labelled(q) /\ counted[q] \in Int
        BY <1>1 DEF PipelineOK, PipelineTypes
    <2>2. counted'[q] <= window'
        BY <1>1, <2>1 DEF Underway
    <2> QED
        BY <1>1, <2>1, <2>2 DEF Underway, Labelled
  <1>4. \A q : KeyOf(q)' = KeyOf(q)
      BY <1>1 DEF KeyOf, Pipeline!Tracker, Pipeline!ThrottledUser
  <1>5. \A w, k : CountedIn(w, k)' = CountedIn(w, k)
      BY <1>1, <1>4 DEF CountedIn
  <1>6. \A w, k : ThroughIn(w, k)' = ThroughIn(w, k)
      BY <1>1, <1>5 DEF ThroughIn
  <1>7. \A k : CountedIn(window + 1, k) = {} /\ ThroughIn(window + 1, k) = {}
    <2>1. \A p \in PipelineRequests : counted[p] # window + 1
        BY <1>1 DEF PipelineOK, Underway, PipelineTypes
    <2> QED
        BY <2>1 DEF CountedIn, ThroughIn
  <1>8. \A k \in Pipeline!Keys : hits'[k] = Cardinality(CountedIn(window, k))'
    <2>1. \A k \in Pipeline!Keys : hits'[k] = 0
        BY <1>1
    <2>2. \A k : CountedIn(window, k)' = CountedIn(window + 1, k)
        BY <1>1, <1>5
    <2> QED
        BY <1>7, <2>1, <2>2, FS_EmptySet
  <1>9. ASSUME NEW k \in Pipeline!Keys, NEW w \in 0..window', Bucket[k[1]] # "none"
        PROVE  Cardinality(ThroughIn(w, k))' <= Limit[Bucket[k[1]]]
    <2>1. CASE w = window + 1
      <3>1. Limit[Bucket[k[1]]] \in Nat
          BY <1>9, PartsAreCoherent DEF Pipeline!PipelineParameters, Pipeline!Keys, Pipeline!Routes
      <3> QED
          BY <1>6, <1>7, <2>1, <3>1, FS_EmptySet
    <2>2. CASE w # window + 1
        BY <1>1, <1>6, <1>9, <2>2 DEF BudgetsOK
    <2> QED
        BY <2>1, <2>2
  <1>10. \A q \in PipelineRequests :
           thrown'[q] = "throttled" =>
             Cardinality(CountedIn(counted[q], KeyOf(q)))' > Limit[Bucket[input'[q].route]]
    <2>1. \A q \in PipelineRequests :
            CountedIn(counted[q], KeyOf(q))' = CountedIn(counted[q], KeyOf(q))
        BY <1>1, <1>4, <1>5
    <2> QED
        BY <1>1, <2>1 DEF BudgetsOK
  <1>11. BudgetsOK'
      BY <1>2, <1>8, <1>9, <1>10 DEF BudgetsOK
  <1> QED
      BY <1>2, <1>3, <1>11 DEF PipelineOK

-----------------------------------------------------------------------------
(* A step of request q leaves the others where they are.                   *)
OnlySteps(q) ==
  /\ UNCHANGED <<input, window>>
  /\ \A p \in PipelineRequests \ {q} :
       /\ stage'[p] = stage[p] /\ requestId'[p] = requestId[p] /\ header'[p] = header[p]
       /\ user'[p] = user[p] /\ counted'[p] = counted[p] /\ thrown'[p] = thrown[p]
       /\ reply'[p] = reply[p]

LEMMA OneSteps ==
  ASSUME PipelineOK, NEW q \in PipelineRequests, OnlySteps(q),
         PipelineTypes', BudgetsOK', Underway(q)', Labelled(q)'
  PROVE  PipelineOK'
  <1>1. ASSUME NEW p \in PipelineRequests, p # q
        PROVE  Underway(p)' /\ Labelled(p)'
    <2>1. Underway(p) /\ Labelled(p)
        BY DEF PipelineOK
    <2>2. /\ stage'[p] = stage[p] /\ requestId'[p] = requestId[p] /\ header'[p] = header[p]
          /\ counted'[p] = counted[p] /\ thrown'[p] = thrown[p] /\ reply'[p] = reply[p]
          /\ input' = input /\ window' = window
        BY <1>1 DEF OnlySteps
    <2> QED
        BY <2>1, <2>2 DEF Underway, Labelled
  <1>2. \A p \in PipelineRequests : Underway(p)' /\ Labelled(p)'
      BY <1>1
  <1> QED
      BY <1>2 DEF PipelineOK

(* What moves of q when it passes on to a stage, or throws.                *)
LEMMA PassesOrThrows ==
  ASSUME PipelineTypes, NEW q \in PipelineRequests
  PROVE  /\ \A s : Pipeline!Passes(q, s) =>
                     /\ stage' = [stage EXCEPT ![q] = s] /\ thrown' = thrown /\ stage'[q] = s
                     /\ DOMAIN stage' = PipelineRequests
                     /\ \A p \in PipelineRequests \ {q} : stage'[p] = stage[p]
         /\ \A x \in Thrown : Pipeline!Throws(q, x) =>
                     /\ stage'[q] = "filter" /\ thrown'[q] = x
                     /\ DOMAIN stage' = PipelineRequests
                     /\ thrown' \in [PipelineRequests -> Thrown]
                     /\ \A p \in PipelineRequests \ {q} :
                          stage'[p] = stage[p] /\ thrown'[p] = thrown[p]
  BY DEF PipelineTypes, Pipeline!Passes, Pipeline!Throws, Pipeline!Goes

LEMMA Parses ==
  ASSUME PipelineOK, NEW q \in PipelineRequests, Pipeline!Parse(q)
  PROVE  PipelineOK'
  <1>1. /\ stage[q] = "parse" /\ PipelineTypes /\ Underway(q) /\ Labelled(q)
        /\ UNCHANGED <<input, requestId, header, user, hits, window, counted, reply>>
      BY DEF Pipeline!Parse, PipelineOK
  <1>2. CASE Pipeline!Throws(q, "syntax")
    <2>1. /\ stage'[q] = "filter" /\ thrown'[q] = "syntax" /\ DOMAIN stage' = PipelineRequests
          /\ thrown' \in [PipelineRequests -> Thrown]
          /\ \A p \in PipelineRequests \ {q} : stage'[p] = stage[p] /\ thrown'[p] = thrown[p]
        BY <1>1, <1>2, PassesOrThrows DEF Thrown
    <2>2. OnlySteps(q) /\ PipelineTypes'
        BY <1>1, <2>1 DEF OnlySteps, PipelineTypes
    <2>3. thrown[q] = "nothing"
        BY <1>1 DEF Underway
    <2>4. BudgetsOK'
        BY <1>1, <2>1, <2>2, <2>3, BudgetsStay
    <2>5. Underway(q)' /\ Labelled(q)'
        BY <1>1, <2>1 DEF Underway, Labelled
    <2> QED
        BY <2>2, <2>4, <2>5, OneSteps
  <1>3. CASE Pipeline!Passes(q, "tag")
    <2>1. /\ stage'[q] = "tag" /\ thrown' = thrown /\ DOMAIN stage' = PipelineRequests
          /\ \A p \in PipelineRequests \ {q} : stage'[p] = stage[p]
        BY <1>1, <1>3, PassesOrThrows
    <2>2. OnlySteps(q) /\ PipelineTypes'
        BY <1>1, <2>1 DEF OnlySteps, PipelineTypes
    <2>3. BudgetsOK'
        BY <1>1, <2>1, <2>2, BudgetsStay
    <2>4. Underway(q)' /\ Labelled(q)'
        BY <1>1, <2>1 DEF Underway, Labelled
    <2> QED
        BY <2>2, <2>3, <2>4, OneSteps
  <1> QED
      BY <1>2, <1>3 DEF Pipeline!Parse

LEMMA Tags ==
  ASSUME PipelineOK, NEW q \in PipelineRequests, Pipeline!Tag(q)
  PROVE  PipelineOK'
  <1>1. PICK id \in {"plain", "fresh"} :
          requestId' = [requestId EXCEPT ![q] = id] /\ header' = [header EXCEPT ![q] = id]
    <2> DEFINE id == IF Pipeline!Plausible(input[q].inbound) THEN input[q].inbound ELSE "fresh"
    <2>1. id \in {"plain", "fresh"}
        BY DEF Pipeline!Plausible
    <2> QED
        BY <2>1 DEF Pipeline!Tag
  <1>2. /\ stage[q] = "tag" /\ PipelineTypes /\ Underway(q) /\ Labelled(q)
        /\ UNCHANGED <<input, user, hits, window, counted, reply>>
        /\ Pipeline!Passes(q, "authenticate")
      BY DEF Pipeline!Tag, PipelineOK
  <1>3. /\ stage'[q] = "authenticate" /\ thrown' = thrown /\ DOMAIN stage' = PipelineRequests
        /\ \A p \in PipelineRequests \ {q} : stage'[p] = stage[p]
      BY <1>2, PassesOrThrows
  <1>4. /\ requestId'[q] = id /\ header'[q] = id
        /\ \A p \in PipelineRequests \ {q} : requestId'[p] = requestId[p] /\ header'[p] = header[p]
        /\ DOMAIN requestId' = PipelineRequests /\ DOMAIN header' = PipelineRequests
      BY <1>1, <1>2 DEF PipelineTypes
  <1>5. OnlySteps(q) /\ PipelineTypes'
      BY <1>2, <1>3, <1>4 DEF OnlySteps, PipelineTypes
  <1>6. BudgetsOK'
      BY <1>2, <1>3, <1>5, BudgetsStay
  <1>7. Underway(q)' /\ Labelled(q)'
      BY <1>2, <1>3, <1>4 DEF Underway, Labelled
  <1> QED
      BY <1>5, <1>6, <1>7, OneSteps

LEMMA Authenticates ==
  ASSUME PipelineOK, NEW q \in PipelineRequests, Pipeline!Authenticate(q)
  PROVE  PipelineOK'
  <1>1. /\ stage[q] = "authenticate" /\ PipelineTypes /\ Underway(q) /\ Labelled(q)
        /\ UNCHANGED <<input, requestId, header, hits, window, counted, reply>>
        /\ thrown[q] = "nothing" /\ ~(counted[q] >= 0)
      BY DEF Pipeline!Authenticate, PipelineOK, PipelineTypes, Underway
  <1>2. /\ user' \in [PipelineRequests -> {"ann", "bo", Nobody}]
        /\ \A p \in PipelineRequests \ {q} : user'[p] = user[p]
      BY <1>1, InputHas DEF Pipeline!Authenticate, PipelineTypes
  <1>3. CASE Pipeline!Throws(q, "unauthenticated")
    <2>1. /\ stage'[q] = "filter" /\ thrown'[q] = "unauthenticated"
          /\ DOMAIN stage' = PipelineRequests /\ thrown' \in [PipelineRequests -> Thrown]
          /\ \A p \in PipelineRequests \ {q} : stage'[p] = stage[p] /\ thrown'[p] = thrown[p]
        BY <1>1, <1>3, PassesOrThrows DEF Thrown
    <2>2. OnlySteps(q) /\ PipelineTypes'
        BY <1>1, <1>2, <2>1 DEF OnlySteps, PipelineTypes
    <2>3. BudgetsOK'
        BY <1>1, <1>2, <2>1, <2>2, BudgetsStay
    <2>4. Underway(q)' /\ Labelled(q)'
        BY <1>1, <2>1 DEF Underway, Labelled
    <2> QED
        BY <2>2, <2>3, <2>4, OneSteps
  <1>4. CASE Pipeline!Passes(q, "throttle")
    <2>1. /\ stage'[q] = "throttle" /\ thrown' = thrown /\ DOMAIN stage' = PipelineRequests
          /\ \A p \in PipelineRequests \ {q} : stage'[p] = stage[p]
        BY <1>1, <1>4, PassesOrThrows
    <2>2. OnlySteps(q) /\ PipelineTypes'
        BY <1>1, <1>2, <2>1 DEF OnlySteps, PipelineTypes
    <2>3. BudgetsOK'
        BY <1>1, <1>2, <2>1, <2>2, BudgetsStay
    <2>4. Underway(q)' /\ Labelled(q)'
        BY <1>1, <2>1 DEF Underway, Labelled
    <2> QED
        BY <2>2, <2>3, <2>4, OneSteps
  <1> QED
      BY <1>3, <1>4 DEF Pipeline!Authenticate

LEMMA Throttles ==
  ASSUME PipelineOK, NEW q \in PipelineRequests, Pipeline!Throttle(q)
  PROVE  PipelineOK'
  <1> DEFINE bucket == Bucket[input[q].route]
  <1>1. /\ stage[q] = "throttle" /\ PipelineTypes /\ BudgetsOK /\ Underway(q) /\ Labelled(q)
        /\ UNCHANGED <<input, requestId, header, user, window, reply>>
        /\ thrown[q] = "nothing" /\ counted[q] < 0
      BY DEF Pipeline!Throttle, PipelineOK, Underway
  <1>2. KeyOf(q) \in Pipeline!Keys
      BY <1>1, InputHas
  <1>3. CASE bucket = "none" /\ Pipeline!Passes(q, "validate") /\ UNCHANGED <<hits, counted>>
    <2>1. /\ stage'[q] = "validate" /\ thrown' = thrown /\ DOMAIN stage' = PipelineRequests
          /\ \A p \in PipelineRequests \ {q} : stage'[p] = stage[p]
        BY <1>1, <1>3, PassesOrThrows
    <2>2. OnlySteps(q) /\ PipelineTypes'
        BY <1>1, <1>3, <2>1 DEF OnlySteps, PipelineTypes
    <2>3. BudgetsOK'
        BY <1>1, <1>3, <2>1, <2>2, BudgetsStay
    <2>4. Underway(q)' /\ Labelled(q)'
        BY <1>1, <1>3, <2>1 DEF Underway, Labelled
    <2> QED
        BY <2>2, <2>3, <2>4, OneSteps
  <1>4. CASE /\ bucket # "none"
             /\ hits' = [hits EXCEPT ![KeyOf(q)] = @ + 1]
             /\ counted' = [counted EXCEPT ![q] = window]
             /\ \/ hits[KeyOf(q)] < Limit[bucket] /\ Pipeline!Passes(q, "validate")
                \/ hits[KeyOf(q)] >= Limit[bucket] /\ Pipeline!Throws(q, "throttled")
    <2>0. hits[KeyOf(q)] \in Nat /\ Limit[bucket] \in Nat
      <3>1. input[q].route \in Pipeline!Routes
          BY <1>1, InputHas DEF Pipeline!Routes
      <3> QED
          BY <1>1, <1>2, <1>4, <3>1, PartsAreCoherent DEF PipelineTypes,
             Pipeline!PipelineParameters
    <2>1. /\ stage'[q] \in {"validate", "filter"} /\ DOMAIN stage' = PipelineRequests
          /\ thrown' \in [PipelineRequests -> Thrown]
          /\ \A p \in PipelineRequests \ {q} : stage'[p] = stage[p] /\ thrown'[p] = thrown[p]
          /\ thrown'[q] = "throttled" <=> hits[KeyOf(q)] >= Limit[bucket]
          /\ stage'[q] = "validate" => thrown'[q] = "nothing"
      <3>1. CASE hits[KeyOf(q)] < Limit[bucket] /\ Pipeline!Passes(q, "validate")
        <4>1. /\ stage'[q] = "validate" /\ thrown' = thrown /\ DOMAIN stage' = PipelineRequests
              /\ \A p \in PipelineRequests \ {q} : stage'[p] = stage[p]
            BY <1>1, <3>1, PassesOrThrows
        <4> QED
            BY <1>1, <2>0, <3>1, <4>1 DEF PipelineTypes
      <3>2. CASE hits[KeyOf(q)] >= Limit[bucket] /\ Pipeline!Throws(q, "throttled")
        <4>1. "throttled" \in Thrown
            BY DEF Thrown
        <4>2. /\ stage'[q] = "filter" /\ thrown'[q] = "throttled"
              /\ DOMAIN stage' = PipelineRequests /\ thrown' \in [PipelineRequests -> Thrown]
              /\ \A p \in PipelineRequests \ {q} : stage'[p] = stage[p] /\ thrown'[p] = thrown[p]
            BY <1>1, <3>2, <4>1, PassesOrThrows
        <4> QED
            BY <3>2, <4>2
      <3> QED
          BY <1>4, <3>1, <3>2
    <2>2. /\ counted'[q] = window /\ counted' \in [PipelineRequests -> Int]
          /\ \A p \in PipelineRequests \ {q} : counted'[p] = counted[p]
          /\ hits' \in [Pipeline!Keys -> Nat]
        BY <1>1, <1>2, <1>4, <2>0 DEF PipelineTypes
    <2>3. Pipeline!Keys' = Pipeline!Keys
        BY DEF Pipeline!Keys, Pipeline!Routes
    <2>4. OnlySteps(q) /\ PipelineTypes'
        BY <1>1, <2>1, <2>2, <2>3 DEF OnlySteps, PipelineTypes
    <2>5. BudgetsOK'
        BY <1>1, <1>4, <2>1, <2>4, OneIsCounted
    <2>6. counted'[q] <= window' /\ ~(counted'[q] < 0)
        BY <1>1, <2>2 DEF PipelineTypes
    <2>7. Underway(q)'
        BY <1>1, <1>4, <2>1, <2>6 DEF Underway
    <2>8. Labelled(q)'
        BY <1>1, <2>1 DEF Labelled
    <2> QED
        BY <2>4, <2>5, <2>7, <2>8, OneSteps
  <1> QED
      BY <1>3, <1>4 DEF Pipeline!Throttle, KeyOf

LEMMA Validates ==
  ASSUME PipelineOK, NEW q \in PipelineRequests, Pipeline!Validate(q)
  PROVE  PipelineOK'
  <1>1. /\ stage[q] = "validate" /\ PipelineTypes /\ Underway(q) /\ Labelled(q)
        /\ UNCHANGED <<input, requestId, header, user, hits, window, counted, reply>>
        /\ thrown[q] = "nothing"
      BY DEF Pipeline!Validate, PipelineOK, Underway
  <1>2. CASE Pipeline!Throws(q, "fields")
    <2>1. /\ stage'[q] = "filter" /\ thrown'[q] = "fields" /\ DOMAIN stage' = PipelineRequests
          /\ thrown' \in [PipelineRequests -> Thrown]
          /\ \A p \in PipelineRequests \ {q} : stage'[p] = stage[p] /\ thrown'[p] = thrown[p]
        BY <1>1, <1>2, PassesOrThrows DEF Thrown
    <2>2. OnlySteps(q) /\ PipelineTypes'
        BY <1>1, <2>1 DEF OnlySteps, PipelineTypes
    <2>3. BudgetsOK'
        BY <1>1, <2>1, <2>2, BudgetsStay
    <2>4. Underway(q)' /\ Labelled(q)'
        BY <1>1, <2>1 DEF Underway, Labelled
    <2> QED
        BY <2>2, <2>3, <2>4, OneSteps
  <1>3. CASE Pipeline!Passes(q, "handle")
    <2>1. /\ stage'[q] = "handle" /\ thrown' = thrown /\ DOMAIN stage' = PipelineRequests
          /\ \A p \in PipelineRequests \ {q} : stage'[p] = stage[p]
        BY <1>1, <1>3, PassesOrThrows
    <2>2. OnlySteps(q) /\ PipelineTypes'
        BY <1>1, <2>1 DEF OnlySteps, PipelineTypes
    <2>3. BudgetsOK'
        BY <1>1, <2>1, <2>2, BudgetsStay
    <2>4. Underway(q)' /\ Labelled(q)'
        BY <1>1, <2>1 DEF Underway, Labelled
    <2> QED
        BY <2>2, <2>3, <2>4, OneSteps
  <1> QED
      BY <1>2, <1>3 DEF Pipeline!Validate

(* A handler that throws, throws none of the pipeline's own exceptions. *)
LEMMA RequestHandled ==
  ASSUME PipelineOK, NEW q \in PipelineRequests, Pipeline!Handle(q)
  PROVE  PipelineOK'
  <1>1. /\ stage[q] = "handle" /\ PipelineTypes /\ Underway(q) /\ Labelled(q)
        /\ UNCHANGED <<input, requestId, header, user, hits, window, counted>>
        /\ thrown[q] = "nothing"
      BY DEF Pipeline!Handle, PipelineOK, Underway
  <1>2. ASSUME NEW x \in Pipeline!Throwables, Pipeline!Throws(q, x), reply' = reply
        PROVE  PipelineOK'
    <2>1. x \in Thrown /\ x \notin {"throttled", "syntax"}
        BY DEF Thrown, Pipeline!Throwables
    <2>2. /\ stage'[q] = "filter" /\ thrown'[q] = x /\ DOMAIN stage' = PipelineRequests
          /\ thrown' \in [PipelineRequests -> Thrown]
          /\ \A p \in PipelineRequests \ {q} : stage'[p] = stage[p] /\ thrown'[p] = thrown[p]
        BY <1>1, <1>2, <2>1, PassesOrThrows
    <2>3. OnlySteps(q) /\ PipelineTypes'
        BY <1>1, <1>2, <2>2 DEF OnlySteps, PipelineTypes
    <2>4. BudgetsOK'
        BY <1>1, <2>1, <2>2, <2>3, BudgetsStay
    <2>5. Underway(q)' /\ Labelled(q)'
        BY <1>1, <1>2, <2>1, <2>2 DEF Underway, Labelled
    <2> QED
        BY <2>3, <2>4, <2>5, OneSteps
  <1>3. CASE /\ Pipeline!Goes(q, "done") /\ thrown' = thrown
             /\ reply' = [reply EXCEPT ![q] = [status |-> 200, code |-> "", requestId |-> "none"]]
    <2>1. /\ stage'[q] = "done" /\ DOMAIN stage' = PipelineRequests
          /\ \A p \in PipelineRequests \ {q} : stage'[p] = stage[p]
        BY <1>1, <1>3 DEF Pipeline!Goes, PipelineTypes
    <2>2. /\ reply'[q].code = "" /\ DOMAIN reply' = PipelineRequests
          /\ \A p \in PipelineRequests \ {q} : reply'[p] = reply[p]
        BY <1>1, <1>3 DEF PipelineTypes
    <2>3. OnlySteps(q) /\ PipelineTypes'
        BY <1>1, <1>3, <2>1, <2>2 DEF OnlySteps, PipelineTypes
    <2>4. BudgetsOK'
        BY <1>1, <1>3, <2>3, BudgetsStay
    <2>5. Underway(q)' /\ Labelled(q)'
        BY <1>1, <1>3, <2>1, <2>2 DEF Underway, Labelled
    <2> QED
        BY <2>3, <2>4, <2>5, OneSteps
  <1> QED
      BY <1>2, <1>3 DEF Pipeline!Handle

(* Only the throttler's exception is answered RATE_LIMIT_EXCEEDED. *)
LEMMA OneCodeForLimits ==
  ASSUME NEW x \in Thrown
  PROVE  Pipeline!Classify(x).code = "RATE_LIMIT_EXCEEDED" <=> x = "throttled"
  BY DEF Thrown, Pipeline!Throwables, Pipeline!Classify, Pipeline!Plain, Pipeline!DefaultCode

LEMMA Filters ==
  ASSUME PipelineOK, NEW q \in PipelineRequests, Pipeline!Filter(q)
  PROVE  PipelineOK'
  <1> DEFINE new == [status |-> Pipeline!Classify(thrown[q]).status,
                     code |-> Pipeline!Classify(thrown[q]).code,
                     requestId |-> requestId[q]]
  <1>1. /\ stage[q] = "filter" /\ PipelineTypes /\ Underway(q) /\ Labelled(q)
        /\ UNCHANGED <<input, requestId, header, user, hits, window, counted>>
        /\ reply' = [reply EXCEPT ![q] = new] /\ Pipeline!Passes(q, "done")
      BY DEF Pipeline!Filter, PipelineOK
  <1>2. /\ new.code = "RATE_LIMIT_EXCEEDED" <=> thrown[q] = "throttled"
        /\ new.requestId = requestId[q]
      BY <1>1, OneCodeForLimits DEF PipelineTypes
  <1>3. /\ stage'[q] = "done" /\ thrown' = thrown /\ DOMAIN stage' = PipelineRequests
        /\ \A p \in PipelineRequests \ {q} : stage'[p] = stage[p]
      BY <1>1, PassesOrThrows
  <1> HIDE DEF new
  <1>4. /\ reply'[q] = new /\ DOMAIN reply' = PipelineRequests
        /\ \A p \in PipelineRequests \ {q} : reply'[p] = reply[p]
      BY <1>1 DEF PipelineTypes
  <1>5. OnlySteps(q) /\ PipelineTypes'
      BY <1>1, <1>3, <1>4 DEF OnlySteps, PipelineTypes
  <1>6. BudgetsOK'
      BY <1>1, <1>3, <1>5, BudgetsStay
  <1>7. Underway(q)' /\ Labelled(q)'
      BY <1>1, <1>2, <1>3, <1>4 DEF Underway, Labelled
  <1> QED
      BY <1>5, <1>6, <1>7, OneSteps

LEMMA PipelineStep ==
  ASSUME PipelineInv, [Next]_vars
  PROVE  PipelineInv'
  <1> SUFFICES ASSUME part' = "pipeline"
               PROVE  PipelineOK'
      BY DEF PipelineInv
  <1>1. PipelineOK /\ [Pipeline!Next]_pipelineVars
      BY PipelineMoves DEF PipelineInv
  <1>2. CASE UNCHANGED pipelineVars
    <2>1. /\ UNCHANGED <<input, stage, requestId, header, user, hits, window, counted, thrown, reply>>
          /\ PipelineTypes
        BY <1>1, <1>2 DEF pipelineVars, PipelineOK
    <2>2. PipelineTypes'
        BY <2>1 DEF PipelineTypes, Pipeline!Keys, Pipeline!Routes
    <2>3. BudgetsOK'
        BY <1>1, <2>1, <2>2, BudgetsStay
    <2>4. ASSUME NEW q \in PipelineRequests
          PROVE  Underway(q)' /\ Labelled(q)'
      <3>1. Underway(q) /\ Labelled(q)
          BY <1>1 DEF PipelineOK
      <3> QED
          BY <2>1, <3>1 DEF Underway, Labelled
    <2> QED
        BY <2>2, <2>3, <2>4 DEF PipelineOK
  <1>3. CASE Pipeline!WindowPasses
      BY <1>1, <1>3, AWindowPasses
  <1>4. ASSUME NEW q \in PipelineRequests,
               \/ Pipeline!Parse(q) \/ Pipeline!Tag(q) \/ Pipeline!Authenticate(q)
               \/ Pipeline!Throttle(q) \/ Pipeline!Validate(q) \/ Pipeline!Handle(q)
               \/ Pipeline!Filter(q)
        PROVE  PipelineOK'
      BY <1>1, <1>4, Parses, Tags, Authenticates, Throttles, Validates, RequestHandled, Filters
  <1> QED
      BY <1>1, <1>2, <1>3, <1>4 DEF Pipeline!Next

LEMMA PipelineIsOK == Spec => []PipelineInv
  BY PipelineInit, PipelineStep, PTL DEF Spec

(* The id in an error is the one on the response and one the middleware    *)
(* would take (RequestIdMiddleware, AllExceptionsFilter).                  *)
THEOREM ErrorsAreTraceable == Spec => []Traceable
  <1>1. PipelineInv => Traceable
    <2> SUFFICES ASSUME PipelineOK, NEW q \in PipelineRequests,
                        stage[q] = "done", reply[q].code # "", thrown[q] # "syntax"
                 PROVE  reply[q].requestId = header[q] /\ reply[q].requestId \in {"plain", "fresh"}
        BY DEF PipelineInv, Traceable, Pipeline!Traceable
    <2> QED
        BY DEF PipelineOK, Labelled
  <1> QED
      BY PipelineIsOK, <1>1, PTL

(* A person is refused for their own requests of the window alone, and no  *)
(* more of them than the limit are let through, from whatever address      *)
(* (UserScopedThrottlerGuard.getTracker, and the order of the guards).     *)
THEOREM BudgetIsPersonal == Spec => []BudgetPerPerson
  <1>1. PipelineInv => BudgetPerPerson
    <2> SUFFICES ASSUME PipelineOK, NEW q \in PipelineRequests, Pipeline!Limited(q)
                 PROVE  /\ reply[q].code = "RATE_LIMIT_EXCEEDED" =>
                             Pipeline!Cardinality(Pipeline!SameBudget(q))
                               > Limit[Bucket[input[q].route]]
                        /\ Pipeline!Cardinality({p \in Pipeline!SameBudget(q) :
                               Pipeline!Limited(p) /\ reply[p].code # "RATE_LIMIT_EXCEEDED"})
                             <= Limit[Bucket[input[q].route]]
        BY DEF PipelineInv, BudgetPerPerson, Pipeline!BudgetPerPerson, Pipeline!OwnBudget,
           Pipeline!BudgetHolds
    <2> DEFINE let == {p \in Pipeline!SameBudget(q) :
                         Pipeline!Limited(p) /\ reply[p].code # "RATE_LIMIT_EXCEEDED"}
               through == ThroughIn(counted[q], KeyOf(q))
    <2>1. PipelineTypes /\ BudgetsOK /\ Underway(q) /\ stage[q] = "done" /\ counted[q] >= 0
        BY DEF PipelineOK, Pipeline!Limited
    <2>2. /\ counted[q] \in 0..window /\ KeyOf(q) \in Pipeline!Keys
          /\ KeyOf(q)[1] = input[q].route /\ Bucket[input[q].route] # "none"
          /\ Limit[Bucket[input[q].route]] \in Nat
      <3>1. input[q].route \in Pipeline!Routes
          BY <2>1, InputHas DEF Pipeline!Routes
      <3> QED
          BY <2>1, <3>1, InputHas, PartsAreCoherent DEF PipelineTypes, Underway,
             Pipeline!PipelineParameters
    <2>3. Pipeline!SameBudget(q) = CountedIn(counted[q], KeyOf(q))
        BY <2>1, OnePersonOneKey DEF Pipeline!SameBudget, CountedIn
    <2>4. Cardinality(through) <= Limit[Bucket[input[q].route]]
        BY <2>1, <2>2 DEF BudgetsOK
    <2>5. let \subseteq through
      <3>1. \A p \in PipelineRequests :
              stage[p] = "done" /\ reply[p].code # "RATE_LIMIT_EXCEEDED" => thrown[p] # "throttled"
          BY DEF PipelineOK, Underway
      <3> QED
          BY <2>3, <3>1 DEF ThroughIn, CountedIn, Pipeline!Limited
    <2>6. IsFiniteSet(through) /\ Cardinality(through) \in Nat
        BY BudgetsAreFinite
    <2> HIDE DEF let, through
    <2>7. Cardinality(let) <= Cardinality(through) /\ Cardinality(let) \in Nat
        BY <2>5, <2>6, FS_Subset, FS_CardinalityType
    <2>8. Pipeline!Cardinality(let) <= Limit[Bucket[input[q].route]]
        BY <2>2, <2>4, <2>6, <2>7, PipelineCounts
    <2>9. reply[q].code = "RATE_LIMIT_EXCEEDED" =>
            Pipeline!Cardinality(Pipeline!SameBudget(q)) > Limit[Bucket[input[q].route]]
        BY <2>1, <2>3, PipelineCounts DEF Underway, BudgetsOK
    <2> QED
        BY <2>8, <2>9 DEF let
  <1> QED
      BY PipelineIsOK, <1>1, PTL

-----------------------------------------------------------------------------
(* The bodies of events.                                                   *)

(* The stored row satisfies the table's CHECKs, and a request that is to   *)
(* write has a body the validation pipe has let through.                   *)
RowOK(r) == r.startsAt \in Nat /\ r.endsAt \in Nat /\ r.capacity \in Nat

Waiting(q) ==
  /\ bodyPc[q] \in {"insert", "own", "update"} => EventBody!Valid(body[q])
  /\ bodyPc[q] = "insert" => body[q].create
  /\ bodyPc[q] \in {"own", "update"} => ~body[q].create

Partial(q) ==
  bodyAnswer[q] = "OK" /\ ~body[q].create =>
    /\ body[q].startsAt = EventBody!LeftOut => after[q].startsAt = bodyBefore[q].startsAt
    /\ body[q].endsAt = EventBody!LeftOut => after[q].endsAt = bodyBefore[q].endsAt
    /\ body[q].capacity = EventBody!LeftOut => after[q].capacity = bodyBefore[q].capacity
    /\ body[q].text = EventBody!LeftOut => after[q].text = bodyBefore[q].text
    /\ body[q].timezone = EventBody!LeftOut => after[q].timezone = bodyBefore[q].timezone

BodyOK ==
  /\ RowOK(row) /\ confirmedCount \in Nat
  /\ row.capacity = 0 \/ confirmedCount <= row.capacity
  /\ body \in [BodyRequests -> Bodies]
  /\ DOMAIN bodyPc = BodyRequests /\ DOMAIN bodyAnswer = BodyRequests
  /\ DOMAIN bodyBefore = BodyRequests /\ DOMAIN after = BodyRequests
  /\ \A q \in BodyRequests : Waiting(q) /\ bodyAnswer[q] # "CHECK" /\ Partial(q)

BodyInv == part = "bodies" => BodyOK

(* While the bodies are the part that moves, their steps are all there are. *)
LEMMA BodiesMove ==
  ASSUME [Next]_vars, part' = "bodies"
  PROVE  part = "bodies" /\ [EventBody!Next]_bodyVars
  BY DEF Next, vars, bodyVars

(* What a body may hold. *)
LEMMA BodyHas ==
  ASSUME NEW b \in Bodies
  PROVE  /\ b.create \in BOOLEAN /\ Top \in Nat
         /\ b.startsAt \in {0 - 1, 0 - 2, 0 - 3, 0 - 4} \cup Nat
         /\ b.endsAt \in {0 - 1, 0 - 2, 0 - 3, 0 - 4} \cup Nat
         /\ b.capacity \in {0 - 1, 0 - 2, 0 - 3, 0 - 4} \cup Nat
  BY PartsAreCoherent DEF EventBody!BodiesAreBodies, EventBody!LeftOut, EventBody!Null,
     EventBody!Week, EventBody!Junk

LEMMA BodyInit == Init => BodyInv
  <1> SUFFICES ASSUME Init, part = "bodies"
               PROVE  BodyOK
      BY DEF BodyInv
  <1>1. EventBody!Init
      BY DEF Init
  <1>2. RowOK(row) /\ confirmedCount = 1 /\ row.capacity = 2
      BY <1>1 DEF EventBody!Init, EventBody!TheRow, RowOK
  <1>3. \A q \in BodyRequests : Waiting(q) /\ bodyAnswer[q] # "CHECK" /\ Partial(q)
      BY <1>1 DEF EventBody!Init, Waiting, Partial
  <1> QED
      BY <1>1, <1>2, <1>3 DEF EventBody!Init, BodyOK

(* A body that creates an event, and is sent, has its bounds in order. *)
LEMMA CreatedInOrder ==
  ASSUME NEW b \in Bodies, EventBody!ValidCreate(b)
  PROVE  EventBody!CreateAnswer(b) # "CHECK"
  <1> SUFFICES ASSUME EventBody!Sendable(b)
               PROVE  EventBody!Created(b).endsAt > EventBody!Created(b).startsAt
    <2>1. b.startsAt \in Int /\ b.endsAt \in Int
        BY BodyHas
    <2>2. EventBody!Created(b).endsAt \in Int /\ EventBody!Created(b).startsAt \in Int
        BY <2>1 DEF EventBody!Created, EventBody!ParsedDate, EventBody!NotADate
    <2> QED
        BY <2>2 DEF EventBody!CreateAnswer
  <1>1. b.startsAt \in Nat /\ b.endsAt \in Nat /\ b.endsAt > b.startsAt
      BY BodyHas DEF EventBody!ValidCreate, EventBody!IsISO8601, EventBody!Sendable,
         EventBody!IsAfterProperty, EventBody!Readable
  <1> QED
      BY <1>1 DEF EventBody!Created, EventBody!ParsedDate, EventBody!Null, EventBody!Week

(* A PATCH that is not refused leaves a row the CHECKs accept, whatever    *)
(* the row has become since the body was validated.                        *)
LEMMA MergedIsOK ==
  ASSUME BodyOK, NEW q \in BodyRequests, EventBody!ValidUpdate(body[q]),
         EventBody!Sendable(body[q]), EventBody!Coherent(body[q], row),
         EventBody!Given(body[q].capacity) => body[q].capacity >= confirmedCount
  PROVE  /\ RowOK(EventBody!Merged(q)) /\ EventBody!Satisfies(EventBody!Merged(q))
  <1> DEFINE b == body[q]
             from == EventBody!Moved(b.startsAt, row.startsAt)
             to == EventBody!Moved(b.endsAt, row.endsAt)
             kept == IF b.capacity = EventBody!LeftOut THEN row.capacity
                     ELSE IF b.capacity = EventBody!Null THEN 0 ELSE b.capacity
  <1>1. b \in Bodies /\ RowOK(row) /\ confirmedCount \in Nat
        /\ (row.capacity = 0 \/ confirmedCount <= row.capacity)
      BY DEF BodyOK
  <1>2. /\ EventBody!Merged(q).startsAt = from /\ EventBody!Merged(q).endsAt = to
        /\ EventBody!Merged(q).capacity = kept
      BY DEF EventBody!Merged
  <1>3. from \in Nat
    <2>1. b.startsAt \in {0 - 1, 0 - 2} \cup Nat
        BY <1>1, BodyHas DEF EventBody!ValidUpdate, EventBody!Optional, EventBody!Given,
           EventBody!IsISO8601, EventBody!Readable, EventBody!Sendable, EventBody!LeftOut,
           EventBody!Null, EventBody!Week
    <2> QED
        BY <1>1, <2>1 DEF EventBody!Moved, EventBody!ParsedDate, EventBody!LeftOut,
           EventBody!Null, EventBody!Week, RowOK
  <1>4. to \in Nat
    <2>1. b.endsAt \in {0 - 1, 0 - 2} \cup Nat
        BY <1>1, BodyHas DEF EventBody!ValidUpdate, EventBody!Optional, EventBody!Given,
           EventBody!IsISO8601, EventBody!Readable, EventBody!Sendable, EventBody!LeftOut,
           EventBody!Null, EventBody!Week
    <2> QED
        BY <1>1, <2>1 DEF EventBody!Moved, EventBody!ParsedDate, EventBody!LeftOut,
           EventBody!Null, EventBody!Week, RowOK
  <1>5. kept \in Nat /\ (kept = 0 \/ confirmedCount <= kept)
    <2>1. b.capacity \in {0 - 1, 0 - 2} \cup Nat
        BY <1>1, BodyHas DEF EventBody!ValidUpdate, EventBody!Optional, EventBody!Given,
           EventBody!LeftOut, EventBody!Null
    <2>2. b.capacity \in Nat => EventBody!Given(b.capacity)
        BY DEF EventBody!Given, EventBody!LeftOut, EventBody!Null
    <2>3. CASE b.capacity = 0 - 1
        BY <1>1, <2>3 DEF EventBody!LeftOut, RowOK
    <2>4. CASE b.capacity = 0 - 2
        BY <2>4 DEF EventBody!LeftOut, EventBody!Null
    <2>5. CASE b.capacity \in Nat
        BY <1>1, <2>2, <2>5 DEF EventBody!LeftOut, EventBody!Null
    <2> QED
        BY <2>1, <2>3, <2>4, <2>5
  <1>6. to > from
      BY <1>3, <1>4 DEF EventBody!Coherent, EventBody!NotADate
  <1> HIDE DEF from, to, kept
  <1> QED
      BY <1>2, <1>3, <1>4, <1>5, <1>6 DEF RowOK, EventBody!Satisfies

(* What a PATCH leaves out, it leaves alone. *)
LEMMA MergedIsPartial ==
  ASSUME NEW q \in BodyRequests
  PROVE  LET b == body[q]
             new == EventBody!Merged(q)
         IN  /\ b.startsAt = EventBody!LeftOut => new.startsAt = row.startsAt
             /\ b.endsAt = EventBody!LeftOut => new.endsAt = row.endsAt
             /\ b.capacity = EventBody!LeftOut => new.capacity = row.capacity
             /\ b.text = EventBody!LeftOut => new.text = row.text
             /\ b.timezone = EventBody!LeftOut => new.timezone = row.timezone
  BY DEF EventBody!Merged, EventBody!Moved

(* A step of request q that writes nothing. *)
LEMMA BodyStepsAside ==
  ASSUME BodyOK, NEW q \in BodyRequests, NEW place, NEW code,
         bodyPc' = [bodyPc EXCEPT ![q] = place],
         \/ bodyAnswer' = bodyAnswer
         \/ /\ bodyAnswer' = [bodyAnswer EXCEPT ![q] = code]
            /\ code # "CHECK" /\ (code = "OK" => body[q].create),
         place \in {"insert", "own", "update"} => EventBody!Valid(body[q]),
         place = "insert" => body[q].create,
         place \in {"own", "update"} => ~body[q].create,
         UNCHANGED <<row, confirmedCount, body, bodyBefore, after>>
  PROVE  BodyOK'
  <1>1. ASSUME NEW p \in BodyRequests
        PROVE  Waiting(p)' /\ bodyAnswer'[p] # "CHECK" /\ Partial(p)'
    <2>1. Waiting(p) /\ bodyAnswer[p] # "CHECK" /\ Partial(p)
        BY DEF BodyOK
    <2>2. bodyPc'[p] = IF p = q THEN place ELSE bodyPc[p]
        BY DEF BodyOK
    <2>3. \/ bodyAnswer'[p] = bodyAnswer[p]
          \/ /\ p = q /\ bodyAnswer'[p] = code
             /\ code # "CHECK" /\ (code = "OK" => body[q].create)
        BY DEF BodyOK
    <2>4. Waiting(p)'
        BY <2>1, <2>2 DEF Waiting
    <2>5. bodyAnswer'[p] # "CHECK" /\ Partial(p)'
        BY <2>1, <2>3 DEF Partial
    <2> QED
        BY <2>4, <2>5
  <1>2. RowOK(row)'
      BY DEF BodyOK, RowOK
  <1> QED
      BY <1>1, <1>2 DEF BodyOK

(* A request is refused. *)
LEMMA BodyIsRefused ==
  ASSUME BodyOK, NEW q \in BodyRequests, NEW code, code \notin {"CHECK", "OK"},
         EventBody!Ends(q, code),
         UNCHANGED <<row, confirmedCount, body, bodyBefore, after>>
  PROVE  BodyOK'
  <1>1. /\ bodyPc' = [bodyPc EXCEPT ![q] = "done"]
        /\ bodyAnswer' = [bodyAnswer EXCEPT ![q] = code]
      BY DEF EventBody!Ends, EventBody!Goes
  <1> QED
      BY <1>1, BodyStepsAside

(* A PATCH that is not refused composes with what has been written. *)
LEMMA Updates ==
  ASSUME BodyOK, NEW q \in BodyRequests, EventBody!Update(q)
  PROVE  BodyOK'
  <1> DEFINE code == EventBody!Refusal(q)
             new == EventBody!Merged(q)
  <1>1. /\ bodyPc[q] = "update" /\ bodyPc' = [bodyPc EXCEPT ![q] = "done"]
        /\ bodyAnswer' = [bodyAnswer EXCEPT ![q] = code]
        /\ UNCHANGED <<there, confirmedCount, body, owned>>
        /\ Waiting(q) /\ body[q] \in Bodies
      BY DEF EventBody!Update, EventBody!Ends, EventBody!Goes, BodyOK
  <1>2. EventBody!ValidUpdate(body[q]) /\ ~body[q].create
      BY <1>1 DEF Waiting, EventBody!Valid
  <1>3. code = "OK" \/ code = "CHECK" =>
          /\ EventBody!Given(body[q].capacity) => body[q].capacity >= confirmedCount
          /\ EventBody!Coherent(body[q], row) /\ EventBody!Sendable(body[q])
      BY <1>1, BodyHas DEF EventBody!Refusal, EventBody!Current, BodyOK
  <1>4. code = "OK" \/ code = "CHECK" => RowOK(new) /\ EventBody!Satisfies(new)
      BY <1>2, <1>3, MergedIsOK
  <1>5. code # "CHECK"
      BY <1>4 DEF EventBody!Refusal
  <1>6. CASE code # "OK"
    <2>1. UNCHANGED <<row, bodyBefore, after>>
        BY <1>6 DEF EventBody!Update
    <2> HIDE DEF code
    <2> QED
        BY <1>1, <1>2, <1>5, <1>6, <2>1, BodyStepsAside
  <1>7. CASE code = "OK"
    <2>1. /\ row' = new /\ bodyBefore' = [bodyBefore EXCEPT ![q] = row]
          /\ after' = [after EXCEPT ![q] = new]
        BY <1>7 DEF EventBody!Update
    <2>2. RowOK(row)' /\ (row'.capacity = 0 \/ confirmedCount' <= row'.capacity)
        BY <1>1, <1>4, <1>7, <2>1 DEF RowOK, EventBody!Satisfies
    <2>3. bodyBefore'[q] = row /\ after'[q] = new /\ bodyPc'[q] = "done" /\ bodyAnswer'[q] = "OK"
        BY <1>1, <1>7, <2>1 DEF BodyOK
    <2>4. Partial(q)'
      <3>1. /\ body[q].startsAt = EventBody!LeftOut => new.startsAt = row.startsAt
            /\ body[q].endsAt = EventBody!LeftOut => new.endsAt = row.endsAt
            /\ body[q].capacity = EventBody!LeftOut => new.capacity = row.capacity
            /\ body[q].text = EventBody!LeftOut => new.text = row.text
            /\ body[q].timezone = EventBody!LeftOut => new.timezone = row.timezone
          BY MergedIsPartial
      <3> HIDE DEF new
      <3> QED
          BY <1>1, <2>3, <3>1 DEF Partial, EventBody!LeftOut
    <2> HIDE DEF code, new
    <2>5. ASSUME NEW p \in BodyRequests
          PROVE  Waiting(p)' /\ bodyAnswer'[p] # "CHECK" /\ Partial(p)'
      <3>1. CASE p = q
          BY <1>1, <2>3, <2>4, <3>1 DEF Waiting
      <3>2. CASE p # q
        <4>1. /\ Waiting(p) /\ bodyAnswer[p] # "CHECK" /\ Partial(p)
              /\ bodyPc'[p] = bodyPc[p] /\ bodyAnswer'[p] = bodyAnswer[p]
              /\ bodyBefore'[p] = bodyBefore[p] /\ after'[p] = after[p] /\ body' = body
            BY <1>1, <2>1, <3>2 DEF BodyOK
        <4> QED
            BY <4>1 DEF Waiting, Partial
      <3> QED
          BY <3>1, <3>2
    <2> QED
        BY <1>1, <2>1, <2>2, <2>5 DEF BodyOK
  <1> QED
      BY <1>6, <1>7

(* Places are taken and given back under the same lock. *)
LEMMA CounterMoves ==
  ASSUME BodyOK, EventBody!Rsvped
  PROVE  BodyOK'
  <1>1. UNCHANGED <<row, there, bodyPc, body, owned, bodyAnswer, bodyBefore, after>>
      BY DEF EventBody!Rsvped
  <1>2. confirmedCount' \in Nat /\ (row.capacity = 0 \/ confirmedCount' <= row.capacity)
      BY DEF EventBody!Rsvped, BodyOK, RowOK
  <1>3. ASSUME NEW p \in BodyRequests
        PROVE  Waiting(p)' /\ bodyAnswer'[p] # "CHECK" /\ Partial(p)'
      BY <1>1 DEF BodyOK, Waiting, Partial
  <1> QED
      BY <1>1, <1>2, <1>3 DEF BodyOK, RowOK

LEMMA BodyStep ==
  ASSUME BodyInv, [Next]_vars
  PROVE  BodyInv'
  <1> SUFFICES ASSUME part' = "bodies"
               PROVE  BodyOK'
      BY DEF BodyInv
  <1>1. BodyOK /\ [EventBody!Next]_bodyVars
      BY BodiesMove DEF BodyInv
  <1>2. ASSUME UNCHANGED <<row, confirmedCount, bodyPc, body, bodyAnswer, bodyBefore, after>>
        PROVE  BodyOK'
    <2>1. ASSUME NEW p \in BodyRequests
          PROVE  Waiting(p)' /\ bodyAnswer'[p] # "CHECK" /\ Partial(p)'
        BY <1>1, <1>2 DEF BodyOK, Waiting, Partial
    <2> QED
        BY <1>1, <1>2, <2>1 DEF BodyOK, RowOK
  <1>3. CASE UNCHANGED bodyVars
      BY <1>2, <1>3 DEF bodyVars
  <1>4. CASE EventBody!Remove
      BY <1>2, <1>4 DEF EventBody!Remove
  <1>5. CASE EventBody!Rsvped
      BY <1>1, <1>5, CounterMoves
  <1>6. ASSUME NEW q \in BodyRequests, EventBody!Validate(q)
        PROVE  BodyOK'
    <2>1. /\ UNCHANGED <<row, confirmedCount, body, bodyBefore, after>> /\ body[q] \in Bodies
          /\ body[q].create \in BOOLEAN
        BY <1>1, <1>6, BodyHas DEF EventBody!Validate, EventBody!NothingWritten, BodyOK
    <2>2. CASE EventBody!Ends(q, "VALIDATION_FAILED")
        BY <1>1, <2>1, <2>2, BodyIsRefused
    <2>3. CASE /\ EventBody!Valid(body[q]) /\ bodyAnswer' = bodyAnswer
               /\ EventBody!Goes(q, IF body[q].create THEN "insert" ELSE "own")
      <3>1. CASE body[q].create
          BY <1>1, <2>1, <2>3, <3>1, BodyStepsAside DEF EventBody!Goes
      <3>2. CASE ~body[q].create
          BY <1>1, <2>1, <2>3, <3>2, BodyStepsAside DEF EventBody!Goes
      <3> QED
          BY <3>1, <3>2
    <2> QED
        BY <1>6, <2>2, <2>3 DEF EventBody!Validate
  <1>7. ASSUME NEW q \in BodyRequests, EventBody!Create(q)
        PROVE  BodyOK'
    <2>1. /\ UNCHANGED <<row, confirmedCount, body, bodyBefore, after>> /\ body[q] \in Bodies
          /\ body[q].create /\ EventBody!Valid(body[q])
          /\ bodyPc' = [bodyPc EXCEPT ![q] = "done"]
          /\ bodyAnswer' = [bodyAnswer EXCEPT ![q] = EventBody!CreateAnswer(body[q])]
        BY <1>1, <1>7 DEF EventBody!Create, EventBody!NothingWritten, EventBody!Ends,
           EventBody!Goes, BodyOK, Waiting
    <2>2. EventBody!CreateAnswer(body[q]) # "CHECK"
        BY <2>1, CreatedInOrder DEF EventBody!Valid
    <2> QED
        BY <1>1, <2>1, <2>2, BodyStepsAside
  <1>8. ASSUME NEW q \in BodyRequests, EventBody!FindOwned(q)
        PROVE  BodyOK'
    <2>1. /\ UNCHANGED <<row, confirmedCount, body, bodyBefore, after>>
          /\ ~body[q].create /\ EventBody!Valid(body[q])
        BY <1>1, <1>8 DEF EventBody!FindOwned, EventBody!NothingWritten, BodyOK, Waiting
    <2>2. CASE EventBody!Goes(q, "update") /\ bodyAnswer' = bodyAnswer
        BY <1>1, <2>1, <2>2, BodyStepsAside DEF EventBody!Goes
    <2>3. CASE EventBody!Ends(q, "EVENT_NOT_FOUND")
        BY <1>1, <2>1, <2>3, BodyIsRefused
    <2> QED
        BY <1>8, <2>2, <2>3 DEF EventBody!FindOwned
  <1>9. ASSUME NEW q \in BodyRequests, EventBody!Update(q)
        PROVE  BodyOK'
      BY <1>1, <1>9, Updates
  <1> QED
      BY <1>1, <1>3, <1>4, <1>5, <1>6, <1>7, <1>8, <1>9 DEF EventBody!Next

(* Overlapping PATCHes of one event leave the fields they do not name      *)
(* alone, and no body ever reaches a CHECK constraint                      *)
(* (EventsService.update, assertCoherentTimeRange).                        *)
THEOREM PatchesComposeAlways == Spec => []PatchesCompose
  <1>1. BodyInv => PatchesCompose
      BY DEF BodyInv, BodyOK, Partial, PatchesCompose, EventBody!PatchesCompose,
         EventBody!BackstopUnused, EventBody!PatchIsPartial
  <1> QED
      BY BodyInit, BodyStep, <1>1, PTL DEF Spec

-----------------------------------------------------------------------------
(* The configuration.                                                      *)

(* A report names what is wrong with the environment; after one round of   *)
(* corrections only the origins can be wrong, after two nothing is.        *)
BootOK ==
  /\ bootPhase \in {"stopped", "refused", "running"} /\ restarts \in 0..2
  /\ bootPhase = "refused" => errors = Boot!Faults(env) /\ errors # {}
  /\ bootPhase = "running" => Boot!Faults(env) = {}
  /\ restarts >= 1 => Boot!Faults(env) \subseteq {"CORS_ORIGIN"}
  /\ restarts >= 2 => Boot!Faults(env) = {}
  /\ env \in Boot!Environments

BootInv == part = "boot" => BootOK

(* While the configuration is the part that moves, its steps are all there are. *)
LEMMA BootMoves ==
  ASSUME [Next]_vars, part' = "boot"
  PROVE  part = "boot" /\ [Boot!Next]_bootVars
  BY DEF Next, vars, bootVars

(* What a report names is what is wrong: no integer is called as another   *)
(* variable is.                                                            *)
LEMMA FaultsByName ==
  ASSUME NEW e
  PROVE  /\ "NODE_ENV" \in Boot!Faults(e) <=> ~Boot!nodeEnvValid(e)
         /\ "DATABASE_URL" \in Boot!Faults(e) <=> ~Boot!required(e.DATABASE_URL)
         /\ "JWT_SECRET" \in Boot!Faults(e) <=> ~Boot!secretValid(e)
         /\ "CORS_ORIGIN" \in Boot!Faults(e) <=> ~Boot!parseCorsOrigins(e)
         /\ "TRUST_PROXY" \in Boot!Faults(e) <=> ~Boot!boolean(e.TRUST_PROXY)
         /\ \A k \in IntegerKeys : k \in Boot!Faults(e) <=> ~Boot!integer(e.integers[k])
         /\ Boot!Faults(e) \subseteq {"NODE_ENV", "DATABASE_URL", "JWT_SECRET", "CORS_ORIGIN",
                                      "TRUST_PROXY"} \cup IntegerKeys
  BY PartsAreCoherent DEF Boot!Faults, Boot!ConfigurationParameters

LEMMA BootInit == Init => BootInv
  <1> SUFFICES ASSUME Init, part = "boot"
               PROVE  BootOK
      BY DEF BootInv
  <1>1. Boot!Init
      BY DEF Init
  <1> QED
      BY <1>1 DEF Boot!Init, BootOK

(* One correction: what was named is right, what was not is as it was.     *)
LEMMA Corrects ==
  ASSUME BootOK, Boot!Fix
  PROVE  BootOK'
  <1>1. /\ bootPhase = "refused" /\ bootPhase' = "stopped" /\ restarts' = restarts + 1
        /\ errors = Boot!Faults(env) /\ errors # {} /\ restarts \in 0..1
        /\ env \in Boot!Environments
      BY DEF Boot!Fix, BootOK
  <1>2. PICK n \in {"development", "test", "production"} :
          env' = [env EXCEPT
             !.NODE_ENV = IF "NODE_ENV" \in errors THEN n ELSE @,
             !.DATABASE_URL = IF "DATABASE_URL" \in errors THEN "url" ELSE @,
             !.JWT_SECRET = IF "JWT_SECRET" \in errors THEN MinSecret ELSE @,
             !.CORS_ORIGIN = IF "CORS_ORIGIN" \in errors THEN @ \ {"*"} ELSE @,
             !.TRUST_PROXY = IF "TRUST_PROXY" \in errors THEN "YES" ELSE @,
             !.integers = [k \in IntegerKeys |-> IF k \in errors THEN 5 ELSE @[k]]]
      BY DEF Boot!Fix
  <1>3. /\ env'.NODE_ENV = IF "NODE_ENV" \in errors THEN n ELSE env.NODE_ENV
        /\ env'.DATABASE_URL = IF "DATABASE_URL" \in errors THEN "url" ELSE env.DATABASE_URL
        /\ env'.JWT_SECRET = IF "JWT_SECRET" \in errors THEN MinSecret ELSE env.JWT_SECRET
        /\ env'.CORS_ORIGIN = IF "CORS_ORIGIN" \in errors THEN env.CORS_ORIGIN \ {"*"}
                              ELSE env.CORS_ORIGIN
        /\ env'.TRUST_PROXY = IF "TRUST_PROXY" \in errors THEN "YES" ELSE env.TRUST_PROXY
        /\ env'.integers = [k \in IntegerKeys |-> IF k \in errors THEN 5 ELSE env.integers[k]]
      BY <1>1, <1>2 DEF Boot!Environments
  <1>4. env' \in Boot!Environments
    <2>1. env'.NODE_ENV \in {"unset", "development", "test", "production", "prod"}
        BY <1>1, <1>3 DEF Boot!Environments
    <2>2. env'.DATABASE_URL \in {"unset", "url"}
        BY <1>1, <1>3 DEF Boot!Environments
    <2>3. env'.JWT_SECRET \in {Boot!Missing, MinSecret - 1, MinSecret}
        BY <1>1, <1>3 DEF Boot!Environments
    <2>4. env'.CORS_ORIGIN \in SUBSET {"*", "https://site"}
        BY <1>1, <1>3 DEF Boot!Environments
    <2>5. env'.TRUST_PROXY \in {"unset", "YES", "0", "maybe"}
        BY <1>1, <1>3 DEF Boot!Environments
    <2>6. env'.integers \in [IntegerKeys -> {Boot!Missing, Boot!NotANumber, 0, 5}]
        BY <1>1, <1>3 DEF Boot!Environments
    <2> QED
        BY <1>1, <1>2, <2>1, <2>2, <2>3, <2>4, <2>5, <2>6 DEF Boot!Environments
  <1>5. /\ Boot!nodeEnvValid(env') /\ Boot!required(env'.DATABASE_URL) /\ Boot!secretValid(env')
        /\ Boot!boolean(env'.TRUST_PROXY)
        /\ \A k \in IntegerKeys : Boot!integer(env'.integers[k])
    <2>1. Boot!nodeEnvValid(env')
        BY <1>1, <1>3, FaultsByName DEF Boot!nodeEnvValid, Boot!optional
    <2>2. Boot!required(env'.DATABASE_URL)
        BY <1>1, <1>3, FaultsByName DEF Boot!required
    <2>3. Boot!secretValid(env')
        BY <1>1, <1>3, FaultsByName, PartsAreCoherent DEF Boot!secretValid,
           Boot!ConfigurationParameters
    <2>4. Boot!boolean(env'.TRUST_PROXY)
        BY <1>1, <1>3, FaultsByName DEF Boot!boolean
    <2>5. \A k \in IntegerKeys : Boot!integer(env'.integers[k])
        BY <1>1, <1>3, FaultsByName DEF Boot!integer
    <2> QED
        BY <2>1, <2>2, <2>3, <2>4, <2>5
  <1>6. Boot!Faults(env') \subseteq {"CORS_ORIGIN"}
      BY <1>5, FaultsByName
  <1>7. restarts >= 1 => Boot!Faults(env') = {}
    <2> SUFFICES ASSUME restarts >= 1
                 PROVE  Boot!parseCorsOrigins(env')
        BY <1>6, FaultsByName
    <2>1. errors = {"CORS_ORIGIN"}
        BY <1>1 DEF BootOK
    <2>2. "*" \notin env'.CORS_ORIGIN
        BY <1>3, <2>1
    <2> QED
        BY <2>2 DEF Boot!parseCorsOrigins
  <1> QED
      BY <1>1, <1>4, <1>6, <1>7 DEF BootOK

LEMMA BootStep ==
  ASSUME BootInv, [Next]_vars
  PROVE  BootInv'
  <1> SUFFICES ASSUME part' = "boot"
               PROVE  BootOK'
      BY DEF BootInv
  <1>1. BootOK /\ [Boot!Next]_bootVars
      BY BootMoves DEF BootInv
  <1>2. CASE UNCHANGED bootVars
      BY <1>1, <1>2 DEF bootVars, BootOK
  <1>3. CASE Boot!Start
      BY <1>1, <1>3 DEF Boot!Start, Boot!loadConfig, BootOK
  <1>4. CASE Boot!Fix
      BY <1>1, <1>4, Corrects
  <1> QED
      BY <1>1, <1>2, <1>3, <1>4 DEF Boot!Next

(* Whatever the operator corrected, what runs is what its environment      *)
(* says, and two rounds of corrections lead there (loadConfig).            *)
THEOREM DeploymentsAreSound == Spec => []CorrectionsSucceed
  <1>1. BootInv => CorrectionsSucceed
    <2> SUFFICES ASSUME BootOK
                 PROVE  Boot!BootedIsSound /\ Boot!FixedInTwoPasses
        BY DEF BootInv, CorrectionsSucceed, Boot!CorrectionsSucceed
    <2>1. Boot!FixedInTwoPasses
        BY DEF BootOK, Boot!FixedInTwoPasses
    <2>2. Boot!BootedIsSound
      <3> SUFFICES ASSUME Boot!Faults(env) = {}
                   PROVE  /\ env.NODE_ENV = "production" => "*" \notin env.CORS_ORIGIN
                          /\ env.NODE_ENV # "prod" /\ Boot!secretValid(env)
                          /\ Boot!required(env.DATABASE_URL)
          BY DEF BootOK, Boot!BootedIsSound, Boot!Running
      <3>1. /\ Boot!nodeEnvValid(env) /\ Boot!parseCorsOrigins(env)
            /\ Boot!secretValid(env) /\ Boot!required(env.DATABASE_URL)
          BY FaultsByName
      <3> QED
          BY <3>1 DEF Boot!nodeEnvValid, Boot!optional, Boot!parseCorsOrigins, Boot!parseNodeEnv
    <2> QED
        BY <2>1, <2>2
  <1> QED
      BY BootInit, BootStep, <1>1, PTL DEF Spec

-----------------------------------------------------------------------------
(* The seed.                                                               *)

nU == Len(UserSeq)
nE == Len(EventSeq)
nP == Len(PlaceSeq)
Last == nU + nE + nP + 2

(* While the seed is the part that moves, its steps are all there are. *)
LEMMA SeedMoves ==
  ASSUME [Next]_vars, part' = "seed"
  PROVE  part = "seed" /\ [Seeding!Next]_seedVars
  BY DEF Next, vars, seedVars

LEMMA SeedsAreSequences ==
  /\ UserSeq \in Seq(Seeding!SeedUsers) /\ EventSeq \in Seq(Seeding!SeedEvents)
  /\ PlaceSeq \in Seq(Seeding!SeedPlaces)
  /\ nU \in Nat /\ nE \in Nat /\ nP \in Nat
  /\ DOMAIN UserSeq = 1..nU /\ DOMAIN EventSeq = 1..nE /\ DOMAIN PlaceSeq = 1..nP
  BY PartsAreCoherent DEF Seeding!SeedIsCoherent, nU, nE, nP

(* A script in two parts. *)
LEMMA OneAfterTheOther ==
  ASSUME NEW S, NEW s \in Seq(S), NEW t \in Seq(S)
  PROVE  /\ s \o t \in Seq(S) /\ Len(s \o t) = Len(s) + Len(t)
         /\ \A i \in 1..Len(s) : (s \o t)[i] = s[i]
         /\ \A i \in 1..Len(t) : (s \o t)[Len(s) + i] = t[i]
  <1>1. Len(s) \in Nat /\ Len(t) \in Nat
      OBVIOUS
  <1>2. \A i \in 1..Len(t) : Len(s) + i \in 1..(Len(s) + Len(t)) /\ (Len(s) + i) - Len(s) = i
                             /\ ~(Len(s) + i <= Len(s))
      BY <1>1
  <1>3. \A i \in 1..Len(s) : i \in 1..(Len(s) + Len(t)) /\ i <= Len(s)
      BY <1>1
  <1> QED
      BY <1>2, <1>3, ConcatProperties

(* A script in four parts. *)
LEMMA OneAfterAnother ==
  ASSUME NEW S, NEW s \in Seq(S), NEW t \in Seq(S), NEW u \in Seq(S), NEW v \in Seq(S),
         NEW a, NEW b, NEW c, NEW d, a = Len(s), b = Len(t), c = Len(u), d = Len(v)
  PROVE  /\ Len(((s \o t) \o u) \o v) = a + b + c + d
         /\ \A i \in 1..a : (((s \o t) \o u) \o v)[i] = s[i]
         /\ \A i \in 1..b : (((s \o t) \o u) \o v)[a + i] = t[i]
         /\ \A i \in 1..c : (((s \o t) \o u) \o v)[a + b + i] = u[i]
         /\ \A i \in 1..d : (((s \o t) \o u) \o v)[a + b + c + i] = v[i]
  <1>1. a \in Nat /\ b \in Nat /\ c \in Nat /\ d \in Nat
      OBVIOUS
  <1>2. /\ s \o t \in Seq(S) /\ Len(s \o t) = a + b
        /\ \A i \in 1..a : (s \o t)[i] = s[i]
        /\ \A i \in 1..b : (s \o t)[a + i] = t[i]
      BY OneAfterTheOther
  <1> DEFINE st == s \o t
  <1> HIDE DEF st
  <1>3. /\ st \o u \in Seq(S) /\ Len(st \o u) = Len(st) + c
        /\ \A i \in 1..Len(st) : (st \o u)[i] = st[i]
        /\ \A i \in 1..c : (st \o u)[Len(st) + i] = u[i]
    <2>1. st \in Seq(S)
        BY <1>2 DEF st
    <2> QED
        BY <2>1, OneAfterTheOther
  <1> DEFINE stu == st \o u
  <1> HIDE DEF stu
  <1>4. /\ Len(stu \o v) = Len(stu) + d
        /\ \A i \in 1..Len(stu) : (stu \o v)[i] = stu[i]
        /\ \A i \in 1..d : (stu \o v)[Len(stu) + i] = v[i]
    <2>1. stu \in Seq(S)
        BY <1>3 DEF stu
    <2> QED
        BY <2>1, OneAfterTheOther
  <1>5. Len(st) = a + b /\ Len(stu) = a + b + c
      BY <1>2, <1>3 DEF st, stu
  <1>6. \A i \in 1..a : i \in 1..(a + b) /\ i \in 1..(a + b + c)
      BY <1>1
  <1>7. \A i \in 1..b : a + i \in 1..(a + b) /\ a + i \in 1..(a + b + c)
      BY <1>1
  <1>8. \A i \in 1..c : a + b + i \in 1..(a + b + c)
      BY <1>1
  <1>9. \A i \in 1..a : (stu \o v)[i] = s[i]
      BY <1>2, <1>3, <1>4, <1>5, <1>6 DEF st, stu
  <1>10. \A i \in 1..b : (stu \o v)[a + i] = t[i]
      BY <1>2, <1>3, <1>4, <1>5, <1>7 DEF st, stu
  <1>11. \A i \in 1..c : (stu \o v)[a + b + i] = u[i]
      BY <1>3, <1>4, <1>5, <1>8 DEF stu
  <1> QED
      BY <1>4, <1>5, <1>9, <1>10, <1>11 DEF st, stu

(* The statements of one kind. *)
LEMMA EachIs ==
  ASSUME NEW n \in Nat, NEW s, DOMAIN s = 1..n, NEW kind, NEW items, NEW r,
         r = [i \in DOMAIN s |-> [does |-> kind, what |-> s[i]]],
         \A i \in 1..n : r[i] \in items
  PROVE  /\ r \in Seq(items) /\ n = Len(r)
         /\ \A i \in 1..n : r[i] = [does |-> kind, what |-> s[i]]
  <1>1. r \in [1..n -> items]
      OBVIOUS
  <1> QED
      BY <1>1

(* The statements, in the order of the script. *)
LEMMA ScriptIs ==
  /\ Len(Seeding!Script) = nU + nE + nP + 2
  /\ \A i \in 1..nU : Seeding!Script[i] = [does |-> "user", what |-> UserSeq[i]]
  /\ \A i \in 1..nE : Seeding!Script[nU + i] = [does |-> "event", what |-> EventSeq[i]]
  /\ \A i \in 1..nP : Seeding!Script[nU + nE + i] = [does |-> "place", what |-> PlaceSeq[i]]
  /\ Seeding!Script[nU + nE + nP + 1] = [does |-> "count", what |-> 0]
  /\ Seeding!Script[nU + nE + nP + 2] = [does |-> "reconcile", what |-> 0]
  <1> DEFINE Us == [i \in DOMAIN UserSeq |-> [does |-> "user", what |-> UserSeq[i]]]
             Es == [i \in DOMAIN EventSeq |-> [does |-> "event", what |-> EventSeq[i]]]
             Ps == [i \in DOMAIN PlaceSeq |-> [does |-> "place", what |-> PlaceSeq[i]]]
             Cs == <<[does |-> "count", what |-> 0], [does |-> "reconcile", what |-> 0]>>
             Items == {Us[i] : i \in 1..nU} \cup {Es[i] : i \in 1..nE} \cup {Ps[i] : i \in 1..nP}
                        \cup {Cs[1], Cs[2]}
  <1>1. PICK us : us = Us
      OBVIOUS
  <1>2. PICK es : es = Es
      OBVIOUS
  <1>3. PICK ps : ps = Ps
      OBVIOUS
  <1>4. PICK cs : cs = Cs
      OBVIOUS
  <1>5. PICK items : items = Items
      OBVIOUS
  <1>6. Seeding!Script = ((us \o es) \o ps) \o cs
      BY <1>1, <1>2, <1>3, <1>4 DEF Seeding!Script
  <1>7. /\ us \in Seq(items) /\ nU = Len(us)
        /\ \A i \in 1..nU : us[i] = [does |-> "user", what |-> UserSeq[i]]
    <2>1. \A i \in 1..nU : us[i] \in items
        BY <1>1, <1>5
    <2>2. nU \in Nat /\ DOMAIN UserSeq = 1..nU
        BY SeedsAreSequences
    <2> HIDE DEF Us, Es, Ps, Cs, Items
    <2>3. us = [i \in DOMAIN UserSeq |-> [does |-> "user", what |-> UserSeq[i]]]
        BY <1>1 DEF Us
    <2> QED
        BY <2>1, <2>2, <2>3, EachIs
  <1>8. /\ es \in Seq(items) /\ nE = Len(es)
        /\ \A i \in 1..nE : es[i] = [does |-> "event", what |-> EventSeq[i]]
    <2>1. \A i \in 1..nE : es[i] \in items
        BY <1>2, <1>5
    <2>2. nE \in Nat /\ DOMAIN EventSeq = 1..nE
        BY SeedsAreSequences
    <2> HIDE DEF Us, Es, Ps, Cs, Items
    <2>3. es = [i \in DOMAIN EventSeq |-> [does |-> "event", what |-> EventSeq[i]]]
        BY <1>2 DEF Es
    <2> QED
        BY <2>1, <2>2, <2>3, EachIs
  <1>9. /\ ps \in Seq(items) /\ nP = Len(ps)
        /\ \A i \in 1..nP : ps[i] = [does |-> "place", what |-> PlaceSeq[i]]
    <2>1. \A i \in 1..nP : ps[i] \in items
        BY <1>3, <1>5
    <2>2. nP \in Nat /\ DOMAIN PlaceSeq = 1..nP
        BY SeedsAreSequences
    <2> HIDE DEF Us, Es, Ps, Cs, Items
    <2>3. ps = [i \in DOMAIN PlaceSeq |-> [does |-> "place", what |-> PlaceSeq[i]]]
        BY <1>3 DEF Ps
    <2> QED
        BY <2>1, <2>2, <2>3, EachIs
  <1>10. /\ cs \in Seq(items) /\ 2 = Len(cs)
        /\ cs[1] = [does |-> "count", what |-> 0] /\ cs[2] = [does |-> "reconcile", what |-> 0]
      BY <1>4, <1>5
  <1>11. 1 \in 1..2 /\ 2 \in 1..2
      OBVIOUS
  <1> HIDE DEF Us, Es, Ps, Cs, Items
  <1>12. /\ Len(((us \o es) \o ps) \o cs) = nU + nE + nP + 2
         /\ \A i \in 1..nU : (((us \o es) \o ps) \o cs)[i] = us[i]
         /\ \A i \in 1..nE : (((us \o es) \o ps) \o cs)[nU + i] = es[i]
         /\ \A i \in 1..nP : (((us \o es) \o ps) \o cs)[nU + nE + i] = ps[i]
         /\ \A i \in 1..2 : (((us \o es) \o ps) \o cs)[nU + nE + nP + i] = cs[i]
    <2>1. us \in Seq(items) /\ es \in Seq(items) /\ ps \in Seq(items) /\ cs \in Seq(items)
        BY <1>7, <1>8, <1>9, <1>10
    <2>2. nU = Len(us) /\ nE = Len(es) /\ nP = Len(ps) /\ 2 = Len(cs)
        BY <1>7, <1>8, <1>9, <1>10
    <2>3. PICK nC : nC = 2
        OBVIOUS
    <2>4. nU = Len(us)
        BY <2>2
    <2>5. nE = Len(es)
        BY <2>2
    <2>6. nP = Len(ps)
        BY <2>2
    <2>7. nC = Len(cs)
        BY <2>2, <2>3
    <2>8. /\ Len(((us \o es) \o ps) \o cs) = nU + nE + nP + nC
          /\ \A i \in 1..nU : (((us \o es) \o ps) \o cs)[i] = us[i]
          /\ \A i \in 1..nE : (((us \o es) \o ps) \o cs)[nU + i] = es[i]
          /\ \A i \in 1..nP : (((us \o es) \o ps) \o cs)[nU + nE + i] = ps[i]
          /\ \A i \in 1..nC : (((us \o es) \o ps) \o cs)[nU + nE + nP + i] = cs[i]
        BY <2>1, <2>4, <2>5, <2>6, <2>7, OneAfterAnother
    <2> QED
        BY <2>3, <2>8
  <1> QED
      BY <1>6, <1>7, <1>8, <1>9, <1>10, <1>11, <1>12

(* Which statement is which. *)
LEMMA ScriptShape ==
  /\ Last \in Nat /\ Last >= 2 /\ Len(Seeding!Script) = Last
  /\ \A k \in 1..Last :
       \/ k <= Last - 2 /\ Seeding!Script[k].does = "user"
            /\ Seeding!Script[k].what \in Seeding!SeedUsers
       \/ k <= Last - 2 /\ Seeding!Script[k].does = "event"
            /\ Seeding!Script[k].what \in Seeding!SeedEvents
       \/ k <= Last - 2 /\ Seeding!Script[k].does = "place"
            /\ Seeding!Script[k].what \in Seeding!SeedPlaces
       \/ k = Last - 1 /\ Seeding!Script[k].does = "count"
       \/ k = Last /\ Seeding!Script[k].does = "reconcile"
  <1>1. nU \in Nat /\ nE \in Nat /\ nP \in Nat
      BY SeedsAreSequences
  <1>2. /\ \A i \in 1..nU : UserSeq[i] \in Seeding!SeedUsers
        /\ \A i \in 1..nE : EventSeq[i] \in Seeding!SeedEvents
        /\ \A i \in 1..nP : PlaceSeq[i] \in Seeding!SeedPlaces
      BY SeedsAreSequences DEF Seeding!SeedUsers, Seeding!SeedEvents, Seeding!SeedPlaces, Seeding!Elements
  <1>3. Last \in Nat /\ Last >= 2 /\ Last - 2 = nU + nE + nP /\ Last - 1 = nU + nE + nP + 1
        /\ Last = nU + nE + nP + 2
      BY <1>1 DEF Last
  <1>4. ASSUME NEW k \in 1..Last
        PROVE  \/ k \in 1..nU \/ k - nU \in 1..nE \/ k - nU - nE \in 1..nP
               \/ k = Last - 1 \/ k = Last
      BY <1>1, <1>3
  <1>5. ASSUME NEW k \in 1..nU
        PROVE  k <= Last - 2 /\ Seeding!Script[k].does = "user"
                 /\ Seeding!Script[k].what \in Seeding!SeedUsers
    <2>1. k <= Last - 2
        BY <1>1, <1>3
    <2>2. Seeding!Script[k] = [does |-> "user", what |-> UserSeq[k]]
        BY ScriptIs
    <2> QED
        BY <1>2, <2>1, <2>2
  <1>6. ASSUME NEW k \in 1..Last, k - nU \in 1..nE
        PROVE  k <= Last - 2 /\ Seeding!Script[k].does = "event"
                 /\ Seeding!Script[k].what \in Seeding!SeedEvents
    <2>1. k <= Last - 2 /\ k = nU + (k - nU)
        BY <1>1, <1>3, <1>6
    <2> DEFINE i == k - nU
    <2>2. Seeding!Script[nU + i] = [does |-> "event", what |-> EventSeq[i]]
        BY <1>6, ScriptIs
    <2> QED
        BY <1>2, <1>6, <2>1, <2>2
  <1>7. ASSUME NEW k \in 1..Last, k - nU - nE \in 1..nP
        PROVE  k <= Last - 2 /\ Seeding!Script[k].does = "place"
                 /\ Seeding!Script[k].what \in Seeding!SeedPlaces
    <2>1. k <= Last - 2 /\ k = nU + nE + (k - nU - nE)
        BY <1>1, <1>3, <1>7
    <2> DEFINE i == k - nU - nE
    <2>2. Seeding!Script[nU + nE + i] = [does |-> "place", what |-> PlaceSeq[i]]
        BY <1>7, ScriptIs
    <2> QED
        BY <1>2, <1>7, <2>1, <2>2
  <1>8. Seeding!Script[Last - 1].does = "count" /\ Seeding!Script[Last].does = "reconcile"
      BY <1>3, ScriptIs
  <1> QED
      BY <1>3, <1>4, <1>5, <1>6, <1>7, <1>8, ScriptIs DEF Last

(* Everything the seed is made of has its statement. *)
LEMMA ScriptIsComplete ==
  /\ \A x \in Seeding!SeedUsers : \E k \in 1..(Last - 2) :
       Seeding!Script[k] = [does |-> "user", what |-> x]
  /\ \A x \in Seeding!SeedEvents : \E k \in 1..(Last - 2) :
       Seeding!Script[k] = [does |-> "event", what |-> x]
  /\ \A x \in Seeding!SeedPlaces : \E k \in 1..(Last - 2) :
       Seeding!Script[k] = [does |-> "place", what |-> x]
  <1>1. nU \in Nat /\ nE \in Nat /\ nP \in Nat /\ Last - 2 = nU + nE + nP
      BY SeedsAreSequences DEF Last
  <1>2. /\ \A i \in 1..nU : i \in 1..(Last - 2)
        /\ \A i \in 1..nE : nU + i \in 1..(Last - 2)
        /\ \A i \in 1..nP : nU + nE + i \in 1..(Last - 2)
      BY <1>1
  <1>3. /\ \A x \in Seeding!SeedUsers : \E i \in 1..nU : x = UserSeq[i]
        /\ \A x \in Seeding!SeedEvents : \E i \in 1..nE : x = EventSeq[i]
        /\ \A x \in Seeding!SeedPlaces : \E i \in 1..nP : x = PlaceSeq[i]
      BY SeedsAreSequences DEF Seeding!SeedUsers, Seeding!SeedEvents, Seeding!SeedPlaces, Seeding!Elements
  <1> QED
      BY <1>2, <1>3, ScriptIs

SeedTypes ==
  /\ Visitors \subseteq seedUsers /\ seedUsers \subseteq Seeding!People
  /\ capacity \in [Seeding!SeedEvents -> Nat]
  /\ seedCount \in [Seeding!SeedEvents -> Int] /\ tally \in [Seeding!SeedEvents -> Int]
  /\ status \in [Seeding!SeedEvents \X Seeding!People ->
                   {"none", "CONFIRMED", "WAITLISTED", "CANCELLED"}]
  /\ at \in 0..Last /\ moves \in Nat
  /\ at # 0 => outcome = "none"

(* What a statement has left behind, whatever the API did afterwards. *)
Left(s) ==
  /\ s.does = "user" => s.what \in seedUsers
  /\ s.does = "event" => capacity[s.what] # 0
  /\ s.does = "place" => status[s.what] # "none"

(* The statements that this run, or the last one if it ended well, has executed. *)
Executed ==
  /\ \A k \in 1..(at - 1) : Left(Seeding!Script[k])
  /\ outcome = "ok" => \A k \in 1..Last : Left(Seeding!Script[k])

(* Nobody has used the API: the tables hold nothing but what the seed writes. *)
Untouched ==
  moves = 0 =>
    /\ outcome # "failed"
    /\ \A e \in Seeding!SeedEvents :
         capacity[e] \in {0, SeedCapacity[e]} /\ seedCount[e] <= SeedCapacity[e]
    /\ \A e \in Seeding!SeedEvents, u \in Seeding!People :
         \/ status[<<e, u>>] = "none"
         \/ status[<<e, u>>] = "CONFIRMED" /\ <<e, u>> \in Seeding!SeedPlaces

(* Between the subquery and its update nobody changes a row. *)
TallyCurrent ==
  at = Last /\ (moves = 0 \/ ~Online) =>
    \A e \in Seeding!SeedEvents : tally[e] = Seeding!Confirmed(e)

(* After a run that ended well the counters summarise the rows. *)
Derived ==
  outcome = "ok" /\ (moves = 0 \/ ~Online) =>
    \A e \in Seeding!SeedEvents :
      seedCount[e] = Seeding!Confirmed(e) /\ Seeding!Confirmed(e) <= capacity[e]

SeedInv == SeedTypes /\ Executed /\ Untouched /\ TallyCurrent /\ Derived

SeedOK == part = "seed" => SeedInv

(* A sequence has finitely many elements. *)
LEMMA ElementsAreFinite ==
  ASSUME NEW n \in Nat, NEW s, DOMAIN s = 1..n
  PROVE  IsFiniteSet({s[i] : i \in DOMAIN s})
  <1> DEFINE f == [i \in 1..n |-> s[i]]
             T == {s[i] : i \in DOMAIN s}
  <1>1. f \in Surjection(1..n, T)
    <2>1. f \in [1..n -> T]
        OBVIOUS
    <2>2. \A t \in T : \E i \in 1..n : f[i] = t
        OBVIOUS
    <2> QED
        BY <2>1, <2>2 DEF Surjection
  <1> HIDE DEF f
  <1>2. IsFiniteSet(1..n)
      BY FS_Interval
  <1> QED
      BY <1>1, <1>2, FS_Surjection

LEMMA SeedConstants ==
  /\ IsFiniteSet(Seeding!People)
  /\ SeedCapacity \in [Seeding!SeedEvents -> Nat \ {0}] /\ Online \in BOOLEAN
  /\ Seeding!SeedUsers \subseteq Seeding!People /\ Visitors \subseteq Seeding!People
  /\ Seeding!SeedPlaces \subseteq Seeding!SeedEvents \X Seeding!SeedUsers
  /\ \A e \in Seeding!SeedEvents :
       Cardinality({p \in Seeding!SeedPlaces : p[1] = e}) <= SeedCapacity[e]
  <1>1. IsFiniteSet(Seeding!SeedUsers)
    <2>1. nU \in Nat /\ DOMAIN UserSeq = 1..nU
        BY SeedsAreSequences
    <2> QED
        BY <2>1, ElementsAreFinite DEF Seeding!SeedUsers, Seeding!Elements
  <1>2. IsFiniteSet(Visitors)
      BY PartsAreCoherent DEF Seeding!SeedIsCoherent, Seeding!IsFiniteSet, IsFiniteSet
  <1>3. IsFiniteSet(Seeding!People)
      BY <1>1, <1>2, FS_Union DEF Seeding!People
  <1>4. \A e \in Seeding!SeedEvents :
          Seeding!Cardinality({p \in Seeding!SeedPlaces : p[1] = e}) <= SeedCapacity[e]
      BY PartsAreCoherent DEF Seeding!SeedIsCoherent
  <1>5. \A S : Seeding!Cardinality(S) = Cardinality(S)
      BY DEF Seeding!Cardinality, Cardinality
  <1> QED
      BY <1>3, <1>4, <1>5, PartsAreCoherent DEF Seeding!SeedIsCoherent, Seeding!People

(* Who holds a confirmed place. *)
Holders(e) == {u \in Seeding!People : status[<<e, u>>] = "CONFIRMED"}

LEMMA ConfirmedIs ==
  ASSUME NEW e \in Seeding!SeedEvents
  PROVE  /\ Seeding!Confirmed(e) = Cardinality(Holders(e))
         /\ IsFiniteSet(Holders(e)) /\ Seeding!Confirmed(e) \in Nat
  <1>1. Seeding!Confirmed(e) = Cardinality(Holders(e))
      BY DEF Seeding!Confirmed, Holders, Seeding!Cardinality, Cardinality
  <1>2. IsFiniteSet(Holders(e))
      BY SeedConstants, FS_Subset DEF Holders
  <1> QED
      BY <1>1, <1>2, FS_CardinalityType

LEMMA ConfirmedIsNext ==
  ASSUME NEW e \in Seeding!SeedEvents
  PROVE  /\ Seeding!Confirmed(e)' = Cardinality(Holders(e)')
         /\ IsFiniteSet(Holders(e)') /\ Seeding!Confirmed(e)' \in Nat
  <1>1. Seeding!Confirmed(e)' = Cardinality(Holders(e)')
      BY DEF Seeding!Confirmed, Holders, Seeding!Cardinality, Cardinality
  <1>2. IsFiniteSet(Holders(e)')
      BY SeedConstants, FS_Subset DEF Holders
  <1> QED
      BY <1>1, <1>2, FS_CardinalityType

(* Untouched tables hold no more than the seed's places. *)
LEMMA SeedPlacesFit ==
  ASSUME SeedTypes, Untouched, moves = 0, NEW e \in Seeding!SeedEvents
  PROVE  Seeding!Confirmed(e) <= SeedCapacity[e]
  <1> DEFINE Mine == {p \in Seeding!SeedPlaces : p[1] = e}
             f == [u \in Holders(e) |-> <<e, u>>]
  <1>1. f \in Injection(Holders(e), Mine)
    <2>1. \A u \in Holders(e) : <<e, u>> \in Mine
        BY DEF Untouched, Holders
    <2> QED
        BY <2>1 DEF Injection, IsInjective
  <1>2. IsFiniteSet(Mine)
    <2>1. nP \in Nat /\ DOMAIN PlaceSeq = 1..nP
        BY SeedsAreSequences
    <2>2. IsFiniteSet(Seeding!SeedPlaces)
        BY <2>1, ElementsAreFinite DEF Seeding!SeedPlaces, Seeding!Elements
    <2> QED
        BY <2>2, FS_Subset
  <1>3. Cardinality(Holders(e)) <= Cardinality(Mine)
      BY <1>1, <1>2, FS_Injection
  <1>4. Cardinality(Mine) \in Nat /\ Cardinality(Mine) <= SeedCapacity[e] /\ SeedCapacity[e] \in Nat
      BY <1>2, FS_CardinalityType, SeedConstants
  <1> QED
      BY <1>3, <1>4, ConfirmedIs

(* What a statement left behind stays, if its row does. *)
LEMMA LeftStays ==
  ASSUME seedUsers \subseteq seedUsers',
         \A e \in Seeding!SeedEvents : capacity[e] # 0 => capacity'[e] # 0,
         \A p \in Seeding!SeedPlaces : status[p] # "none" => status'[p] # "none"
  PROVE  \A k \in 1..Last : Left(Seeding!Script[k]) => Left(Seeding!Script[k])'
  <1> SUFFICES ASSUME NEW k \in 1..Last, Left(Seeding!Script[k])
               PROVE  Left(Seeding!Script[k])'
      OBVIOUS
  <1>1. /\ Seeding!Script[k].does = "user" => Seeding!Script[k].what \in Seeding!SeedUsers
        /\ Seeding!Script[k].does = "event" => Seeding!Script[k].what \in Seeding!SeedEvents
        /\ Seeding!Script[k].does = "place" => Seeding!Script[k].what \in Seeding!SeedPlaces
      BY ScriptShape
  <1>2. Seeding!Script[k].does = "user" => Seeding!Script[k].what \in seedUsers'
      BY DEF Left
  <1>3. Seeding!Script[k].does = "event" => capacity'[Seeding!Script[k].what] # 0
      BY <1>1 DEF Left
  <1>4. Seeding!Script[k].does = "place" => status'[Seeding!Script[k].what] # "none"
      BY <1>1 DEF Left
  <1> QED
      BY <1>2, <1>3, <1>4 DEF Left

(* A statement that succeeds moves the script on. *)
LEMMA ScriptMovesOn ==
  ASSUME SeedTypes, Executed, at # 0, Seeding!Continues,
         NEW n, n = at, Left(Seeding!Script[n])',
         \A k \in 1..Last : Left(Seeding!Script[k]) => Left(Seeding!Script[k])'
  PROVE  /\ at' \in 0..Last /\ (at' # 0 => outcome' = "none") /\ Executed'
         /\ outcome' = "ok" => at = Last
         /\ outcome' # "failed" /\ (at' = Last => at = Last - 1)
  <1>1. at \in 1..Last /\ Last \in Nat /\ outcome = "none" /\ Last >= 2
      BY ScriptShape DEF SeedTypes
  <1>2. CASE at < Last /\ at' = at + 1 /\ outcome' = outcome
    <2>1. at' \in 0..Last /\ at' - 1 = at /\ (at' = Last => at = Last - 1)
        BY <1>1, <1>2
    <2>2. \A k \in 1..at : k \in 1..(at - 1) \/ k = n
        BY <1>1
    <2>3. \A k \in 1..(at - 1) : k \in 1..Last
        BY <1>1
    <2>4. \A k \in 1..at : Left(Seeding!Script[k])'
        BY <2>2, <2>3 DEF Executed
    <2>5. Executed'
        BY <1>1, <1>2, <2>1, <2>4 DEF Executed
    <2> QED
        BY <1>1, <1>2, <2>1, <2>5
  <1>3. CASE at = Last /\ at' = 0 /\ outcome' = "ok"
    <2>1. \A k \in 1..Last : k \in 1..(at - 1) \/ k = n
        BY <1>1, <1>3
    <2>2. \A k \in 1..Last : Left(Seeding!Script[k])'
        BY <2>1 DEF Executed
    <2>3. \A k \in 1..(at' - 1) : FALSE
        BY <1>3
    <2>4. Executed'
        BY <2>2, <2>3 DEF Executed
    <2> QED
        BY <1>1, <1>3, <2>4
  <1> QED
      BY <1>2, <1>3, ScriptShape DEF Seeding!Continues

(* Tables nobody writes keep their holders. *)
LEMMA SameStatus ==
  ASSUME status' = status, NEW e \in Seeding!SeedEvents
  PROVE  Seeding!Confirmed(e)' = Seeding!Confirmed(e)
  <1>1. Holders(e)' = Holders(e)
      BY DEF Holders
  <1> QED
      BY <1>1, ConfirmedIs, ConfirmedIsNext

LEMMA SeedStarts ==
  ASSUME Seeding!Init
  PROVE  SeedInv
  <1>1. Last \in Nat /\ Last >= 2
      BY ScriptShape
  <1>2. SeedTypes
      BY <1>1, SeedConstants DEF SeedTypes, Seeding!Init
  <1>3. Executed
    <2>1. \A k \in 1..(at - 1) : FALSE
        BY DEF Seeding!Init
    <2> QED
        BY <2>1 DEF Executed, Seeding!Init
  <1>4. Untouched
      BY SeedConstants DEF Untouched, Seeding!Init
  <1>5. TallyCurrent /\ Derived
      BY <1>1 DEF TallyCurrent, Derived, Seeding!Init
  <1> QED
      BY <1>2, <1>3, <1>4, <1>5 DEF SeedInv

(* Starting, and being killed. *)
LEMMA SeedRestarts ==
  ASSUME SeedInv, Seeding!Start \/ Seeding!Killed
  PROVE  SeedInv'
  <1> USE DEF SeedInv
  <1>1. /\ seedUsers' = seedUsers /\ capacity' = capacity /\ seedCount' = seedCount
        /\ status' = status /\ tally' = tally /\ moves' = moves
        /\ at' \in {0, 1} /\ outcome' = "none"
      BY DEF Seeding!Start, Seeding!Killed, Seeding!tables
  <1>2. Last \in Nat /\ Last >= 2
      BY ScriptShape
  <1>3. SeedTypes'
      BY <1>1, <1>2 DEF SeedTypes
  <1>4. Executed'
    <2>1. at' = 0 => \A k \in 1..(at' - 1) : FALSE
        OBVIOUS
    <2>2. at' = 1 => \A k \in 1..(at' - 1) : FALSE
        OBVIOUS
    <2> QED
        BY <1>1, <2>1, <2>2 DEF Executed
  <1>5. Untouched'
      BY <1>1 DEF Untouched
  <1>6. TallyCurrent' /\ Derived'
      BY <1>1, <1>2 DEF TallyCurrent, Derived
  <1> QED
      BY <1>3, <1>4, <1>5, <1>6

(* Which statement a step executes, by its kind. *)
LEMMA StatementAt ==
  ASSUME SeedTypes, NEW kind \in {"user", "event", "place", "count", "reconcile"},
         Seeding!Does(kind)
  PROVE  /\ at \in 1..Last /\ at # 0 /\ outcome = "none" /\ Seeding!Script[at].does = kind
         /\ kind = "user" => at <= Last - 2 /\ Seeding!Script[at].what \in Seeding!SeedUsers
         /\ kind = "event" => at <= Last - 2 /\ Seeding!Script[at].what \in Seeding!SeedEvents
         /\ kind = "place" => at <= Last - 2 /\ Seeding!Script[at].what \in Seeding!SeedPlaces
         /\ kind = "count" => at = Last - 1
         /\ kind = "reconcile" => at = Last
  <1>1. at \in 1..Last /\ outcome = "none" /\ Seeding!Script[at].does = kind
      BY ScriptShape DEF SeedTypes, Seeding!Does, Seeding!Running
  <1> QED
      BY <1>1, ScriptShape

LEMMA UserSeeded ==
  ASSUME SeedInv, Seeding!UpsertUser
  PROVE  SeedInv'
  <1> USE DEF SeedInv
  <1>1. PICK n : n = at
      OBVIOUS
  <1>2. PICK u : u = Seeding!Script[n].what
      OBVIOUS
  <1>3. /\ n \in 1..Last /\ n # 0 /\ outcome = "none" /\ Seeding!Script[n].does = "user"
        /\ n <= Last - 2 /\ u \in Seeding!SeedUsers
      BY <1>1, <1>2, StatementAt DEF Seeding!UpsertUser
  <1>4. /\ seedUsers' = seedUsers \cup {u} /\ capacity' = capacity /\ seedCount' = seedCount
        /\ status' = status /\ tally' = tally /\ moves' = moves
        /\ Seeding!Continues
      BY <1>1, <1>2 DEF Seeding!UpsertUser, Seeding!Subject
  <1>5. \A k \in 1..Last : Left(Seeding!Script[k]) => Left(Seeding!Script[k])'
      BY <1>4, LeftStays
  <1>6. Left(Seeding!Script[n])'
      BY <1>2, <1>3, <1>4 DEF Left
  <1>7. /\ at' \in 0..Last /\ (at' # 0 => outcome' = "none") /\ Executed'
        /\ outcome' # "ok" /\ outcome' # "failed" /\ at' # Last
      BY <1>1, <1>3, <1>4, <1>5, <1>6, ScriptMovesOn, ScriptShape
  <1>8. SeedTypes'
      BY <1>3, <1>4, <1>7, SeedConstants DEF SeedTypes
  <1>9. Untouched'
      BY <1>4, <1>7 DEF Untouched
  <1>10. TallyCurrent' /\ Derived'
      BY <1>7 DEF TallyCurrent, Derived
  <1> QED
      BY <1>7, <1>8, <1>9, <1>10

LEMMA EventSeeded ==
  ASSUME SeedInv, Seeding!UpsertEvent
  PROVE  SeedInv'
  <1> USE DEF SeedInv
  <1>1. PICK n : n = at
      OBVIOUS
  <1>2. PICK e : e = Seeding!Script[n].what
      OBVIOUS
  <1>3. /\ n \in 1..Last /\ n # 0 /\ outcome = "none" /\ Seeding!Script[n].does = "event"
        /\ n <= Last - 2 /\ e \in Seeding!SeedEvents
      BY <1>1, <1>2, StatementAt DEF Seeding!UpsertEvent
  <1>4. /\ seedUsers' = seedUsers /\ seedCount' = seedCount
        /\ status' = status /\ tally' = tally /\ moves' = moves
      BY DEF Seeding!UpsertEvent
  <1>5. SeedCapacity[e] \in Nat \ {0}
      BY <1>3, SeedConstants
  <1>6. CASE capacity' = [capacity EXCEPT ![e] = SeedCapacity[e]] /\ Seeding!Continues
    <2>1. /\ capacity' \in [Seeding!SeedEvents -> Nat] /\ capacity'[e] = SeedCapacity[e]
          /\ \A x \in Seeding!SeedEvents : x # e => capacity'[x] = capacity[x]
        BY <1>3, <1>5, <1>6 DEF SeedTypes
    <2>2. \A k \in 1..Last : Left(Seeding!Script[k]) => Left(Seeding!Script[k])'
        BY <1>4, <1>5, <2>1, LeftStays
    <2>3. Left(Seeding!Script[n])'
        BY <1>2, <1>3, <1>5, <2>1 DEF Left
    <2>4. /\ at' \in 0..Last /\ (at' # 0 => outcome' = "none") /\ Executed'
          /\ outcome' # "ok" /\ outcome' # "failed" /\ at' # Last
        BY <1>1, <1>3, <1>6, <2>2, <2>3, ScriptMovesOn, ScriptShape
    <2>5. SeedTypes'
        BY <1>4, <2>1, <2>4 DEF SeedTypes
    <2>6. Untouched'
        BY <1>4, <2>1, <2>4 DEF Untouched
    <2>7. TallyCurrent' /\ Derived'
        BY <2>4 DEF TallyCurrent, Derived
    <2> QED
        BY <2>4, <2>5, <2>6, <2>7
  <1>7. CASE /\ ~Seeding!Fits(SeedCapacity[e], seedCount[e])
             /\ capacity' = capacity /\ at' = 0 /\ outcome' = "failed"
    <2>1. moves # 0
        BY <1>3, <1>5, <1>7 DEF Untouched, Seeding!Fits
    <2>2. SeedTypes'
        BY <1>4, <1>7, ScriptShape DEF SeedTypes
    <2>3. Executed'
      <3>1. \A k \in 1..(at' - 1) : FALSE
          BY <1>7
      <3> QED
          BY <1>7, <3>1 DEF Executed
    <2>4. Untouched'
        BY <1>4, <2>1 DEF Untouched
    <2>5. TallyCurrent' /\ Derived'
        BY <1>7, ScriptShape DEF TallyCurrent, Derived
    <2> QED
        BY <2>2, <2>3, <2>4, <2>5
  <1> QED
      BY <1>1, <1>2, <1>6, <1>7 DEF Seeding!UpsertEvent, Seeding!Subject, Seeding!Fails

LEMMA PlaceSeeded ==
  ASSUME SeedInv, Seeding!UpsertPlace
  PROVE  SeedInv'
  <1> USE DEF SeedInv
  <1>1. PICK n : n = at
      OBVIOUS
  <1>2. PICK p : p = Seeding!Script[n].what
      OBVIOUS
  <1>3. /\ n \in 1..Last /\ n # 0 /\ outcome = "none" /\ Seeding!Script[n].does = "place"
        /\ n <= Last - 2 /\ p \in Seeding!SeedPlaces
      BY <1>1, <1>2, StatementAt DEF Seeding!UpsertPlace
  <1>4. /\ seedUsers' = seedUsers /\ capacity' = capacity /\ seedCount' = seedCount
        /\ tally' = tally /\ moves' = moves
        /\ status' = [status EXCEPT ![p] = "CONFIRMED"] /\ Seeding!Continues
      BY <1>1, <1>2 DEF Seeding!UpsertPlace, Seeding!Subject
  <1>5. Seeding!SeedPlaces \subseteq Seeding!SeedEvents \X Seeding!People
      BY SeedConstants
  <1>6. /\ status' \in [Seeding!SeedEvents \X Seeding!People ->
                          {"none", "CONFIRMED", "WAITLISTED", "CANCELLED"}]
        /\ status'[p] = "CONFIRMED"
        /\ \A q \in Seeding!SeedEvents \X Seeding!People : q # p => status'[q] = status[q]
      BY <1>3, <1>4, <1>5 DEF SeedTypes
  <1>7. \A k \in 1..Last : Left(Seeding!Script[k]) => Left(Seeding!Script[k])'
    <2>1. \A q \in Seeding!SeedPlaces : status[q] # "none" => status'[q] # "none"
        BY <1>5, <1>6
    <2> QED
        BY <1>4, <2>1, LeftStays
  <1>8. Left(Seeding!Script[n])'
      BY <1>2, <1>3, <1>6 DEF Left
  <1>9. /\ at' \in 0..Last /\ (at' # 0 => outcome' = "none") /\ Executed'
        /\ outcome' # "ok" /\ outcome' # "failed" /\ at' # Last
      BY <1>1, <1>3, <1>4, <1>7, <1>8, ScriptMovesOn, ScriptShape
  <1>10. SeedTypes'
      BY <1>4, <1>6, <1>9 DEF SeedTypes
  <1>11. Untouched'
    <2>1. ASSUME NEW e \in Seeding!SeedEvents, NEW u \in Seeding!People, moves = 0
          PROVE  \/ status'[<<e, u>>] = "none"
                 \/ status'[<<e, u>>] = "CONFIRMED" /\ <<e, u>> \in Seeding!SeedPlaces
      <3>1. CASE <<e, u>> = p
          BY <1>3, <1>6, <3>1
      <3>2. CASE <<e, u>> # p
          BY <1>6, <2>1, <3>2 DEF Untouched
      <3> QED
          BY <3>1, <3>2
    <2> QED
        BY <1>4, <1>9, <2>1 DEF Untouched
  <1>12. TallyCurrent' /\ Derived'
      BY <1>9 DEF TallyCurrent, Derived
  <1> QED
      BY <1>9, <1>10, <1>11, <1>12

LEMMA RowsCounted ==
  ASSUME SeedInv, Seeding!CountRows
  PROVE  SeedInv'
  <1> USE DEF SeedInv
  <1>1. PICK n : n = at
      OBVIOUS
  <1>2. /\ n \in 1..Last /\ n # 0 /\ outcome = "none" /\ Seeding!Script[n].does = "count"
        /\ n = Last - 1
      BY <1>1, StatementAt DEF Seeding!CountRows
  <1>3. /\ seedUsers' = seedUsers /\ capacity' = capacity /\ seedCount' = seedCount
        /\ status' = status /\ moves' = moves /\ Seeding!Continues
        /\ tally' = [e \in Seeding!SeedEvents |-> Seeding!Confirmed(e)]
      BY DEF Seeding!CountRows, Seeding!tables, Seeding!Tally
  <1>4. \A k \in 1..Last : Left(Seeding!Script[k]) => Left(Seeding!Script[k])'
      BY <1>3, LeftStays
  <1>5. Left(Seeding!Script[n])'
      BY <1>2 DEF Left
  <1>6. /\ at' \in 0..Last /\ (at' # 0 => outcome' = "none") /\ Executed'
        /\ outcome' # "ok" /\ outcome' # "failed"
      BY <1>1, <1>2, <1>3, <1>4, <1>5, ScriptMovesOn, ScriptShape
  <1>7. SeedTypes'
    <2>1. tally' \in [Seeding!SeedEvents -> Int]
        BY <1>3, ConfirmedIs
    <2> QED
        BY <1>3, <1>6, <2>1 DEF SeedTypes
  <1>8. Untouched'
      BY <1>3, <1>6 DEF Untouched
  <1>9. TallyCurrent'
      BY <1>3, SameStatus DEF TallyCurrent
  <1>10. Derived'
      BY <1>6 DEF Derived
  <1> QED
      BY <1>6, <1>7, <1>8, <1>9, <1>10

LEMMA CountsWritten ==
  ASSUME SeedInv, Seeding!WriteCounts
  PROVE  SeedInv'
  <1> USE DEF SeedInv
  <1>1. PICK n : n = at
      OBVIOUS
  <1>2. /\ n \in 1..Last /\ n # 0 /\ outcome = "none" /\ Seeding!Script[n].does = "reconcile"
        /\ n = Last
      BY <1>1, StatementAt DEF Seeding!WriteCounts
  <1>3. /\ seedUsers' = seedUsers /\ capacity' = capacity /\ tally' = tally
        /\ status' = status /\ moves' = moves
      BY DEF Seeding!WriteCounts
  <1>4. \A e \in Seeding!SeedEvents :
          /\ tally[e] \in Int /\ capacity[e] \in Nat /\ SeedCapacity[e] \in Nat \ {0}
          /\ Seeding!Confirmed(e) \in Nat /\ Seeding!Confirmed(e)' = Seeding!Confirmed(e)
      BY <1>3, ConfirmedIs, SameStatus, SeedConstants DEF SeedTypes
  <1>5. ASSUME NEW e \in Seeding!SeedEvents, moves = 0
        PROVE  tally[e] <= SeedCapacity[e]
      BY <1>1, <1>2, <1>4, <1>5, SeedPlacesFit DEF TallyCurrent
  <1>6. CASE /\ \A e \in Seeding!SeedEvents : Seeding!Fits(capacity[e], tally[e])
             /\ seedCount' = tally /\ Seeding!Continues
    <2>1. \A k \in 1..Last : Left(Seeding!Script[k]) => Left(Seeding!Script[k])'
        BY <1>3, LeftStays
    <2>2. Left(Seeding!Script[n])'
        BY <1>2 DEF Left
    <2>3. /\ at' \in 0..Last /\ (at' # 0 => outcome' = "none") /\ Executed'
          /\ outcome' # "failed" /\ at' # Last
        BY <1>1, <1>2, <1>6, <2>1, <2>2, ScriptMovesOn, ScriptShape
    <2>4. SeedTypes'
        BY <1>3, <1>6, <2>3 DEF SeedTypes
    <2>5. Untouched'
      <3>1. \A e \in Seeding!SeedEvents : moves = 0 => seedCount'[e] <= SeedCapacity[e]
          BY <1>5, <1>6
      <3> QED
          BY <1>3, <2>3, <3>1 DEF Untouched
    <2>6. TallyCurrent'
        BY <2>3 DEF TallyCurrent
    <2>7. Derived'
      <3> SUFFICES ASSUME moves = 0 \/ ~Online, NEW e \in Seeding!SeedEvents
                   PROVE  /\ seedCount'[e] = Seeding!Confirmed(e)'
                          /\ Seeding!Confirmed(e)' <= capacity'[e]
          BY <1>3 DEF Derived
      <3>1. seedCount'[e] = Seeding!Confirmed(e)
          BY <1>1, <1>2, <1>6 DEF TallyCurrent
      <3>2. PICK k \in 1..(Last - 2) : Seeding!Script[k] = [does |-> "event", what |-> e]
          BY ScriptIsComplete
      <3>3. k \in 1..(at - 1)
          BY <1>1, <1>2, <3>2, ScriptShape
      <3>4. capacity[e] # 0
          BY <3>2, <3>3 DEF Executed, Left
      <3>5. Seeding!Confirmed(e) <= capacity[e]
          BY <1>4, <1>6, <3>1, <3>4 DEF Seeding!Fits
      <3> QED
          BY <1>3, <1>4, <3>1, <3>5
    <2> QED
        BY <2>3, <2>4, <2>5, <2>6, <2>7
  <1>7. CASE /\ \E e \in Seeding!SeedEvents : ~Seeding!Fits(capacity[e], tally[e])
             /\ seedCount' = seedCount /\ at' = 0 /\ outcome' = "failed"
    <2>1. moves # 0
      <3> SUFFICES ASSUME moves = 0 PROVE FALSE
          OBVIOUS
      <3>1. PICK e \in Seeding!SeedEvents : ~Seeding!Fits(capacity[e], tally[e])
          BY <1>7
      <3>2. capacity[e] \in {0, SeedCapacity[e]} /\ tally[e] <= SeedCapacity[e]
          BY <1>5 DEF Untouched
      <3> QED
          BY <3>1, <3>2 DEF Seeding!Fits
    <2>2. SeedTypes'
        BY <1>3, <1>7, ScriptShape DEF SeedTypes
    <2>3. Executed'
      <3>1. \A k \in 1..(at' - 1) : FALSE
          BY <1>7
      <3> QED
          BY <1>7, <3>1 DEF Executed
    <2>4. Untouched'
        BY <1>3, <2>1 DEF Untouched
    <2>5. TallyCurrent' /\ Derived'
        BY <1>7, ScriptShape DEF TallyCurrent, Derived
    <2> QED
        BY <2>2, <2>3, <2>4, <2>5
  <1> QED
      BY <1>6, <1>7 DEF Seeding!WriteCounts, Seeding!Fails

(* A transaction of the API: what it must do to keep the invariant. *)
LEMMA ServedWell ==
  ASSUME SeedInv, Seeding!Serves,
         capacity' \in [Seeding!SeedEvents -> Nat],
         seedCount' \in [Seeding!SeedEvents -> Int],
         status' \in [Seeding!SeedEvents \X Seeding!People ->
                        {"none", "CONFIRMED", "WAITLISTED", "CANCELLED"}],
         \A e \in Seeding!SeedEvents : capacity[e] # 0 => capacity'[e] # 0,
         \A p \in Seeding!SeedEvents \X Seeding!People : status[p] # "none" => status'[p] # "none",
         \A e \in Seeding!SeedEvents :
           seedCount[e] = Seeding!Confirmed(e) /\ Seeding!Confirmed(e) <= capacity[e]
             => seedCount'[e] = Seeding!Confirmed(e)' /\ Seeding!Confirmed(e)' <= capacity'[e]
  PROVE  SeedInv'
  <1> USE DEF SeedInv
  <1>1. /\ seedUsers' = seedUsers /\ at' = at /\ tally' = tally /\ outcome' = outcome
        /\ moves' = moves + 1 /\ (at = 0 \/ Online)
      BY DEF Seeding!Serves, Seeding!Running
  <1>2. moves' \in Nat /\ moves' # 0
      BY <1>1 DEF SeedTypes
  <1>3. SeedTypes'
      BY <1>1, <1>2 DEF SeedTypes
  <1>4. \A k \in 1..Last : Left(Seeding!Script[k]) => Left(Seeding!Script[k])'
    <2>1. Seeding!SeedPlaces \subseteq Seeding!SeedEvents \X Seeding!People
        BY SeedConstants
    <2> QED
        BY <1>1, <2>1, LeftStays
  <1>5. Executed'
    <2>1. \A k \in 1..(at - 1) : k \in 1..Last
        BY ScriptShape DEF SeedTypes
    <2> QED
        BY <1>1, <1>4, <2>1 DEF Executed
  <1>6. Untouched'
      BY <1>2 DEF Untouched
  <1>7. TallyCurrent'
      BY <1>1, <1>2, ScriptShape DEF TallyCurrent
  <1>8. Derived'
      BY <1>1, <1>2 DEF Derived
  <1> QED
      BY <1>3, <1>5, <1>6, <1>7, <1>8

(* An update of one event's rows leaves the other events' holders alone. *)
LEMMA OtherHolders ==
  ASSUME NEW e \in Seeding!SeedEvents, NEW x \in Seeding!SeedEvents, x # e,
         \A u \in Seeding!People : status'[<<x, u>>] = status[<<x, u>>]
  PROVE  Seeding!Confirmed(x)' = Seeding!Confirmed(x)
  <1>1. Holders(x)' = Holders(x)
      BY DEF Holders
  <1> QED
      BY <1>1, ConfirmedIs, ConfirmedIsNext

(* Someone joins: the place and the counter, or the queue. *)
LEMMA JoinServed ==
  ASSUME SeedInv, NEW e \in Seeding!SeedEvents, NEW u \in Seeding!People, Seeding!Join(e, u)
  PROVE  SeedInv'
  <1> USE DEF SeedInv
  <1>1. /\ Seeding!Serves /\ capacity' = capacity
        /\ status[<<e, u>>] \in {"none", "CANCELLED"}
      BY DEF Seeding!Join
  <1>2. PICK s \in {"CONFIRMED", "WAITLISTED"} : status' = [status EXCEPT ![<<e, u>>] = s]
      BY DEF Seeding!Join
  <1>3. /\ status' \in [Seeding!SeedEvents \X Seeding!People ->
                          {"none", "CONFIRMED", "WAITLISTED", "CANCELLED"}]
        /\ status'[<<e, u>>] = s
        /\ \A p \in Seeding!SeedEvents \X Seeding!People : p # <<e, u>> => status'[p] = status[p]
      BY <1>2 DEF SeedTypes
  <1>4. seedCount' \in [Seeding!SeedEvents -> Int]
      BY DEF Seeding!Join, SeedTypes
  <1>5. \A p \in Seeding!SeedEvents \X Seeding!People : status[p] # "none" => status'[p] # "none"
      BY <1>3
  <1>6. /\ seedCount[e] \in Int /\ capacity[e] \in Nat
        /\ Seeding!Confirmed(e) \in Nat /\ Seeding!Confirmed(e)' \in Nat
      BY ConfirmedIs, ConfirmedIsNext DEF SeedTypes
  <1>7. ASSUME seedCount[e] = Seeding!Confirmed(e), Seeding!Confirmed(e) <= capacity[e]
        PROVE  seedCount'[e] = Seeding!Confirmed(e)' /\ Seeding!Confirmed(e)' <= capacity'[e]
    <2>1. CASE /\ seedCount[e] < capacity[e]
               /\ status' = [status EXCEPT ![<<e, u>>] = "CONFIRMED"]
               /\ seedCount' = [seedCount EXCEPT ![e] = @ + 1]
      <3>1. status'[<<e, u>>] = "CONFIRMED" /\ seedCount'[e] = seedCount[e] + 1
          BY <2>1 DEF SeedTypes
      <3>2. u \notin Holders(e) /\ Holders(e)' = Holders(e) \cup {u}
          BY <1>1, <1>3, <3>1 DEF Holders
      <3>3. Seeding!Confirmed(e)' = Seeding!Confirmed(e) + 1
          BY <3>2, ConfirmedIs, ConfirmedIsNext, FS_AddElement
      <3> QED
          BY <1>1, <1>6, <1>7, <2>1, <3>1, <3>3
    <2>2. CASE /\ status' = [status EXCEPT ![<<e, u>>] = "WAITLISTED"] /\ seedCount' = seedCount
      <3>1. status'[<<e, u>>] = "WAITLISTED"
          BY <2>2 DEF SeedTypes
      <3>2. Holders(e)' = Holders(e)
          BY <1>1, <1>3, <3>1 DEF Holders
      <3>3. Seeding!Confirmed(e)' = Seeding!Confirmed(e)
          BY <3>2, ConfirmedIs, ConfirmedIsNext
      <3> QED
          BY <1>1, <1>7, <2>2, <3>3
    <2> QED
        BY <2>1, <2>2 DEF Seeding!Join
  <1>8. ASSUME NEW x \in Seeding!SeedEvents, x # e
        PROVE  Seeding!Confirmed(x)' = Seeding!Confirmed(x) /\ seedCount'[x] = seedCount[x]
    <2>1. \A w \in Seeding!People : status'[<<x, w>>] = status[<<x, w>>]
        BY <1>3, <1>8
    <2>2. seedCount'[x] = seedCount[x]
        BY <1>8 DEF Seeding!Join, SeedTypes
    <2> QED
        BY <1>8, <2>1, <2>2, OtherHolders
  <1>9. \A x \in Seeding!SeedEvents :
          seedCount[x] = Seeding!Confirmed(x) /\ Seeding!Confirmed(x) <= capacity[x]
            => seedCount'[x] = Seeding!Confirmed(x)' /\ Seeding!Confirmed(x)' <= capacity'[x]
    <2> TAKE x \in Seeding!SeedEvents
    <2>1. CASE x = e
        BY <1>7, <2>1
    <2>2. CASE x # e
        BY <1>1, <1>8, <2>2
    <2> QED
        BY <2>1, <2>2
  <1>10. capacity' \in [Seeding!SeedEvents -> Nat]
      BY <1>1 DEF SeedTypes
  <1> QED
      BY <1>1, <1>3, <1>4, <1>5, <1>9, <1>10, ServedWell

(* Someone leaves: the counter goes down, or the place to whom waits. *)
LEMMA LeaveServed ==
  ASSUME SeedInv, NEW e \in Seeding!SeedEvents, NEW u \in Seeding!People, Seeding!Leave(e, u)
  PROVE  SeedInv'
  <1> USE DEF SeedInv
  <1>1. /\ Seeding!Serves /\ capacity' = capacity /\ status[<<e, u>>] = "CONFIRMED"
      BY DEF Seeding!Leave
  <1>2. /\ seedCount[e] \in Int /\ capacity[e] \in Nat
        /\ Seeding!Confirmed(e) \in Nat /\ Seeding!Confirmed(e)' \in Nat
      BY ConfirmedIs, ConfirmedIsNext DEF SeedTypes
  <1>3. u \in Holders(e)
      BY <1>1 DEF Holders
  <1> DEFINE Passed ==
               /\ status' \in [Seeding!SeedEvents \X Seeding!People ->
                                 {"none", "CONFIRMED", "WAITLISTED", "CANCELLED"}]
               /\ seedCount' \in [Seeding!SeedEvents -> Int]
               /\ \A p \in Seeding!SeedEvents \X Seeding!People : status[p] # "none" => status'[p] # "none"
               /\ \A x \in Seeding!SeedEvents, w \in Seeding!People :
                    x # e => status'[<<x, w>>] = status[<<x, w>>]
               /\ \A x \in Seeding!SeedEvents : x # e => seedCount'[x] = seedCount[x]
               /\ \/ seedCount'[e] = seedCount[e] - 1 /\ Seeding!Confirmed(e)' = Seeding!Confirmed(e) - 1
                  \/ seedCount'[e] = seedCount[e] /\ Seeding!Confirmed(e)' = Seeding!Confirmed(e)
  <1>4. Passed
    <2>1. CASE /\ status' = [status EXCEPT ![<<e, u>>] = "CANCELLED"]
               /\ seedCount' = [seedCount EXCEPT ![e] = @ - 1]
      <3>1. /\ status' \in [Seeding!SeedEvents \X Seeding!People ->
                              {"none", "CONFIRMED", "WAITLISTED", "CANCELLED"}]
            /\ status'[<<e, u>>] = "CANCELLED"
            /\ \A p \in Seeding!SeedEvents \X Seeding!People :
                 p # <<e, u>> => status'[p] = status[p]
          BY <2>1 DEF SeedTypes
      <3>2. /\ seedCount' \in [Seeding!SeedEvents -> Int] /\ seedCount'[e] = seedCount[e] - 1
            /\ \A x \in Seeding!SeedEvents : x # e => seedCount'[x] = seedCount[x]
          BY <2>1 DEF SeedTypes
      <3>3. Holders(e)' = Holders(e) \ {u}
          BY <3>1 DEF Holders
      <3>4. Seeding!Confirmed(e)' = Seeding!Confirmed(e) - 1
          BY <1>3, <3>3, ConfirmedIs, ConfirmedIsNext, FS_RemoveElement
      <3> QED
          BY <3>1, <3>2, <3>4
    <2>2. ASSUME NEW w \in Seeding!People, status[<<e, w>>] = "WAITLISTED",
                 status' = [status EXCEPT ![<<e, u>>] = "CANCELLED", ![<<e, w>>] = "CONFIRMED"],
                 seedCount' = seedCount
          PROVE  Passed
      <3>1. /\ status' \in [Seeding!SeedEvents \X Seeding!People ->
                              {"none", "CONFIRMED", "WAITLISTED", "CANCELLED"}]
            /\ status'[<<e, u>>] = "CANCELLED" /\ status'[<<e, w>>] = "CONFIRMED"
            /\ \A p \in Seeding!SeedEvents \X Seeding!People :
                 p # <<e, u>> /\ p # <<e, w>> => status'[p] = status[p]
          BY <1>1, <2>2 DEF SeedTypes
      <3>2. w \notin Holders(e) /\ w # u
          BY <1>1, <2>2 DEF Holders
      <3>3. Holders(e)' = (Holders(e) \ {u}) \cup {w}
          BY <3>1, <3>2 DEF Holders
      <3>4. Seeding!Confirmed(e)' = Seeding!Confirmed(e)
        <4>1. /\ IsFiniteSet(Holders(e) \ {u})
              /\ Cardinality(Holders(e) \ {u}) = Cardinality(Holders(e)) - 1
            BY <1>3, ConfirmedIs, FS_RemoveElement
        <4>2. Cardinality((Holders(e) \ {u}) \cup {w}) = Cardinality(Holders(e) \ {u}) + 1
            BY <3>2, <4>1, FS_AddElement
        <4> QED
            BY <1>2, <3>3, <4>1, <4>2, ConfirmedIs, ConfirmedIsNext
      <3>5. seedCount' \in [Seeding!SeedEvents -> Int]
          BY <2>2 DEF SeedTypes
      <3> QED
          BY <2>2, <3>1, <3>4, <3>5
    <2> QED
        BY <2>1, <2>2 DEF Seeding!Leave
  <1>5. \A x \in Seeding!SeedEvents :
          seedCount[x] = Seeding!Confirmed(x) /\ Seeding!Confirmed(x) <= capacity[x]
            => seedCount'[x] = Seeding!Confirmed(x)' /\ Seeding!Confirmed(x)' <= capacity'[x]
    <2> TAKE x \in Seeding!SeedEvents
    <2>1. CASE x = e
        BY <1>1, <1>2, <1>4, <2>1
    <2>2. CASE x # e
      <3>1. Seeding!Confirmed(x)' = Seeding!Confirmed(x)
          BY <1>4, <2>2, OtherHolders
      <3> QED
          BY <1>1, <1>4, <2>2, <3>1
    <2> QED
        BY <2>1, <2>2
  <1>6. capacity' \in [Seeding!SeedEvents -> Nat]
      BY <1>1 DEF SeedTypes
  <1> QED
      BY <1>1, <1>4, <1>5, <1>6, ServedWell

LEMMA ResizeServed ==
  ASSUME SeedInv, NEW e \in Seeding!SeedEvents,
         NEW c \in {SeedCapacity[e], SeedCapacity[e] + 1}, Seeding!Resize(e, c)
  PROVE  SeedInv'
  <1> USE DEF SeedInv
  <1>1. /\ Seeding!Serves /\ c >= seedCount[e] /\ capacity' = [capacity EXCEPT ![e] = c]
        /\ seedCount' = seedCount /\ status' = status
      BY DEF Seeding!Resize
  <1>2. c \in Nat /\ c # 0
      BY SeedConstants
  <1>3. /\ capacity' \in [Seeding!SeedEvents -> Nat] /\ capacity'[e] = c
        /\ \A x \in Seeding!SeedEvents : x # e => capacity'[x] = capacity[x]
      BY <1>1, <1>2 DEF SeedTypes
  <1>4. \A x \in Seeding!SeedEvents :
          seedCount[x] = Seeding!Confirmed(x) /\ Seeding!Confirmed(x) <= capacity[x]
            => seedCount'[x] = Seeding!Confirmed(x)' /\ Seeding!Confirmed(x)' <= capacity'[x]
      BY <1>1, <1>3, SameStatus
  <1>5. \A x \in Seeding!SeedEvents : capacity[x] # 0 => capacity'[x] # 0
      BY <1>2, <1>3
  <1>6. /\ seedCount' \in [Seeding!SeedEvents -> Int]
        /\ status' \in [Seeding!SeedEvents \X Seeding!People ->
                          {"none", "CONFIRMED", "WAITLISTED", "CANCELLED"}]
        /\ \A p \in Seeding!SeedEvents \X Seeding!People : status[p] # "none" => status'[p] # "none"
      BY <1>1 DEF SeedTypes
  <1> QED
      BY <1>1, <1>3, <1>4, <1>5, <1>6, ServedWell

LEMMA SeedStep ==
  ASSUME SeedInv, [Seeding!Next]_seedVars
  PROVE  SeedInv'
  <1>1. CASE Seeding!Start \/ Seeding!Killed
      BY <1>1, SeedRestarts
  <1>2. CASE Seeding!UpsertUser
      BY <1>2, UserSeeded
  <1>3. CASE Seeding!UpsertEvent
      BY <1>3, EventSeeded
  <1>4. CASE Seeding!UpsertPlace
      BY <1>4, PlaceSeeded
  <1>5. CASE Seeding!CountRows
      BY <1>5, RowsCounted
  <1>6. CASE Seeding!WriteCounts
      BY <1>6, CountsWritten
  <1>7. ASSUME NEW e \in Seeding!SeedEvents, NEW u \in Seeding!People,
               Seeding!Join(e, u) \/ Seeding!Leave(e, u)
        PROVE  SeedInv'
      BY <1>7, JoinServed, LeaveServed
  <1>8. ASSUME NEW e \in Seeding!SeedEvents,
               NEW c \in {SeedCapacity[e], SeedCapacity[e] + 1}, Seeding!Resize(e, c)
        PROVE  SeedInv'
      BY <1>8, ResizeServed
  <1>9. CASE UNCHANGED seedVars
    <2>1. /\ seedUsers' = seedUsers /\ capacity' = capacity /\ seedCount' = seedCount
          /\ status' = status /\ at' = at /\ tally' = tally /\ outcome' = outcome
          /\ moves' = moves
        BY <1>9 DEF seedVars
    <2>2. \A e \in Seeding!SeedEvents : Seeding!Confirmed(e)' = Seeding!Confirmed(e)
        BY <2>1, SameStatus
    <2>3. SeedTypes' /\ Untouched'
        BY <2>1 DEF SeedInv, SeedTypes, Untouched
    <2>4. Executed'
        BY <2>1 DEF SeedInv, Executed, Left
    <2>5. TallyCurrent' /\ Derived'
        BY <2>1, <2>2 DEF SeedInv, TallyCurrent, Derived
    <2> QED
        BY <2>3, <2>4, <2>5 DEF SeedInv
  <1> QED
      BY <1>1, <1>2, <1>3, <1>4, <1>5, <1>6, <1>7, <1>8, <1>9 DEF Seeding!Next

(* What the invariant says of a run that ended well.                       *)
LEMMA SeedInvShowsConverged ==
  ASSUME SeedInv
  PROVE  Seeding!SeedConverges
  <1> USE DEF SeedInv
  <1>1. /\ SeedCapacity \in [Seeding!SeedEvents -> Nat \ {0}]
        /\ Seeding!SeedPlaces \subseteq Seeding!SeedEvents \X Seeding!SeedUsers
        /\ Seeding!SeedUsers \subseteq Seeding!People
      BY SeedConstants
  <1>2. Seeding!CountsDerived
      BY DEF Derived, Seeding!CountsDerived, Seeding!CountsAgree
  <1>3. ASSUME moves = 0, outcome = "ok"
        PROVE  /\ seedUsers = Seeding!People /\ capacity = SeedCapacity /\ Seeding!CountsAgree
               /\ \A e \in Seeding!SeedEvents, u \in Seeding!People :
                    status[<<e, u>>] = IF <<e, u>> \in Seeding!SeedPlaces THEN "CONFIRMED" ELSE "none"
    <2>1. \A k \in 1..(Last - 2) : Left(Seeding!Script[k])
      <3>1. \A k \in 1..(Last - 2) : k \in 1..Last
          BY ScriptShape
      <3> QED
          BY <1>3, <3>1 DEF Executed
    <2>2. \A x \in Seeding!SeedUsers : x \in seedUsers
      <3> TAKE x \in Seeding!SeedUsers
      <3>1. PICK k \in 1..(Last - 2) : Seeding!Script[k] = [does |-> "user", what |-> x]
          BY ScriptIsComplete
      <3> QED
          BY <2>1, <3>1 DEF Left
    <2>3. \A x \in Seeding!SeedEvents : capacity[x] # 0
      <3> TAKE x \in Seeding!SeedEvents
      <3>1. PICK k \in 1..(Last - 2) : Seeding!Script[k] = [does |-> "event", what |-> x]
          BY ScriptIsComplete
      <3> QED
          BY <2>1, <3>1 DEF Left
    <2>4. \A x \in Seeding!SeedPlaces : status[x] # "none"
      <3> TAKE x \in Seeding!SeedPlaces
      <3>1. PICK k \in 1..(Last - 2) : Seeding!Script[k] = [does |-> "place", what |-> x]
          BY ScriptIsComplete
      <3> QED
          BY <2>1, <3>1 DEF Left
    <2>5. seedUsers = Seeding!People
        BY <2>2 DEF SeedTypes, Seeding!People
    <2>6. capacity = SeedCapacity
      <3>1. \A e \in Seeding!SeedEvents : capacity[e] = SeedCapacity[e]
          BY <1>3, <2>3 DEF Untouched
      <3> QED
          BY <1>1, <3>1 DEF SeedTypes
    <2>7. Seeding!CountsAgree
        BY <1>3 DEF Derived, Seeding!CountsAgree
    <2>8. \A e \in Seeding!SeedEvents, u \in Seeding!People :
            status[<<e, u>>] = IF <<e, u>> \in Seeding!SeedPlaces THEN "CONFIRMED" ELSE "none"
        BY <1>3, <2>4 DEF Untouched
    <2> QED
        BY <2>5, <2>6, <2>7, <2>8
  <1>4. Seeding!SeedRepairsItself
      BY <1>3 DEF Untouched, Seeding!SeedRepairsItself
  <1> QED
      BY <1>2, <1>4 DEF Seeding!SeedConverges

(* "running it twice produces the same database" (prisma/seed.ts), for     *)
(* every script and every number of kills: while nobody has used the API   *)
(* no run of the seed fails and a run that ends leaves the one database    *)
(* there is; and after people have, the counters a run that ended leaves   *)
(* behind are those its rows say, within every capacity.                   *)
THEOREM SeedsConverge == Spec => []SeedConverges
  <1>1. Init => SeedOK
      BY SeedStarts DEF Init, SeedOK
  <1>2. SeedOK /\ [Next]_vars => SeedOK'
      BY SeedMoves, SeedStep DEF SeedOK
  <1>3. SeedOK => SeedConverges
      BY SeedInvShowsConverged DEF SeedOK, SeedConverges
  <1> QED
      BY <1>1, <1>2, <1>3, PTL DEF Spec

-----------------------------------------------------------------------------
(* The listing.                                                            *)

(* What the query selects now, and the place of an event in it.            *)
Feed == Listing!Listing(table, query, listNow)
Place(tbl, S, e) == 1 + Cardinality({d \in S : Listing!Precedes(tbl, d, e)})
Covered == query.page * query.limit
OnPage(e) == \E i \in DOMAIN data : data[i] = e

ListingTypes ==
  /\ table \in [Events -> Rows \cup {Absent}] /\ listNow \in Nat
  /\ query \in Listing!Query /\ opened \in Int
  /\ phase \in {"ask", "count", "shown", "end", "refused"}
  /\ data \in Seq(Events) /\ total \in Nat
  /\ seen \in [Events -> Nat]
  /\ phase = "ask" => query.page = opened \/ Listing!Valid(query)
  /\ phase \in {"count", "shown"} => Listing!Valid(query)
  /\ phase = "count" => \A i, j \in DOMAIN data : data[i] = data[j] => i = j

(* The history follows the table. *)
HistoryOK ==
  /\ steady \subseteq Feed
  /\ came = {} /\ left = {} => steady = Feed

(* While nothing left or moved, what stayed and was not shown is still to  *)
(* come: its place can only have risen.                                    *)
StillToCome(e) ==
  /\ phase = "ask" => Place(table, Feed, e) > Listing!Skip(query)
  /\ phase = "count" => OnPage(e) \/ Place(table, Feed, e) > Covered
  /\ phase = "shown" => Place(table, Feed, e) > Covered /\ total > Covered
  /\ phase # "end"

(* While nothing came or moved, what was shown is behind the reader: its   *)
(* place can only have fallen.                                             *)
Behind(e) ==
  /\ seen[e] <= 1
  /\ phase = "ask" /\ seen[e] = 1 /\ e \in Feed => Place(table, Feed, e) <= Listing!Skip(query)
  /\ phase = "count" =>
       /\ OnPage(e) => seen[e] = 0
       /\ OnPage(e) \/ seen[e] = 1 => (e \in Feed => Place(table, Feed, e) <= Covered)
  /\ phase = "shown" /\ seen[e] = 1 /\ e \in Feed => Place(table, Feed, e) <= Covered

WalkOK ==
  /\ ListingTypes /\ HistoryOK
  /\ opened = 1 /\ left = {} => \A e \in steady : seen[e] = 0 => StillToCome(e)
  /\ came = {} => \A e \in Events : Behind(e)

WalkInv == part = "listing" => WalkOK

-----------------------------------------------------------------------------

(* While the listing is the part that moves, its steps are all there are.  *)
LEMMA ListingMoves ==
  ASSUME [Next]_vars, part' = "listing"
  PROVE  part = "listing" /\ [Listing!Next]_listingVars
  BY DEF Next, vars, listingVars

(* The component counts and sorts as anybody does. *)
LEMMA ListingSorts ==
  /\ \A S : Listing!Cardinality(S) = Cardinality(S)
  /\ \A S, order : Listing!Sorted(S, order) = Sorted(S, order)
  /\ IsFiniteSet(Events) /\ Events \subseteq Nat
  <1>1. \A S : Listing!Cardinality(S) = Cardinality(S)
      BY DEF Listing!Cardinality, Cardinality
  <1>2. \A S : Listing!IsFiniteSet(S) <=> IsFiniteSet(S)
      BY DEF Listing!IsFiniteSet, IsFiniteSet
  <1>3. \A S, order : Listing!Sorted(S, order) = Sorted(S, order)
      BY <1>1 DEF Listing!Sorted, Sorted
  <1> QED
      BY <1>1, <1>2, <1>3, PartsAreCoherent DEF Listing!ListingParameters

(* What is in the feed is an event that is there. *)
LEMMA FeedIs ==
  ASSUME NEW tbl \in [Events -> Rows \cup {Absent}], NEW q, NEW t,
         NEW S, S = Listing!Listing(tbl, q, t)
  PROVE  /\ S \subseteq Events /\ IsFiniteSet(S) /\ Cardinality(S) \in Nat
         /\ \A e \in S : tbl[e].startsAt \in Nat
  <1>1. S \in SUBSET Events /\ \A e \in S : tbl[e] # Absent
      BY DEF Listing!Listing, Listing!Matches
  <1>2. IsFiniteSet(S) /\ Cardinality(S) \in Nat
      BY <1>1, ListingSorts, FS_Subset, FS_CardinalityType
  <1>3. \A row1 \in Rows : row1.startsAt \in Nat
      BY PartsAreCoherent DEF Listing!ListingParameters, Listing!Row
  <1> QED
      BY <1>1, <1>2, <1>3

(* A place counts some of the events. *)
LEMMA PlaceIs ==
  ASSUME NEW tbl, NEW S, IsFiniteSet(S), NEW e
  PROVE  Place(tbl, S, e) \in Nat \ {0}
  <1>1. {d \in S : Listing!Precedes(tbl, d, e)} \in SUBSET S
      OBVIOUS
  <1>2. Cardinality({d \in S : Listing!Precedes(tbl, d, e)}) \in Nat
      BY <1>1, FS_Subset, FS_CardinalityType
  <1> QED
      BY <1>2 DEF Place

(* While others come but none leaves or moves, places only rise; read      *)
(* backwards, while others leave they only fall.                           *)
LEMMA PlacesRise ==
  ASSUME NEW tbl, NEW tbl2, NEW S, NEW T, IsFiniteSet(T),
         \A d \in S : d \in T /\ tbl[d].startsAt = tbl2[d].startsAt,
         NEW e \in S
  PROVE  Place(tbl, S, e) <= Place(tbl2, T, e)
  <1> DEFINE A == {d \in S : Listing!Precedes(tbl, d, e)}
             B == {d \in T : Listing!Precedes(tbl2, d, e)}
  <1>1. A \subseteq B /\ B \in SUBSET T
      BY DEF Listing!Precedes
  <1>2. IsFiniteSet(B)
      BY <1>1, FS_Subset
  <1>3. Cardinality(A) <= Cardinality(B) /\ Cardinality(A) \in Nat /\ Cardinality(B) \in Nat
      BY <1>1, <1>2, FS_Subset, FS_CardinalityType
  <1> QED
      BY <1>3 DEF Place

(* The next page is of the same listing. *)
LEMMA SameFeed ==
  ASSUME NEW tbl, NEW t, NEW q \in Listing!Query, NEW page \in Int
  PROVE  Listing!Listing(tbl, [q EXCEPT !.page = page], t) = Listing!Listing(tbl, q, t)
  <1>1. PICK next : next = [q EXCEPT !.page = page]
      OBVIOUS
  <1>2. /\ next.status = q.status /\ next.creator = q.creator /\ next.viewer = q.viewer
        /\ next.word = q.word /\ next.upcoming = q.upcoming
      BY <1>1 DEF Listing!Query
  <1>3. Listing!Listing(tbl, next, t) = Listing!Listing(tbl, q, t)
      BY <1>2 DEF Listing!Listing, Listing!Matches, Listing!Creator, Listing!UpcomingOnly
  <1> QED
      BY <1>1, <1>3

LEMMA NextQuery ==
  ASSUME NEW q \in Listing!Query, NEW page \in Int, NEW next, next = [q EXCEPT !.page = page]
  PROVE  next \in Listing!Query /\ next.page = page /\ next.limit = q.limit
  BY DEF Listing!Query

(* The start, then the id, tell any two events apart. *)
LEMMA FeedIsOrdered ==
  ASSUME NEW tbl, NEW S, S \subseteq Events, \A e \in S : tbl[e].startsAt \in Nat
  PROVE  Orders(S, Listing!FeedOrder(tbl, S))
  <1>1. PICK at1 : at1 = [e \in S |-> tbl[e].startsAt]
      OBVIOUS
  <1>2. at1 \in [S -> Nat] /\ S \subseteq Nat
      BY <1>1, ListingSorts
  <1>3. \A d, e \in S : <<d, e>> \in Listing!FeedOrder(tbl, S)
                          <=> at1[d] < at1[e] \/ (at1[d] = at1[e] /\ d < e)
      BY <1>1 DEF Listing!FeedOrder, Listing!Precedes
  <1> QED
      BY <1>2, <1>3 DEF Orders

(* The feed holds each event at its place. *)
LEMMA FeedIsSorted ==
  ASSUME NEW tbl \in [Events -> Rows \cup {Absent}], NEW q, NEW t,
         NEW S, S = Listing!Listing(tbl, q, t),
         NEW list, list = Listing!InOrder(tbl, q, t)
  PROVE  /\ list \in Seq(S) /\ Len(list) = Cardinality(S)
         /\ \A i \in 1..Len(list) : Place(tbl, S, list[i]) = i
         /\ \A e \in S : Place(tbl, S, e) \in 1..Len(list) /\ list[Place(tbl, S, e)] = e
  <1>1. /\ IsFiniteSet(S) /\ Cardinality(S) \in Nat /\ S \subseteq Events
        /\ \A e \in S : tbl[e].startsAt \in Nat
      BY FeedIs
  <1> DEFINE order == Listing!FeedOrder(tbl, S)
  <1>2. Orders(S, order)
      BY <1>1, FeedIsOrdered
  <1>3. list = Sorted(S, order)
      BY ListingSorts DEF Listing!InOrder
  <1>4. \A e \in S : Place(tbl, S, e) = Rank(S, order, e)
    <2> SUFFICES ASSUME NEW e \in S
                 PROVE  Place(tbl, S, e) = Rank(S, order, e)
        OBVIOUS
    <2>1. Before(S, order, e) = {d \in S : Listing!Precedes(tbl, d, e)}
        BY DEF Before, Listing!FeedOrder
    <2> QED
        BY <2>1 DEF Place, Rank
  <1> HIDE DEF order
  <1>5. /\ list \in [1..Cardinality(S) -> S]
        /\ \A i \in 1..Cardinality(S) : Rank(S, order, list[i]) = i
        /\ \A e \in S : list[Rank(S, order, e)] = e
      BY <1>1, <1>2, <1>3, SortedByRank
  <1>6. \A e \in S : Rank(S, order, e) \in 1..Cardinality(S)
      BY <1>1, <1>2, RanksAreDistinct
  <1>7. list \in Seq(S) /\ Len(list) = Cardinality(S)
      BY <1>1, <1>5
  <1> QED
      BY <1>4, <1>5, <1>6, <1>7

(* Pages of one size follow each other. *)
LEMMA PagesAbut ==
  ASSUME NEW page \in Nat, page >= 1, NEW limit \in Nat
  PROVE  /\ (page - 1) * limit \in Nat
         /\ (page - 1) * limit + limit = page * limit
  <1>1. page - 1 \in Nat
      OBVIOUS
  <1>2. PICK n \in Nat : n = page - 1
      BY <1>1
  <1>3. n * limit \in Nat
      OBVIOUS
  <1>4. (n + 1) * limit = n * limit + limit
      OBVIOUS
  <1>5. page = n + 1
      BY <1>2
  <1> QED
      BY <1>2, <1>3, <1>4, <1>5

(* A page is a stretch of the feed: the places after the offset, as many   *)
(* as the limit.                                                           *)
LEMMA PageIs ==
  ASSUME NEW tbl \in [Events -> Rows \cup {Absent}], NEW q \in Listing!Query, Listing!Valid(q),
         NEW t, NEW S, S = Listing!Listing(tbl, q, t), NEW page, page = Listing!Page(tbl, q, t)
  PROVE  /\ page \in Seq(S)
         /\ \A i \in DOMAIN page : /\ page[i] \in S
                                   /\ Place(tbl, S, page[i]) > Listing!Skip(q)
                                   /\ Place(tbl, S, page[i]) <= q.page * q.limit
         /\ \A i, j \in DOMAIN page : page[i] = page[j] => i = j
         /\ \A e \in S :
              Place(tbl, S, e) > Listing!Skip(q) /\ Place(tbl, S, e) <= q.page * q.limit
                => \E i \in DOMAIN page : page[i] = e
  <1>1. PICK list : list = Listing!InOrder(tbl, q, t)
      OBVIOUS
  <1>2. /\ list \in Seq(S) /\ Len(list) \in Nat
        /\ \A i \in 1..Len(list) : Place(tbl, S, list[i]) = i
        /\ \A e \in S : Place(tbl, S, e) \in 1..Len(list) /\ list[Place(tbl, S, e)] = e
      BY <1>1, FeedIsSorted
  <1>3. PICK skip : skip = Listing!Skip(q)
      OBVIOUS
  <1>4. /\ q.limit \in Nat /\ q.page \in Nat /\ q.limit >= 1 /\ q.page >= 1
        /\ skip = (q.page - 1) * q.limit
    <2>1. q.limit \in Int /\ q.page \in Int
        BY DEF Listing!Query
    <2>2. q.limit >= 1 /\ q.page >= 1 /\ skip = (q.page - 1) * q.limit
        BY <1>3 DEF Listing!Valid, Listing!Skip
    <2> QED
        BY <2>1, <2>2
  <1>5. skip \in Nat /\ skip + q.limit = q.page * q.limit
      BY <1>4, PagesAbut
  <1>6. PICK last : last = IF skip + q.limit < Len(list) THEN skip + q.limit ELSE Len(list)
      OBVIOUS
  <1>7. last \in Nat /\ last <= Len(list) /\ last <= q.page * q.limit /\ skip + 1 \in Nat
    <2>1. PICK top : top = q.page * q.limit
        OBVIOUS
    <2>2. q.limit \in Nat /\ skip \in Nat /\ skip + q.limit = top
        BY <1>4, <1>5, <2>1
    <2>3. last \in Nat /\ last <= Len(list) /\ last <= top /\ skip + 1 \in Nat
        BY <1>2, <1>6, <2>2
    <2> QED
        BY <2>1, <2>3
  <1>8. page = SubSeq(list, skip + 1, last)
      BY <1>1, <1>3, <1>6 DEF Listing!Page
  <1>9. \A j \in (skip + 1)..last : j \in 1..Len(list)
      BY <1>2, <1>5, <1>7
  <1>10. page = [j \in 1..(last - skip) |-> list[skip + j]] /\ page \in Seq(S)
      BY <1>2, <1>5, <1>7, <1>8, <1>9, SubSeqProperties
  <1>11. ASSUME NEW i \in DOMAIN page
         PROVE  /\ page[i] \in S /\ Place(tbl, S, page[i]) = skip + i
                /\ skip + i > skip /\ skip + i <= q.page * q.limit /\ i \in Nat
    <2>1. i \in Nat /\ skip + i > skip /\ skip + i \in 1..Len(list) /\ skip + i <= last /\ page[i] = list[skip + i]
        BY <1>5, <1>7, <1>9, <1>10
    <2>2. skip + i <= q.page * q.limit
        BY <1>4, <1>5, <1>7, <2>1
    <2> QED
        BY <1>2, <2>1, <2>2
  <1>12. \A i, j \in DOMAIN page : page[i] = page[j] => i = j
      BY <1>5, <1>11
  <1>13. ASSUME NEW e \in S,
                Place(tbl, S, e) > skip, Place(tbl, S, e) <= q.page * q.limit
         PROVE  \E i \in DOMAIN page : page[i] = e
    <2>1. PICK n : n = Place(tbl, S, e)
        OBVIOUS
    <2>2. n \in 1..Len(list) /\ list[n] = e /\ n > skip /\ n <= skip + q.limit
        BY <1>2, <1>5, <1>13, <2>1
    <2>3. n <= last
        BY <1>2, <1>4, <1>5, <1>6, <2>2
    <2>4. n - skip \in 1..(last - skip) /\ skip + (n - skip) = n
        BY <1>2, <1>5, <1>7, <2>2, <2>3
    <2>5. n - skip \in DOMAIN page /\ page[n - skip] = e
        BY <1>10, <2>2, <2>4
    <2> QED
        BY <2>5
  <1> QED
      BY <1>3, <1>10, <1>11, <1>12, <1>13

(* How often a page shows an event: at least once if at all, and not more  *)
(* if its events differ.                                                   *)
LEMMA TimesShown ==
  ASSUME NEW S, NEW list \in Seq(S), NEW e, NEW T, T = {i \in DOMAIN list : list[i] = e}
  PROVE  /\ Cardinality(T) \in Nat
         /\ Cardinality(T) = 0 <=> ~\E i \in DOMAIN list : list[i] = e
         /\ (\A i, j \in DOMAIN list : list[i] = list[j] => i = j) => Cardinality(T) <= 1
  <1>1. DOMAIN list = 1..Len(list) /\ Len(list) \in Nat
      OBVIOUS
  <1>2. IsFiniteSet(1..Len(list)) /\ T \in SUBSET (1..Len(list))
      BY <1>1, FS_Interval
  <1>3. IsFiniteSet(T) /\ Cardinality(T) \in Nat
      BY <1>2, FS_Subset, FS_CardinalityType
  <1>4. Cardinality(T) = 0 <=> T = {}
      BY <1>3, FS_EmptySet
  <1>5. ASSUME \A i, j \in DOMAIN list : list[i] = list[j] => i = j, T # {}
        PROVE  Cardinality(T) = 1
    <2>1. PICK i : i \in T
        BY <1>5
    <2>2. T = {i}
        BY <1>5, <2>1
    <2> QED
        BY <2>2, FS_Singleton
  <1> QED
      BY <1>3, <1>4, <1>5

-----------------------------------------------------------------------------

LEMMA WalkStarts == Init => WalkInv
  <1> SUFFICES ASSUME Init, part = "listing"
               PROVE  WalkOK
      BY DEF WalkInv
  <1>1. /\ table \in [Events -> Rows \cup {Absent}] /\ listNow = 0
        /\ query \in Queries /\ opened = query.page /\ phase = "ask"
        /\ data = <<>> /\ total = 0 /\ seen = [e \in Events |-> 0]
        /\ steady = Feed
      BY DEF Init, Listing!Init, Feed
  <1>2. query \in Listing!Query /\ query.page \in Int /\ query.limit \in Int
    <2>1. query \in Listing!Query
        BY <1>1, PartsAreCoherent DEF Listing!ListingParameters
    <2> QED
        BY <2>1 DEF Listing!Query
  <1>3. ListingTypes
      BY <1>1, <1>2 DEF ListingTypes
  <1>4. opened = 1 => Listing!Skip(query) = 0
      BY <1>1, <1>2 DEF Listing!Skip
  <1>5. \A e \in Events : Place(table, Feed, e) \in Nat \ {0}
      BY <1>1, FeedIs, PlaceIs DEF Feed
  <1>6. opened = 1 => \A e \in steady : StillToCome(e)
    <2>1. steady \subseteq Events
        BY <1>1 DEF Feed, Listing!Listing
    <2> QED
        BY <1>1, <1>4, <1>5, <2>1 DEF StillToCome
  <1>7. \A e \in Events : Behind(e)
      BY <1>1 DEF Behind
  <1> QED
      BY <1>1, <1>3, <1>6, <1>7 DEF WalkOK, HistoryOK

(* Within a request and between two, the feed stays unless somebody writes *)
(* or time passes.                                                         *)
LEMMA FeedStays ==
  ASSUME ListingTypes, UNCHANGED <<table, listNow>>,
         UNCHANGED query \/ query' = [query EXCEPT !.page = query.page + 1]
  PROVE  /\ Feed' = Feed
         /\ \A e : Place(table, Feed, e)' = Place(table, Feed, e)
         /\ UNCHANGED query => Covered' = Covered
  <1>1. query \in Listing!Query /\ query.page + 1 \in Int
    <2>1. query \in Listing!Query
        BY DEF ListingTypes
    <2>2. query.page \in Int
        BY <2>1 DEF Listing!Query
    <2> QED
        BY <2>1, <2>2
  <1>2. Feed' = Feed
    <2>1. Feed' = Listing!Listing(table, query', listNow)
        BY DEF Feed
    <2> QED
        BY <1>1, <2>1, SameFeed DEF Feed
  <1> QED
      BY <1>2 DEF Covered

LEMMA Refuses ==
  ASSUME WalkOK, Listing!Refuse
  PROVE  WalkOK'
  <1>1. /\ phase = "ask" /\ phase' = "refused"
        /\ UNCHANGED <<table, listNow, opened, query, data, total, seen, steady, came, left>>
      BY DEF Listing!Refuse
  <1>2. Feed' = Feed
      BY <1>1, FeedStays DEF WalkOK
  <1>3. ListingTypes' /\ HistoryOK'
      BY <1>1, <1>2 DEF WalkOK, ListingTypes, HistoryOK
  <1>4. \A e : StillToCome(e)'
      BY <1>1 DEF StillToCome
  <1>5. \A e : Behind(e) => Behind(e)'
      BY <1>1 DEF Behind
  <1> QED
      BY <1>1, <1>3, <1>4, <1>5 DEF WalkOK

LEMMA ReadsAPage ==
  ASSUME WalkOK, Listing!ReadPage
  PROVE  WalkOK'
  <1>1. /\ phase = "ask" /\ phase' = "count" /\ Listing!Valid(query)
        /\ data' = Listing!Page(table, query, listNow)
        /\ UNCHANGED <<table, listNow, opened, query, total, seen, steady, came, left>>
      BY DEF Listing!ReadPage
  <1>2. ListingTypes /\ HistoryOK /\ query \in Listing!Query
      BY DEF WalkOK, ListingTypes
  <1>3. /\ Feed' = Feed /\ Covered' = Covered
        /\ \A e : Place(table, Feed, e)' = Place(table, Feed, e)
      BY <1>1, <1>2, FeedStays
  <1>4. /\ Feed \subseteq Events /\ IsFiniteSet(Feed)
        /\ \A e : Place(table, Feed, e) \in Nat \ {0}
      BY <1>2, FeedIs, PlaceIs DEF Feed, ListingTypes
  <1>5. /\ data' \in Seq(Feed)
        /\ \A i \in DOMAIN data' : /\ data'[i] \in Feed
                                   /\ Place(table, Feed, data'[i]) > Listing!Skip(query)
                                   /\ Place(table, Feed, data'[i]) <= Covered
        /\ \A i, j \in DOMAIN data' : data'[i] = data'[j] => i = j
        /\ \A e \in Feed :
             Place(table, Feed, e) > Listing!Skip(query) /\ Place(table, Feed, e) <= Covered
               => OnPage(e)'
      BY <1>1, <1>2, PageIs DEF Feed, Covered, OnPage, ListingTypes
  <1>6. data' \in Seq(Events)
      BY <1>4, <1>5
  <1>7. ListingTypes' /\ HistoryOK'
      BY <1>1, <1>2, <1>3, <1>5, <1>6 DEF ListingTypes, HistoryOK
  <1>8. Covered \in Int /\ Listing!Skip(query) \in Int /\ Listing!Skip(query) <= Covered
    <2>1. /\ query.page \in Int /\ query.limit \in Int
          /\ query.page >= 1 /\ query.limit >= 1
      <3>1. query.page \in Int /\ query.limit \in Int
          BY <1>2 DEF Listing!Query
      <3> QED
          BY <1>1, <3>1 DEF Listing!Valid
    <2>2. query.page \in Nat /\ query.limit \in Nat
        BY <2>1
    <2>3. (query.page - 1) * query.limit + query.limit = query.page * query.limit
          /\ (query.page - 1) * query.limit \in Nat
        BY <2>1, <2>2, PagesAbut
    <2> QED
        BY <2>2, <2>3 DEF Covered, Listing!Skip
  <1>9. ASSUME NEW e \in steady, StillToCome(e)
        PROVE  StillToCome(e)'
    <2>1. e \in Feed /\ Place(table, Feed, e) > Listing!Skip(query)
        BY <1>1, <1>2, <1>9 DEF HistoryOK, StillToCome
    <2>2. OnPage(e)' \/ Place(table, Feed, e) > Covered
        BY <1>4, <1>5, <1>8, <2>1
    <2> QED
        BY <1>1, <1>3, <2>2 DEF StillToCome
  <1>10. ASSUME NEW e \in Events, Behind(e)
         PROVE  Behind(e)'
    <2>1. OnPage(e)' => /\ e \in Feed /\ Place(table, Feed, e) > Listing!Skip(query)
                        /\ Place(table, Feed, e) <= Covered
        BY <1>5 DEF OnPage
    <2>2. seen[e] \in Nat /\ seen[e] <= 1
        BY <1>2, <1>10 DEF ListingTypes, Behind
    <2>3. seen[e] = 1 /\ e \in Feed => Place(table, Feed, e) <= Listing!Skip(query)
        BY <1>1, <1>10 DEF Behind
    <2>4. OnPage(e)' => seen[e] = 0
      <3> SUFFICES ASSUME OnPage(e)', seen[e] = 1
                   PROVE  FALSE
          BY <2>2
      <3> QED
          BY <1>4, <1>8, <2>1, <2>3
    <2> QED
        BY <1>1, <1>3, <1>4, <1>8, <2>1, <2>2, <2>3, <2>4 DEF Behind
  <1> QED
      BY <1>1, <1>7, <1>9, <1>10 DEF WalkOK

LEMMA CountsThePage ==
  ASSUME WalkOK, Listing!ReadCount
  PROVE  WalkOK'
  <1>1. /\ phase = "count" /\ phase' = "shown"
        /\ total' = Cardinality(Feed)
        /\ seen' = [e \in Events |-> seen[e] + Cardinality({i \in DOMAIN data : data[i] = e})]
        /\ UNCHANGED <<table, listNow, opened, query, data, steady, came, left>>
      BY ListingSorts DEF Listing!ReadCount, Feed
  <1>2. ListingTypes /\ HistoryOK
      BY DEF WalkOK
  <1>3. /\ Feed' = Feed /\ Covered' = Covered
        /\ \A e : Place(table, Feed, e)' = Place(table, Feed, e)
      BY <1>1, <1>2, FeedStays
  <1>4. \A e : /\ Cardinality({i \in DOMAIN data : data[i] = e}) \in Nat
               /\ Cardinality({i \in DOMAIN data : data[i] = e}) <= 1
               /\ Cardinality({i \in DOMAIN data : data[i] = e}) = 0 <=> ~OnPage(e)
    <2> SUFFICES ASSUME NEW e, NEW T, T = {i \in DOMAIN data : data[i] = e}
                 PROVE  /\ Cardinality(T) \in Nat /\ Cardinality(T) <= 1
                        /\ Cardinality(T) = 0 <=> ~OnPage(e)
        OBVIOUS
    <2>1. data \in Seq(Events) /\ \A i, j \in DOMAIN data : data[i] = data[j] => i = j
        BY <1>1, <1>2 DEF ListingTypes
    <2>2. /\ Cardinality(T) \in Nat /\ Cardinality(T) <= 1
          /\ Cardinality(T) = 0 <=> ~\E i \in DOMAIN data : data[i] = e
        BY <2>1, TimesShown
    <2> QED
        BY <2>2 DEF OnPage
  <1>5. \A e \in Events : /\ seen[e] \in Nat /\ seen'[e] \in Nat
                          /\ OnPage(e) => seen'[e] = seen[e] + 1
                          /\ ~OnPage(e) => seen'[e] = seen[e]
    <2> SUFFICES ASSUME NEW e \in Events
                 PROVE  /\ seen[e] \in Nat /\ seen'[e] \in Nat
                        /\ OnPage(e) => seen'[e] = seen[e] + 1
                        /\ ~OnPage(e) => seen'[e] = seen[e]
        OBVIOUS
    <2>1. PICK n : n = Cardinality({i \in DOMAIN data : data[i] = e})
        OBVIOUS
    <2>2. n \in Nat /\ n <= 1 /\ (n = 0 <=> ~OnPage(e)) /\ seen'[e] = seen[e] + n
        BY <1>1, <1>4, <2>1
    <2>3. seen[e] \in Nat
        BY <1>2 DEF ListingTypes
    <2> QED
        BY <2>2, <2>3
  <1>6. total' \in Nat /\ \A e \in Feed : Place(table, Feed, e) \in 1..total'
    <2>1. PICK list : list = Listing!InOrder(table, query, listNow)
        OBVIOUS
    <2>2. /\ Cardinality(Feed) = Len(list) /\ Len(list) \in Nat
          /\ \A e \in Feed : Place(table, Feed, e) \in 1..Len(list)
        BY <1>2, <2>1, FeedIsSorted DEF Feed, ListingTypes
    <2> QED
        BY <1>1, <2>2
  <1>7. seen' \in [Events -> Nat]
      BY <1>1, <1>5
  <1>8. ListingTypes' /\ HistoryOK'
      BY <1>1, <1>2, <1>3, <1>6, <1>7 DEF ListingTypes, HistoryOK
  <1>9. Covered \in Int /\ Feed \subseteq Events
    <2>1. query.page \in Int /\ query.limit \in Int
      <3>1. query \in Listing!Query
          BY <1>2 DEF ListingTypes
      <3> QED
          BY <3>1 DEF Listing!Query
    <2> QED
        BY <2>1 DEF Covered, Feed, Listing!Listing
  <1>10. ASSUME NEW e \in steady, seen[e] = 0 => StillToCome(e), seen'[e] = 0
         PROVE  StillToCome(e)'
    <2>1. e \in Feed /\ e \in Events
        BY <1>2, <1>9 DEF HistoryOK
    <2>2. ~OnPage(e) /\ seen[e] = 0
        BY <1>5, <1>10, <2>1
    <2>3. Place(table, Feed, e) > Covered
        BY <1>1, <1>10, <2>2 DEF StillToCome
    <2>4. total' > Covered
        BY <1>6, <1>9, <2>1, <2>3
    <2> QED
        BY <1>1, <1>3, <2>3, <2>4 DEF StillToCome
  <1>11. ASSUME NEW e \in Events, Behind(e)
         PROVE  Behind(e)'
    <2>1. /\ seen[e] \in Nat /\ seen[e] <= 1
          /\ OnPage(e) => seen[e] = 0
          /\ OnPage(e) \/ seen[e] = 1 => (e \in Feed => Place(table, Feed, e) <= Covered)
        BY <1>1, <1>5, <1>11 DEF Behind
    <2>2. seen'[e] <= 1 /\ (seen'[e] = 1 => OnPage(e) \/ seen[e] = 1)
        BY <1>5, <2>1
    <2> QED
        BY <1>1, <1>3, <2>1, <2>2 DEF Behind
  <1> QED
      BY <1>1, <1>8, <1>10, <1>11 DEF WalkOK

(* A page that does not reach the end of the listing is not the last.      *)
LEMMA MorePages ==
  ASSUME NEW n \in Nat, NEW page \in Nat, NEW limit \in Nat, limit >= 1, n > page * limit
  PROVE  Listing!TotalPages(n, limit) > page
  <1>1. page * limit \in Nat
      OBVIOUS
  <1>2. n # 0
      BY <1>1
  <1>3. (n + limit - 1) \div limit > page
      OBVIOUS
  <1> QED
      BY <1>2, <1>3 DEF Listing!TotalPages

LEMMA TurnsThePage ==
  ASSUME WalkOK, Listing!NextPage
  PROVE  WalkOK'
  <1>1. /\ phase = "shown"
        /\ UNCHANGED <<table, listNow, opened, data, total, seen, steady, came, left>>
        /\ \/ query' = [query EXCEPT !.page = query.page + 1] /\ phase' = "ask"
           \/ /\ query.page >= Listing!TotalPages(total, query.limit)
              /\ phase' = "end" /\ UNCHANGED query
      BY DEF Listing!NextPage
  <1>2. ListingTypes /\ HistoryOK /\ query \in Listing!Query /\ Listing!Valid(query)
      BY <1>1 DEF WalkOK, ListingTypes
  <1>3. /\ Feed' = Feed
        /\ \A e : Place(table, Feed, e)' = Place(table, Feed, e)
      BY <1>1, <1>2, FeedStays
  <1>4. /\ query.page \in Nat /\ query.limit \in Nat /\ query.page >= 1 /\ query.limit >= 1
        /\ query.limit <= MaxPageSize
    <2>1. query.page \in Int /\ query.limit \in Int
        BY <1>2 DEF Listing!Query
    <2> QED
        BY <1>2, <2>1 DEF Listing!Valid
  <1>5. \A e \in Events : seen[e] \in Nat
      BY <1>2 DEF ListingTypes
  <1>6. HistoryOK'
      BY <1>1, <1>2, <1>3 DEF HistoryOK
  <1>7. CASE query' = [query EXCEPT !.page = query.page + 1] /\ phase' = "ask"
    <2>1. /\ query' \in Listing!Query
          /\ query'.page = query.page + 1 /\ query'.limit = query.limit
        BY <1>2, <1>4, <1>7, NextQuery
    <2>2. Listing!Valid(query)'
        BY <1>4, <2>1 DEF Listing!Valid
    <2>3. Listing!Skip(query)' = Covered
      <3>1. (query.page + 1) - 1 = query.page
          BY <1>4
      <3> QED
          BY <2>1, <3>1 DEF Listing!Skip, Covered
    <2>4. ListingTypes'
        BY <1>1, <1>2, <1>7, <2>1, <2>2 DEF ListingTypes
    <2>5. \A e : StillToCome(e) => StillToCome(e)'
        BY <1>1, <1>3, <1>7, <2>3 DEF StillToCome
    <2>6. \A e : Behind(e) => Behind(e)'
        BY <1>1, <1>3, <1>7, <2>3 DEF Behind
    <2> QED
        BY <1>1, <1>6, <2>4, <2>5, <2>6 DEF WalkOK
  <1>8. CASE /\ query.page >= Listing!TotalPages(total, query.limit)
             /\ phase' = "end" /\ UNCHANGED query
    <2>1. ListingTypes'
        BY <1>1, <1>2, <1>8 DEF ListingTypes
    <2>2. \A e : ~StillToCome(e)
      <3> SUFFICES ASSUME total > Covered
                   PROVE  FALSE
          BY <1>1 DEF StillToCome
      <3>1. PICK pages : pages = Listing!TotalPages(total, query.limit)
          OBVIOUS
      <3>2. total \in Nat
          BY <1>2 DEF ListingTypes
      <3>3. pages > query.page
          BY <1>4, <3>1, <3>2, MorePages DEF Covered
      <3>4. pages \in Nat
          BY <1>4, <3>1, <3>2 DEF Listing!TotalPages
      <3> QED
          BY <1>4, <1>8, <3>1, <3>3, <3>4
    <2>3. \A e : Behind(e) => Behind(e)'
        BY <1>1, <1>8 DEF Behind
    <2> QED
        BY <1>1, <1>6, <2>1, <2>2, <2>3 DEF WalkOK
  <1> QED
      BY <1>1, <1>7, <1>8

(* What somebody writes, or the passing of time, raises the places of what *)
(* stays if nothing left, and lowers them if nothing came.                 *)
LEMMA OthersMove ==
  ASSUME WalkOK, Listing!Track, table' \in [Events -> Rows \cup {Absent}], listNow' \in Nat,
         UNCHANGED <<opened, query, phase, data, total, seen>>
  PROVE  WalkOK'
  <1> DEFINE same == {e \in Feed \cap Feed' : table[e].startsAt = table'[e].startsAt}
  <1>1. ListingTypes /\ HistoryOK
      BY DEF WalkOK
  <1>2. /\ steady' = steady \cap same
        /\ left' = left \cup (Feed \ same)
        /\ came' = came \cup (Feed' \ same)
      BY DEF Listing!Track, Feed
  <1>3. /\ Feed \subseteq Events /\ IsFiniteSet(Feed) /\ IsFiniteSet(Feed')
        /\ \A e : Place(table, Feed, e) \in Nat /\ Place(table, Feed, e)' \in Nat
    <2>1. PICK before : before = Feed
        OBVIOUS
    <2>2. PICK after1 : after1 = Feed'
        OBVIOUS
    <2>3. PICK tbl : tbl = table'
        OBVIOUS
    <2>4. before \subseteq Events /\ IsFiniteSet(before) /\ IsFiniteSet(after1)
        BY <1>1, <2>1, <2>2, FeedIs DEF Feed, ListingTypes
    <2>5. \A e : Place(table, before, e) \in Nat /\ Place(tbl, after1, e) \in Nat
        BY <2>4, PlaceIs
    <2> QED
        BY <2>1, <2>2, <2>3, <2>4, <2>5
  <1>4. ListingTypes'
      BY <1>1 DEF ListingTypes
  <1>5. HistoryOK'
    <2>1. steady' \subseteq Feed'
        BY <1>2
    <2>2. ASSUME came' = {}, left' = {}
          PROVE  steady' = Feed'
      <3>1. came = {} /\ left = {} /\ Feed \subseteq same /\ Feed' \subseteq same
          BY <1>2, <2>2
      <3>2. steady = Feed
          BY <1>1, <3>1 DEF HistoryOK
      <3> QED
          BY <1>2, <3>1, <3>2
    <2> QED
        BY <2>1, <2>2 DEF HistoryOK
  <1>6. Covered \in Int /\ Listing!Skip(query) \in Int /\ Covered' = Covered
    <2>1. query.page \in Int /\ query.limit \in Int
      <3>1. query \in Listing!Query
          BY <1>1 DEF ListingTypes
      <3> QED
          BY <3>1 DEF Listing!Query
    <2> QED
        BY <2>1 DEF Covered, Listing!Skip
  <1>7. ASSUME opened = 1, left' = {}, NEW e \in steady', seen[e] = 0
        PROVE  StillToCome(e)'
    <2>1. left = {} /\ Feed \subseteq same /\ e \in steady /\ e \in Feed
        BY <1>1, <1>2, <1>7 DEF HistoryOK
    <2>2. StillToCome(e)
        BY <1>7, <2>1 DEF WalkOK
    <2>3. Place(table, Feed, e) <= Place(table, Feed, e)'
      <3>1. \A d \in Feed : d \in Feed' /\ table[d].startsAt = table'[d].startsAt
          BY <2>1
      <3> QED
          BY <1>3, <2>1, <3>1, PlacesRise
    <2> QED
        BY <1>3, <1>6, <2>2, <2>3 DEF StillToCome, OnPage
  <1>8. ASSUME came' = {}, NEW e \in Events
        PROVE  Behind(e)'
    <2>1. came = {} /\ Feed' \subseteq same
        BY <1>2, <1>8
    <2>2. Behind(e)
        BY <2>1 DEF WalkOK
    <2>3. e \in Feed' => e \in Feed /\ Place(table, Feed, e)' <= Place(table, Feed, e)
      <3> SUFFICES ASSUME e \in Feed'
                   PROVE  e \in Feed /\ Place(table, Feed, e)' <= Place(table, Feed, e)
          OBVIOUS
      <3>1. \A d \in Feed' : d \in Feed /\ table'[d].startsAt = table[d].startsAt
          BY <2>1
      <3> QED
          BY <1>3, <3>1, PlacesRise
    <2> QED
        BY <1>3, <1>6, <2>2, <2>3 DEF Behind, OnPage
  <1> QED
      BY <1>4, <1>5, <1>7, <1>8 DEF WalkOK

LEMMA WalkStep ==
  ASSUME WalkInv, [Next]_vars
  PROVE  WalkInv'
  <1> SUFFICES ASSUME part' = "listing"
               PROVE  WalkOK'
      BY DEF WalkInv
  <1>1. part = "listing" /\ WalkOK /\ [Listing!Next]_listingVars
      BY ListingMoves DEF WalkInv
  <1>2. ListingTypes
      BY <1>1 DEF WalkOK
  <1>3. CASE Listing!WriteEvent
    <2>1. PICK e \in Events, new \in Rows \cup {Absent} :
            /\ table' = [table EXCEPT ![e] = new] /\ Listing!Track
            /\ UNCHANGED <<listNow, opened, query, phase, data, total, seen>>
        BY <1>3 DEF Listing!WriteEvent, Listing!walk
    <2>2. table' \in [Events -> Rows \cup {Absent}] /\ listNow' \in Nat
        BY <1>2, <2>1 DEF ListingTypes
    <2> QED
        BY <1>1, <2>1, <2>2, OthersMove
  <1>4. CASE Listing!Tick
    <2>1. /\ listNow' = listNow + 1 /\ Listing!Track
          /\ UNCHANGED <<table, opened, query, phase, data, total, seen>>
        BY <1>4 DEF Listing!Tick, Listing!walk
    <2>2. table' \in [Events -> Rows \cup {Absent}] /\ listNow' \in Nat
        BY <1>2, <2>1 DEF ListingTypes
    <2> QED
        BY <1>1, <2>1, <2>2, OthersMove
  <1>5. CASE UNCHANGED listingVars
      BY <1>1, <1>5 DEF listingVars, WalkOK, ListingTypes, HistoryOK, StillToCome, Behind, Feed,
         Covered, OnPage
  <1> QED
      BY <1>1, <1>3, <1>4, <1>5, Refuses, ReadsAPage, CountsThePage, TurnsThePage
         DEF Listing!Next

LEMMA WalkIsOK == Spec => []WalkInv
  BY WalkStarts, WalkStep, PTL DEF Spec

(* A walk from the first page to the last shows every event that stayed    *)
(* where it was unless another left, and none twice unless another came    *)
(* (EventsService.findMany).                                               *)
THEOREM WalksAreExact == Spec => []WalkIsExact
  <1>1. WalkInv => WalkIsExact
    <2> SUFFICES ASSUME WalkOK
                 PROVE  Listing!NothingMissed /\ Listing!NothingTwice
        BY DEF WalkInv, WalkIsExact, Listing!WalkIsExact
    <2>1. ListingTypes /\ HistoryOK
        BY DEF WalkOK
    <2>2. ASSUME phase = "end", opened = 1, left = {}, NEW e \in steady
          PROVE  seen[e] >= 1
      <3>1. ~StillToCome(e)
          BY <2>2 DEF StillToCome
      <3>2. seen[e] # 0
          BY <2>2, <3>1 DEF WalkOK
      <3>3. seen[e] \in Nat
          BY <2>1 DEF ListingTypes, HistoryOK, Feed, Listing!Listing
      <3> QED
          BY <3>2, <3>3
    <2>3. Listing!NothingTwice
        BY DEF WalkOK, Behind, Listing!NothingTwice
    <2> QED
        BY <2>2, <2>3 DEF Listing!NothingMissed
  <1> QED
      BY WalkIsOK, <1>1, PTL

(* Whoever walks through the upcoming events while nothing moves is shown  *)
(* each that has not ended, once (EventsService.buildListFilter).          *)
THEOREM NoneInProgressIsMissed == Spec => []InProgressListed
  <1>1. WalkInv => InProgressListed
    <2> SUFFICES ASSUME WalkOK, phase = "end", opened = 1, left = {}, came = {},
                        query.status = Unset, query.creator = Unset, query.word = Unset,
                        NEW e \in Events, table[e] # Absent, table[e].status = "PUBLISHED",
                        table[e].endsAt >= listNow
                 PROVE  seen[e] = 1
        BY DEF WalkInv, InProgressListed, Listing!InProgressListed
    <2>1. ListingTypes /\ HistoryOK
        BY DEF WalkOK
    <2>2. Unset \notin Listing!Statuses /\ Rows \subseteq Listing!Row
        BY PartsAreCoherent DEF Listing!ListingParameters
    <2>3. query.status # "DRAFT"
        BY <2>2 DEF Listing!Statuses
    <2>4. table[e] \in Listing!Row
        BY <2>1, <2>2 DEF ListingTypes
    <2>5. table[e].owner \in Organisers
        BY <2>4 DEF Listing!Row
    <2>6. e \in Feed
        BY <2>3, <2>5 DEF Feed, Listing!Listing, Listing!Matches, Listing!Creator
    <2>7. steady = Feed
        BY <2>1 DEF HistoryOK
    <2>8. seen[e] # 0
        BY <2>6, <2>7 DEF WalkOK, StillToCome
    <2>9. seen[e] \in Nat /\ seen[e] <= 1
        BY <2>1 DEF ListingTypes, WalkOK, Behind
    <2> QED
        BY <2>8, <2>9
  <1> QED
      BY WalkIsOK, <1>1, PTL
=============================================================================
