----------------------- MODULE RsvpIdempotencyProofs -----------------------
(***************************************************************************)
(* Proofs that an Idempotency-Key buys at most one effect, that every      *)
(* answer given under it is the recorded one, and that an error is never   *)
(* the answer to a request whose outcome is recorded.                      *)
(***************************************************************************)
EXTENDS RsvpServiceProofs

(* A keyed join about to commit has its key to itself. *)
KeyReserved ==
  \A r \in Requests :
    pc[r] = "commit" /\ Keyed(call[r]) =>
      /\ StoredOutcome(call[r]) = NoRecord
      /\ \A q \in Requests \ {r} :
           pc[q] = "commit" /\ Keyed(call[q]) =>
             call[q].user # call[r].user \/ call[q].key # call[r].key

(* What waits in the catch block of createRsvp is an error. *)
ErrorPending ==
  \A r \in Requests : pc[r] = "lookAgain" => answer[r] \in Answer /\ answer[r].code # "OK"

(* A request that has been given a 201 under a key has it on record. *)
AnswerRecorded ==
  \A r \in Requests :
    pc[r] = "done" /\ Keyed(call[r]) /\ answer[r].code = "OK"
      => StoredOutcome(call[r]) # NoRecord

(* Only the organiser's calls are checked for ownership. *)
OwnedUnkeyed == \A r \in Requests : pc[r] = "owned" => ~Keyed(call[r])

Replays ==
  /\ Isolation
  /\ KeyReserved
  /\ ErrorPending
  /\ AnswerRecorded
  /\ OwnedUnkeyed
  /\ KeyedAnswersAgree

-----------------------------------------------------------------------------
(* Seen from the records, a step is one of three kinds. *)

(* r's transaction takes effect. *)
Effect(r) ==
  /\ pc[r] = "commit"
  /\ Apply(r)
  /\ UNCHANGED call
  /\ \/ Reply(r, [code |-> "OK", body |-> work[r].body])
     \/ RetryOrThrow(r)

(* r reserves its key. *)
Reserves(r) ==
  /\ pc[r] = "record"
  /\ StoredOutcome(call[r]) = NoRecord
  /\ ~KeyBusy(r)
  /\ pc' = [pc EXCEPT ![r] = "commit"]
  /\ UNCHANGED <<idem, call, answer>>

(* r answers a keyed join: the recorded outcome, or an error that follows  *)
(* a failure, or one nothing is recorded against.                          *)
KeyedAnswer(r) ==
  \/ /\ StoredOutcome(call[r]) # NoRecord
     /\ StoredOutcome(call[r]).event = call[r].event
     /\ answer'[r] = [code |-> "OK", body |-> StoredOutcome(call[r]).body]
  \/ /\ answer'[r].code # "OK"
     /\ \/ StoredOutcome(call[r]) = NoRecord
        \/ answer'[r].code \in {"IDEMPOTENCY_KEY_REUSED", "LOST"}
        \/ faults' # faults

(* r moves anywhere else, its call only when it arrives. *)
Passes(r) ==
  /\ UNCHANGED idem
  /\ \A q \in Requests \ {r} :
       pc'[q] = pc[q] /\ call'[q] = call[q] /\ answer'[q] = answer[q]
  /\ call'[r] = call[r] \/ (pc[r] = "idle" /\ pc'[r] # "done")
  /\ pc[r] # "done"
  /\ pc[r] = "commit" => UNCHANGED tables
  /\ pc'[r] \in {"commit", "owned"} => ~Keyed(call'[r])
  /\ pc'[r] = "lookAgain" => answer'[r] \in Answer /\ answer'[r].code # "OK"
  /\ pc'[r] = "done" /\ Keyed(call[r]) => KeyedAnswer(r)

(* A rule of the service or a rollback: a keyed join goes to the catch     *)
(* block with the error, anything else is answered.                        *)
LEMMA ThrowPasses ==
  ASSUME TypeOK, NEW r \in Requests, pc[r] \notin {"idle", "done"},
         NEW code \in ErrorCode, Throw(r, code), UNCHANGED <<idem, call>>,
         pc[r] = "commit" => UNCHANGED tables
  PROVE  Passes(r)
<1>1. /\ \A q \in Requests \ {r} : pc'[q] = pc[q] /\ answer'[q] = answer[q]
      /\ answer'[r] = Error(code)
      /\ pc'[r] = IF Keyed(call[r]) THEN "lookAgain" ELSE "done"
  BY DEF Throw, TypeOK
<1>2. Error(code) \in Answer /\ Error(code).code # "OK"
  BY DEF Error, Answer, ErrorCode
<1>3. QED
  BY <1>1, <1>2 DEF Passes

(* So does a failed attempt, which is retried or thrown. *)
LEMMA RetryPasses ==
  ASSUME TypeOK, NEW r \in Requests, pc[r] \notin {"idle", "done"}, RetryOrThrow(r),
         UNCHANGED <<tables, call>>
  PROVE  Passes(r)
<1>0. UNCHANGED idem
  BY DEF tables
<1>1. CASE pc' = [pc EXCEPT ![r] = "lock"] /\ UNCHANGED answer
  BY <1>0, <1>1 DEF Passes, TypeOK
<1>2. CASE \E code \in ErrorCode : Throw(r, code)
  BY <1>0, <1>2, ThrowPasses
<1>3. QED
  BY <1>1, <1>2 DEF RetryOrThrow, ErrorCode

(* Every step of the service is one of the three kinds. *)
LEMMA KeyStepShape ==
  ASSUME Isolation, ErrorPending, OwnedUnkeyed, [Next]_vars
  PROVE  \/ \E r \in Requests : Effect(r) \/ Reserves(r) \/ Passes(r)
         \/ UNCHANGED <<idem, call, pc, answer>>
<1>0. TypeOK /\ CallMade
  BY DEF Isolation
<1>1. ASSUME NEW r \in Requests, NEW code \in ErrorCode, Reject(r, code),
             pc[r] \notin {"idle", "done"}
      PROVE  Passes(r)
  BY <1>0, <1>1, ThrowPasses DEF Reject, tables
<1>2. ASSUME NEW r \in Requests, Arrive(r)
      PROVE  Passes(r)
  <2>1. PICK c \in Calls :
          /\ call' = [call EXCEPT ![r] = c]
          /\ pc' = [pc EXCEPT ![r] = IF Keyed(c) THEN "lookup"
                                     ELSE IF c.op \in {"join", "leave"} THEN "lock"
                                     ELSE "owned"]
    BY <1>2 DEF Arrive
  <2>2. /\ pc'[r] \in {"lookup", "lock", "owned"} /\ pc[r] = "idle"
        /\ pc'[r] = "owned" => ~Keyed(call'[r])
    BY <1>0, <1>2, <2>1 DEF Arrive, TypeOK
  <2>3. \A q \in Requests \ {r} : pc'[q] = pc[q] /\ call'[q] = call[q]
    BY <1>0, <2>1 DEF TypeOK
  <2>4. QED
    BY <1>2, <2>2, <2>3 DEF Arrive, Passes, tables
<1>3. ASSUME NEW r \in Requests, NEW a, Reply(r, a), pc[r] \notin {"idle", "done"},
             UNCHANGED <<idem, call>>, pc[r] = "commit" => UNCHANGED tables,
             Keyed(call[r]) =>
               \/ /\ StoredOutcome(call[r]) # NoRecord
                  /\ StoredOutcome(call[r]).event = call[r].event
                  /\ a = [code |-> "OK", body |-> StoredOutcome(call[r]).body]
               \/ /\ a.code # "OK"
                  /\ \/ StoredOutcome(call[r]) = NoRecord
                     \/ a.code \in {"IDEMPOTENCY_KEY_REUSED", "LOST"}
                     \/ faults' # faults
      PROVE  Passes(r)
  <2>1. /\ \A q \in Requests \ {r} : pc'[q] = pc[q] /\ answer'[q] = answer[q]
        /\ pc'[r] = "done" /\ answer'[r] = a
    BY <1>0, <1>3 DEF Reply, TypeOK
  <2>2. QED
    BY <1>3, <2>1 DEF Passes, KeyedAnswer
<1>4. ASSUME NEW r \in Requests, Lookup(r) \/ LookAgain(r)
      PROVE  Passes(r)
  <2> DEFINE found == StoredOutcome(call[r])
  <2>1. pc[r] \in {"lookup", "lookAgain"} /\ UNCHANGED <<idem, call>>
    BY <1>4 DEF Lookup, LookAgain, tables
  <2>2. Error("IDEMPOTENCY_KEY_REUSED").code = "IDEMPOTENCY_KEY_REUSED"
    BY DEF Error
  <2>3. CASE Reply(r, Error("IDEMPOTENCY_KEY_REUSED"))
    BY <1>3, <2>1, <2>2, <2>3
  <2>4. CASE /\ found # NoRecord /\ found.event = call[r].event
             /\ Reply(r, [code |-> "OK", body |-> found.body])
    BY <1>3, <2>1, <2>4
  <2>5. CASE pc' = [pc EXCEPT ![r] = "lock"] /\ UNCHANGED answer
    BY <1>0, <2>1, <2>5 DEF Passes, TypeOK
  <2>6. CASE pc[r] = "lookAgain" /\ found = NoRecord /\ Reply(r, answer[r])
    BY <1>3, <2>1, <2>6 DEF ErrorPending
  <2>7. QED
    BY <1>4, <2>3, <2>4, <2>5, <2>6 DEF Lookup, LookAgain
<1>5. ASSUME NEW r \in Requests, CheckOwner(r) \/ Remove(r)
      PROVE  Passes(r)
  <2>1. pc[r] \in {"owned", "lock"} /\ UNCHANGED <<idem, call>>
    BY <1>5 DEF CheckOwner, Remove, tables
  <2>2. ~Keyed(call[r])
    BY <1>5 DEF CheckOwner, Remove, Keyed, OwnedUnkeyed
  <2>3. CASE \E a : Reply(r, a)
    BY <1>3, <2>1, <2>2, <2>3
  <2>4. CASE pc' = [pc EXCEPT ![r] = "lock"] /\ UNCHANGED answer
    BY <1>0, <2>1, <2>4 DEF Passes, TypeOK
  <2>5. QED
    BY <1>5, <2>3, <2>4 DEF CheckOwner, Remove
<1>6. ASSUME NEW r \in Requests, LockEvent(r)
      PROVE  Passes(r)
  <2>1. CASE Reject(r, "EVENT_NOT_FOUND")
    BY <1>1, <1>6, <2>1 DEF LockEvent, ErrorCode
  <2>2. CASE ~Reject(r, "EVENT_NOT_FOUND")
    BY <1>0, <1>6, <2>2 DEF LockEvent, Passes, TypeOK, tables
  <2>3. QED
    BY <2>1, <2>2
<1>7. ASSUME NEW r \in Requests, DecideJoin(r) \/ DecideLeave(r) \/ DecideUpdate(r)
      PROVE  Passes(r)
  <2>1. pc[r] = "work"
    BY <1>7 DEF DecideJoin, DecideLeave, DecideUpdate
  <2>2. CASE \E w : Write(r, w)
    BY <1>0, <2>1, <2>2 DEF Write, Passes, TypeOK, tables
  <2>3. CASE \E code \in ErrorCode : Reject(r, code)
    BY <1>1, <2>1, <2>3
  <2>4. (\E w : Write(r, w)) \/ \E code \in ErrorCode : Reject(r, code)
    <3>1. CASE DecideJoin(r)
      <4>1. \A ev, row, t : JoinRefusal(ev, row, t) \in ErrorCode \cup {"OK"}
        BY DEF JoinRefusal, ErrorCode
      <4>2. QED
        BY <3>1, <4>1 DEF DecideJoin
    <3>2. CASE DecideLeave(r)
      BY <3>2 DEF DecideLeave, ErrorCode
    <3>3. CASE DecideUpdate(r)
      BY <3>3 DEF DecideUpdate, ErrorCode
    <3>4. QED
      BY <1>7, <3>1, <3>2, <3>3
  <2>5. QED
    BY <2>2, <2>3, <2>4
<1>8. ASSUME NEW r \in Requests, Record(r)
      PROVE  Reserves(r) \/ Passes(r)
  <2>1. CASE Reject(r, "INTERNAL_ERROR")
    BY <1>1, <1>8, <2>1 DEF Record, ErrorCode
  <2>2. CASE ~Reject(r, "INTERNAL_ERROR")
    BY <1>8, <2>2 DEF Record, Reserves, tables
  <2>3. QED
    BY <2>1, <2>2
<1>9. ASSUME NEW r \in Requests, Commit(r) \/ CommitUnacknowledged(r)
      PROVE  Effect(r)
  BY <1>9 DEF Commit, CommitUnacknowledged, Effect
<1>10. ASSUME NEW r \in Requests, TransactionFails(r)
       PROVE  Passes(r)
  BY <1>0, <1>10, RetryPasses DEF TransactionFails, InTransaction
<1>11. ASSUME NEW r \in Requests, ReadFails(r) \/ Die(r)
       PROVE  Passes(r)
  <2>1. pc[r] \notin {"idle", "done"} /\ UNCHANGED <<tables, call>> /\ faults' # faults
    BY <1>0, <1>11 DEF ReadFails, Die, Fault, TypeOK
  <2>2. PICK a : Reply(r, a) /\ a.code # "OK"
    BY <1>11 DEF ReadFails, Die, Error
  <2>3. QED
    BY <1>3, <2>1, <2>2 DEF tables
<1>12. CASE Tick \/ Rest \/ UNCHANGED vars
  BY <1>12 DEF Tick, Rest, vars, tables
<1>13. QED
  BY <1>2, <1>4, <1>5, <1>6, <1>7, <1>8, <1>9, <1>10, <1>11, <1>12
  DEF Next, Step, Failure

-----------------------------------------------------------------------------
(* The invariant.  A commit writes the record of its own key and no other, *)
(* and that key was reserved, so no answer already given can change.       *)

(* What the commit of r changes, seen from the keys. *)
LEMMA EffectWrites ==
  ASSUME Replays, NEW r \in Requests, Effect(r)
  PROVE  /\ pc'[r] # "commit" /\ pc'[r] # "owned"
         /\ call' = call
         /\ \A q \in Requests \ {r} : pc'[q] = pc[q] /\ answer'[q] = answer[q]
         /\ Keyed(call[r]) =>
              /\ StoredOutcome(call[r]) = NoRecord
              /\ idem'[call[r].user][call[r].key] # NoRecord
              /\ idem'[call[r].user][call[r].key] =
                    [event |-> call[r].event, body |-> work[r].body]
              /\ pc'[r] = "done" =>
                    answer'[r] = [code |-> "OK", body |-> work[r].body]
         /\ pc'[r] = "lookAgain" =>
              answer'[r] \in Answer /\ answer'[r].code # "OK"
         /\ \A u \in Users, k \in Keys :
              \/ idem'[u][k] = idem[u][k]
              \/ Keyed(call[r]) /\ u = call[r].user /\ k = call[r].key
<1>0. TypeOK /\ call[r] # Nothing /\ pc[r] = "commit"
  BY DEF Replays, Isolation, CallMade, Effect
<1>1. /\ pc'[r] \in {"done", "lock", "lookAgain"}
      /\ \A q \in Requests \ {r} : pc'[q] = pc[q] /\ answer'[q] = answer[q]
      /\ Keyed(call[r]) /\ pc'[r] = "done" =>
           answer'[r] = [code |-> "OK", body |-> work[r].body]
      /\ pc'[r] = "lookAgain" => answer'[r] \in Answer /\ answer'[r].code # "OK"
  <2>1. CASE Reply(r, [code |-> "OK", body |-> work[r].body])
    BY <1>0, <2>1 DEF Reply, TypeOK
  <2>2. CASE pc' = [pc EXCEPT ![r] = "lock"] /\ UNCHANGED answer
    BY <1>0, <2>2 DEF TypeOK
  <2>3. CASE \E code \in ErrorCode : Throw(r, code)
    <3>1. PICK code \in ErrorCode : Throw(r, code)
      BY <2>3
    <3>2. Error(code) \in Answer /\ Error(code).code # "OK"
      BY DEF Error, Answer, ErrorCode
    <3>3. QED
      BY <1>0, <3>1, <3>2 DEF Throw, TypeOK
  <2>4. QED
    BY <2>1, <2>2, <2>3 DEF Effect, RetryOrThrow, ErrorCode
<1>2. CASE ~Keyed(call[r])
  BY <1>1, <1>2 DEF Effect, Apply
<1>3. CASE Keyed(call[r])
  <2>1. call[r].user \in Users /\ call[r].key \in Keys /\ call[r].event \in Events
    BY <1>0, <1>3, CallType
  <2>2. work[r].body \in Body
    BY <1>0, <1>3 DEF Replays, Isolation, BodyKnown, TypeOK, Work
  <2>3. [event |-> call[r].event, body |-> work[r].body] # NoRecord
    BY <2>1, <2>2, Sentinels DEF Stored
  <2>4. idem' = [idem EXCEPT ![call[r].user][call[r].key] =
                   [event |-> call[r].event, body |-> work[r].body]]
    BY <1>3 DEF Effect, Apply
  <2>5. StoredOutcome(call[r]) = NoRecord
    BY <1>0, <1>3 DEF Replays, KeyReserved
  <2> HIDE DEF Replays
  <2>6. idem'[call[r].user][call[r].key] =
          [event |-> call[r].event, body |-> work[r].body]
    BY <1>0, <2>1, <2>4 DEF TypeOK
  <2>7. \A u \in Users, k \in Keys :
          idem'[u][k] = idem[u][k] \/ (u = call[r].user /\ k = call[r].key)
    <3> TAKE u \in Users, k \in Keys
    <3>1. idem \in [Users -> [Keys -> Stored \cup {NoRecord}]]
      BY <1>0 DEF TypeOK
    <3>2. CASE u # call[r].user
      BY <2>4, <3>1, <3>2
    <3>3. CASE u = call[r].user /\ k # call[r].key
      BY <2>4, <3>1, <3>3
    <3>4. QED
      BY <3>2, <3>3
  <2>8. QED
    BY <1>1, <1>3, <2>3, <2>5, <2>6, <2>7 DEF Effect
<1>4. QED
  BY <1>2, <1>3

(* The invariant survives each kind of step. *)
LEMMA ReplaysStep ==
  ASSUME Replays, [Next]_vars
  PROVE  Replays'
<1>0. TypeOK /\ CallMade
  BY DEF Replays, Isolation
<1>1. Isolation'
  BY IsolationStep DEF Replays
<1>2. ASSUME NEW r \in Requests, Effect(r)
      PROVE  /\ KeyReserved' /\ ErrorPending' /\ OwnedUnkeyed'
             /\ AnswerRecorded' /\ KeyedAnswersAgree'
  <2>1. \A q \in Requests \ {r} :
          pc[q] # "idle" /\ Keyed(call[q]) =>
            \/ idem'[call[q].user][call[q].key] = StoredOutcome(call[q])
            \/ /\ Keyed(call[r])
               /\ call[q].user = call[r].user /\ call[q].key = call[r].key
    <3> SUFFICES ASSUME NEW q \in Requests \ {r}, pc[q] # "idle", Keyed(call[q])
                 PROVE  \/ idem'[call[q].user][call[q].key] = StoredOutcome(call[q])
                        \/ /\ Keyed(call[r])
                           /\ call[q].user = call[r].user /\ call[q].key = call[r].key
      OBVIOUS
    <3>1. call[q].user \in Users /\ call[q].key \in Keys
      BY <1>0, CallType DEF CallMade
    <3>2. \A u \in Users, k \in Keys :
            \/ idem'[u][k] = idem[u][k]
            \/ Keyed(call[r]) /\ u = call[r].user /\ k = call[r].key
      BY <1>2, EffectWrites
    <3>3. QED
      BY <3>1, <3>2 DEF StoredOutcome
  <2>2. KeyReserved'
    <3> SUFFICES ASSUME NEW q \in Requests, pc'[q] = "commit", Keyed(call'[q])
                 PROVE  /\ idem'[call'[q].user][call'[q].key] = NoRecord
                        /\ \A p \in Requests \ {q} :
                             pc'[p] = "commit" /\ Keyed(call'[p]) =>
                               call'[p].user # call'[q].user \/ call'[p].key # call'[q].key
      BY DEF KeyReserved, StoredOutcome
    <3>1. q # r /\ pc[q] = "commit" /\ call' = call /\ pc[r] = "commit"
      BY <1>2, EffectWrites DEF Effect
    <3>2. /\ StoredOutcome(call[q]) = NoRecord
          /\ \A p \in Requests \ {q} :
               pc[p] = "commit" /\ Keyed(call[p]) =>
                 call[p].user # call[q].user \/ call[p].key # call[q].key
      BY <3>1 DEF Replays, KeyReserved
    <3>3. \A p \in Requests : pc'[p] = "commit" => pc[p] = "commit"
      BY <1>2, EffectWrites
    <3>4. QED
      BY <2>1, <3>1, <3>2, <3>3
  <2>3. ErrorPending' /\ OwnedUnkeyed'
    <3>1. /\ pc'[r] # "owned" /\ call' = call
          /\ \A q \in Requests \ {r} : pc'[q] = pc[q] /\ answer'[q] = answer[q]
          /\ pc'[r] = "lookAgain" =>
               answer'[r] \in Answer /\ answer'[r].code # "OK"
      BY <1>2, EffectWrites
    <3>2. QED
      BY <3>1 DEF Replays, ErrorPending, OwnedUnkeyed
  <2>4. AnswerRecorded' /\ KeyedAnswersAgree'
    <3> SUFFICES ASSUME NEW q \in Requests, pc'[q] = "done", Keyed(call'[q]),
                        answer'[q].code = "OK"
                 PROVE  /\ idem'[call'[q].user][call'[q].key] # NoRecord
                        /\ idem'[call'[q].user][call'[q].key] =
                             [event |-> call'[q].event, body |-> answer'[q].body]
      BY DEF AnswerRecorded, KeyedAnswersAgree, StoredOutcome
    <3>1. CASE q = r
      <4>1. call' = call
        BY <1>2, EffectWrites
      <4>2. /\ idem'[call[r].user][call[r].key] # NoRecord
            /\ idem'[call[r].user][call[r].key] =
                 [event |-> call[r].event, body |-> work[r].body]
            /\ answer'[r] = [code |-> "OK", body |-> work[r].body]
        BY <1>2, <3>1, <4>1, EffectWrites
      <4>3. QED
        BY <3>1, <4>1, <4>2
    <3>2. CASE q # r
      <4>1. pc[q] = "done" /\ call' = call /\ answer'[q] = answer[q]
        BY <1>2, <3>2, EffectWrites
      <4>2. /\ StoredOutcome(call[q]) # NoRecord
            /\ StoredOutcome(call[q]) = [event |-> call[q].event, body |-> answer[q].body]
        BY <4>1 DEF Replays, AnswerRecorded, KeyedAnswersAgree
      <4>3. ~(/\ Keyed(call[r])
              /\ call[q].user = call[r].user /\ call[q].key = call[r].key)
        BY <1>2, <4>2, EffectWrites DEF StoredOutcome
      <4>4. QED
        BY <2>1, <3>2, <4>1, <4>2, <4>3
    <3>3. QED
      BY <3>1, <3>2
  <2>5. QED
    BY <2>2, <2>3, <2>4
<1>3. ASSUME NEW r \in Requests, Reserves(r)
      PROVE  /\ KeyReserved' /\ ErrorPending' /\ OwnedUnkeyed'
             /\ AnswerRecorded' /\ KeyedAnswersAgree'
  <2>1. /\ \A q \in Requests : pc'[q] = IF q = r THEN "commit" ELSE pc[q]
        /\ UNCHANGED <<idem, call, answer>>
    BY <1>0, <1>3 DEF Reserves, TypeOK
  <2>2. KeyReserved'
    BY <1>3, <2>1 DEF Replays, KeyReserved, Reserves, KeyBusy, StoredOutcome
  <2>3. ErrorPending' /\ OwnedUnkeyed'
    BY <2>1 DEF Replays, ErrorPending, OwnedUnkeyed
  <2>4. AnswerRecorded' /\ KeyedAnswersAgree'
    BY <2>1 DEF Replays, AnswerRecorded, KeyedAnswersAgree, StoredOutcome
  <2>5. QED
    BY <2>2, <2>3, <2>4
<1>4. ASSUME NEW r \in Requests, Passes(r)
      PROVE  /\ KeyReserved' /\ ErrorPending' /\ OwnedUnkeyed'
             /\ AnswerRecorded' /\ KeyedAnswersAgree'
  <2>1. \A q \in Requests \ {r} :
          pc'[q] = pc[q] /\ call'[q] = call[q] /\ answer'[q] = answer[q]
    BY <1>4 DEF Passes
  <2>2. KeyReserved'
    BY <1>4, <2>1 DEF Replays, KeyReserved, Passes, StoredOutcome
  <2>3. ErrorPending'
    <3>1. pc'[r] = "lookAgain" => answer'[r] \in Answer /\ answer'[r].code # "OK"
      BY <1>4 DEF Passes
    <3>2. QED
      BY <2>1, <3>1 DEF Replays, ErrorPending
  <2>4. OwnedUnkeyed'
    BY <1>4, <2>1 DEF Replays, OwnedUnkeyed, Passes
  <2>5. AnswerRecorded' /\ KeyedAnswersAgree'
    <3> SUFFICES ASSUME NEW q \in Requests, pc'[q] = "done", Keyed(call'[q]),
                        answer'[q].code = "OK"
                 PROVE  /\ idem'[call'[q].user][call'[q].key] # NoRecord
                        /\ idem'[call'[q].user][call'[q].key] =
                             [event |-> call'[q].event, body |-> answer'[q].body]
      BY DEF AnswerRecorded, KeyedAnswersAgree, StoredOutcome
    <3>1. CASE q # r
      BY <1>4, <2>1, <3>1
      DEF Replays, AnswerRecorded, KeyedAnswersAgree, Passes, StoredOutcome
    <3>2. CASE q = r
      <4>1. call'[r] = call[r] /\ idem' = idem /\ KeyedAnswer(r)
        BY <1>4, <3>2 DEF Passes
      <4>2. /\ StoredOutcome(call[r]) # NoRecord
            /\ StoredOutcome(call[r]).event = call[r].event
            /\ answer'[r] = [code |-> "OK", body |-> StoredOutcome(call[r]).body]
        BY <3>2, <4>1 DEF KeyedAnswer
      <4>3. call[r] # Nothing
        BY <1>0, <1>1, <3>2, <4>1 DEF Isolation, CallMade
      <4>4. StoredOutcome(call[r]) \in Stored
        BY <1>0, <3>2, <4>1, <4>2, <4>3, CallType DEF TypeOK, StoredOutcome
      <4>5. StoredOutcome(call[r]) =
              [event |-> call[r].event, body |-> answer'[r].body]
        BY <4>2, <4>4 DEF Stored
      <4>6. QED
        BY <3>2, <4>1, <4>2, <4>5 DEF StoredOutcome
    <3>3. QED
      BY <3>1, <3>2
  <2>6. QED
    BY <2>2, <2>3, <2>4, <2>5
<1>5. CASE UNCHANGED <<idem, call, pc, answer>>
  BY <1>1, <1>5 DEF Replays, KeyReserved, ErrorPending, OwnedUnkeyed, AnswerRecorded,
                    KeyedAnswersAgree, StoredOutcome
<1>6. QED
  BY <1>1, <1>2, <1>3, <1>4, <1>5, KeyStepShape DEF Replays

(* At first nothing is on record and nothing is answered. *)
LEMMA ReplaysInit ==
  ASSUME Init
  PROVE  Replays
BY IsolationInit
DEF Init, Replays, KeyReserved, ErrorPending, OwnedUnkeyed, AnswerRecorded,
    KeyedAnswersAgree

-----------------------------------------------------------------------------
(* Every 201 a keyed request ever got is what its key has on record, for   *)
(* ever: all answers under one key are equal.                              *)
THEOREM AnswersAgree == Spec => []KeyedAnswersAgree
<1>1. Init => Replays
  BY ReplaysInit
<1>2. Replays /\ [Next]_vars => Replays'
  BY ReplaysStep
<1>3. Replays => KeyedAnswersAgree
  BY DEF Replays
<1>4. QED
  BY <1>1, <1>2, <1>3, PTL DEF Spec

(* The step that gives a keyed transaction its effect finds no record and  *)
(* leaves one.                                                             *)
LEMMA EffectIsFirst ==
  ASSUME Replays, [Next]_vars, NEW r \in Requests, TakesEffect(r), Keyed(call[r])
  PROVE  StoredOutcome(call[r]) = NoRecord /\ StoredOutcome(call[r])' # NoRecord
<1>0. pc[r] = "commit" /\ pc'[r] # "commit" /\ tables' # tables
  BY DEF TakesEffect
<1>1. \A q \in Requests : Reserves(q) \/ Passes(q) => q # r
  BY <1>0 DEF Reserves, Passes
<1>2. \A q \in Requests \ {r} : ~Effect(q) /\ ~Reserves(q) /\ ~Passes(q)
  <2> SUFFICES ASSUME NEW q \in Requests \ {r}
               PROVE  ~Effect(q) /\ ~Reserves(q) /\ ~Passes(q)
    OBVIOUS
  <2>1. ~Effect(q)
    BY <1>0, EffectWrites
  <2>2. ~Reserves(q)
    BY <1>0 DEF Reserves, Replays, Isolation, TypeOK
  <2>3. ~Passes(q)
    BY <1>0 DEF Passes
  <2>4. QED
    BY <2>1, <2>2, <2>3
<1>3. Effect(r)
  BY <1>0, <1>1, <1>2, KeyStepShape DEF Replays
<1>4. QED
  BY <1>3, EffectWrites DEF StoredOutcome

(* A key buys at most one change of the RSVP tables, and the change and    *)
(* its record are one step.                                                *)
THEOREM OneEffectPerKey == Spec => EffectOncePerKey
<1>1. Init => Replays
  BY ReplaysInit
<1>2. Replays /\ [Next]_vars => Replays'
  BY ReplaysStep
<1>3. Replays /\ [Next]_vars =>
        [\A r \in Requests :
           TakesEffect(r) /\ Keyed(call[r])
             => /\ StoredOutcome(call[r]) = NoRecord
                /\ StoredOutcome(call[r])' # NoRecord]_vars
  BY EffectIsFirst
<1>4. QED
  BY <1>1, <1>2, <1>3, PTL DEF Spec, EffectOncePerKey

(* The step that answers a keyed request with an error of the service      *)
(* finds no record.                                                        *)
LEMMA RefusedUnrecorded ==
  ASSUME Replays, [Next]_vars, NEW r \in Requests, RefusedOnItsMerits(r), Keyed(call[r])
  PROVE  StoredOutcome(call[r]) = NoRecord
<1>0. /\ pc[r] # "done" /\ pc'[r] = "done" /\ faults' = faults
      /\ answer'[r].code \in ErrorCode \ {"IDEMPOTENCY_KEY_REUSED"}
  BY DEF RefusedOnItsMerits
<1>1. "OK" \notin ErrorCode /\ "LOST" \notin ErrorCode
  BY DEF ErrorCode
<1>2. ASSUME NEW q \in Requests, Effect(q)
      PROVE  FALSE
  <2>1. CASE q # r
    <3>1. pc'[r] = pc[r]
      BY <1>2, <2>1, EffectWrites
    <3>2. QED
      BY <1>0, <3>1
  <2>2. CASE q = r
    <3>1. answer'[r] = [code |-> "OK", body |-> work[r].body]
      BY <1>0, <1>2, <2>2, EffectWrites
    <3>2. QED
      BY <1>0, <1>1, <3>1
  <2>3. QED
    BY <2>1, <2>2
<1>3. ASSUME NEW q \in Requests, Reserves(q)
      PROVE  FALSE
  BY <1>0, <1>3 DEF Reserves, Replays, Isolation, TypeOK
<1>4. ASSUME NEW q \in Requests, Passes(q)
      PROVE  StoredOutcome(call[r]) = NoRecord
  <2>1. q = r
    BY <1>0, <1>4 DEF Passes
  <2>2. KeyedAnswer(r)
    BY <1>0, <1>4, <2>1 DEF Passes
  <2>3. QED
    BY <1>0, <1>1, <2>2 DEF KeyedAnswer
<1>5. QED
  BY <1>0, <1>2, <1>3, <1>4, KeyStepShape DEF Replays

(* A keyed request is told of an error only while nothing is on record     *)
(* under its key, unless a read failed or the key is another request's.    *)
THEOREM ErrorsAreUnrecorded == Spec => ErrorMeansNoRecord
<1>1. Init => Replays
  BY ReplaysInit
<1>2. Replays /\ [Next]_vars => Replays'
  BY ReplaysStep
<1>3. Replays /\ [Next]_vars =>
        [\A r \in Requests :
           RefusedOnItsMerits(r) /\ Keyed(call[r])
             => StoredOutcome(call[r]) = NoRecord]_vars
  BY RefusedUnrecorded
<1>4. QED
  BY <1>1, <1>2, <1>3, PTL DEF Spec, ErrorMeansNoRecord
=============================================================================
