---------------------------- MODULE AccountProofs ----------------------------
(***************************************************************************)
(* Accounts and sign-in, proved for every set of requests, addresses and   *)
(* passwords, every number of faults and deletions, and every lifetime.    *)
(***************************************************************************)
EXTENDS Api, TLAPS

(* While the accounts are the part that moves, their actions are all that  *)
(* happens.                                                                *)
LEMMA AccountsMove ==
  ASSUME [Next]_vars, part' = "accounts"
  PROVE  part = "accounts" /\ [Account!Next]_accountVars
  BY DEF Next, vars, accountVars

-----------------------------------------------------------------------------
(* What a request is and where it can be.                                  *)
Places == {"idle", "hash", "insert", "find", "verify", "guard", "subject", "handle", "done"}

AccountTypes ==
  /\ users \subseteq Account!Row /\ removed \subseteq AccountRequests /\ faults \in Nat
  /\ call \in [AccountRequests -> AccountCalls \cup {Nothing}]
  /\ authPc \in [AccountRequests -> Places]
  /\ DOMAIN token = AccountRequests
  /\ found \in [AccountRequests -> Account!Row \cup {None}]
  /\ DOMAIN authAnswer = AccountRequests /\ DOMAIN authBefore = AccountRequests

(* A row is that of a registration which has ended, under its address and  *)
(* with its password; an address has one row, and no removed account has.  *)
Owned(u) ==
  /\ u.id \in AccountRequests /\ authPc[u.id] = "done" /\ call[u.id] \in AccountCalls
  /\ u.email = Normal[call[u.id].email]
  /\ u.digest = Account!Digest(call[u.id].password)

UsersOK ==
  /\ \A u \in users : Owned(u) /\ u.id \notin removed
  /\ \A u, v \in users : u.email = v.email => u = v
  /\ \A q \in Account!Registered \ removed : \E u \in users : u.id = q
  /\ \A q \in removed : authPc[q] = "done"

(* The kind of a request is known by where it is. *)
Path(r) ==
  /\ authPc[r] # "idle" => call[r] \in AccountCalls
  /\ authPc[r] \in {"hash", "insert"} => call[r].kind = "register"
  /\ authPc[r] \in {"find", "verify"} => call[r].kind = "login"
  /\ authPc[r] \in {"guard", "subject", "handle"} => call[r].kind \in {"me", "browse"}

(* What was so when a request arrived is so still. *)
Remembers(r) ==
  /\ authBefore[r].registered \subseteq Account!Registered
  /\ authBefore[r].removed \subseteq removed

(* The row a sign-in has found is that of its address, and there is one    *)
(* when an account for it had been promised.                               *)
Looked(r) ==
  authPc[r] = "verify" =>
    /\ found[r] # None => Owned(found[r]) /\ found[r].email = Normal[call[r].email]
    /\ \A q \in authBefore[r].registered \ removed :
         Account!Same(call[q].email, call[r].email)
           => found[r] # None /\ found[r].digest = Account!Digest(call[q].password)

(* The caller of a route is the subject of its token, and had an account   *)
(* when the request arrived.                                               *)
Resolved(r) ==
  /\ authPc[r] = "subject" => token[r] \notin {None, Forged}
  /\ authPc[r] = "handle" /\ found[r] # None
       => /\ token[r] \notin {None, Forged} /\ token[r].sub = found[r].id
          /\ found[r].id \notin authBefore[r].removed

(* The answer is true of the accounts. *)
Answered(r) ==
  /\ authPc[r] # "done" => authAnswer[r] = Account!Reply
  /\ authAnswer[r].code = "INTERNAL_ERROR" => faults > 0
  /\ Account!Done(r, "login") /\ authAnswer[r].code = "INVALID_CREDENTIALS"
       => ~ \E q \in authBefore[r].registered \ removed :
              /\ Account!Same(call[q].email, call[r].email)
              /\ call[q].password = call[r].password
  /\ Account!Done(r, "login") /\ authAnswer[r].code = "OK"
       => LET owner == authAnswer[r].user
          IN  /\ owner \in AccountRequests /\ authPc[owner] = "done"
              /\ Account!Same(call[owner].email, call[r].email)
              /\ call[owner].password = call[r].password
  /\ call[r] # Nothing /\ call[r].kind \in {"me", "browse"}
       => /\ authAnswer[r].user # Nothing
               => token[r] \notin {None, Forged} /\ token[r].sub = authAnswer[r].user
          /\ authAnswer[r].user \notin authBefore[r].removed

RequestOK(r) == Path(r) /\ Remembers(r) /\ Looked(r) /\ Resolved(r) /\ Answered(r)

AccountOK == AccountTypes /\ UsersOK /\ \A r \in AccountRequests : RequestOK(r)

AccountInv == part = "accounts" => AccountOK

-----------------------------------------------------------------------------
(* A query for one row returns one if there is one.                        *)
LEMMA OneRow ==
  ASSUME NEW rows \in SUBSET users, AccountTypes
  PROVE  /\ rows = {} => Account!TheOne(rows) = None
         /\ rows # {} => Account!TheOne(rows) \in rows /\ Account!TheOne(rows) # None
  <1>1. \A u \in rows : u # None
      BY PartsAreCoherent DEF AccountTypes, Account!AccountParameters
  <1> QED
      BY <1>1 DEF Account!TheOne

(* Spelling does not change what an address is normalised to.              *)
LEMMA NormalIsNormal ==
  ASSUME NEW s \in Spellings
  PROVE  Normal[s] \in Spellings /\ Normal[Normal[s]] = Normal[s]
  BY PartsAreCoherent DEF Account!AccountParameters

(* A call asks in an address and a password.                               *)
LEMMA CallHas ==
  ASSUME NEW c \in AccountCalls
  PROVE  c \in Account!Call /\ c.email \in Spellings /\ c.password \in Passwords /\ c # Nothing
  BY PartsAreCoherent DEF Account!AccountParameters, Account!Call

(* A refusal names nobody. *)
LEMMA RefusedSays ==
  /\ Account!Reply.code = "" /\ Account!Reply.user = Nothing
  /\ \A code : Account!Refused(code).code = code /\ Account!Refused(code).user = Nothing
  BY DEF Account!Refused, Account!Reply

LEMMA AccountInit == Init => AccountInv
  <1> SUFFICES ASSUME Init, part = "accounts"
               PROVE  AccountOK
      BY DEF AccountInv
  <1>1. Account!Init
      BY DEF Init
  <1>2. AccountTypes
      BY <1>1 DEF Account!Init, AccountTypes, Places
  <1>3. UsersOK
      BY <1>1 DEF Account!Init, UsersOK, Account!Registered
  <1>4. ASSUME NEW r \in AccountRequests
        PROVE  RequestOK(r)
      BY <1>1 DEF Account!Init, RequestOK, Path, Remembers, Looked, Resolved, Answered,
         Account!Done, Account!Reply
  <1> QED
      BY <1>2, <1>3, <1>4 DEF AccountOK

-----------------------------------------------------------------------------
(* A step of request r leaves what has ended, and what the others have     *)
(* read, as it is.                                                         *)
OnlyMoves(r) ==
  /\ authPc[r] # "done" /\ removed' = removed
  /\ faults' \in Nat /\ faults' >= faults
  /\ \A q \in AccountRequests \ {r} :
       /\ call'[q] = call[q] /\ authPc'[q] = authPc[q] /\ token'[q] = token[q]
       /\ found'[q] = found[q] /\ authAnswer'[q] = authAnswer[q]
       /\ authBefore'[q] = authBefore[q]

(* Whoever has registered stays registered. *)
LEMMA RegisteredStays ==
  ASSUME NEW r \in AccountRequests, OnlyMoves(r)
  PROVE  Account!Registered \subseteq Account!Registered'
  BY DEF OnlyMoves, Account!Registered

(* The facts of a request that does not move hold on. *)
LEMMA OthersKeep ==
  ASSUME AccountOK, NEW r \in AccountRequests, OnlyMoves(r),
         NEW q \in AccountRequests \ {r}
  PROVE  RequestOK(q)'
  <1>1. RequestOK(q) /\ Account!Registered \subseteq Account!Registered'
      BY RegisteredStays DEF AccountOK
  <1>2. /\ call'[q] = call[q] /\ authPc'[q] = authPc[q] /\ token'[q] = token[q]
        /\ found'[q] = found[q] /\ authAnswer'[q] = authAnswer[q]
        /\ authBefore'[q] = authBefore[q] /\ removed' = removed
        /\ faults' \in Nat /\ faults' >= faults /\ faults \in Nat
      BY DEF OnlyMoves, AccountOK, AccountTypes
  <1>3. \A p \in AccountRequests : authPc[p] = "done" => authPc'[p] = "done" /\ call'[p] = call[p]
      BY DEF OnlyMoves
  <1>4. \A p \in Account!Registered : p \in AccountRequests /\ authPc[p] = "done"
      BY DEF Account!Registered
  <1>5. Path(q)' /\ Remembers(q)' /\ Resolved(q)'
      BY <1>1, <1>2 DEF RequestOK, Path, Remembers, Resolved
  <1>6. \A p \in authBefore[q].registered : call'[p] = call[p]
      BY <1>1, <1>3, <1>4 DEF RequestOK, Remembers
  <1>7. Looked(q)'
    <2>1. SUFFICES ASSUME authPc[q] = "verify"
                   PROVE  /\ found[q] # None => Owned(found[q])' /\ found[q].email = Normal[call[q].email]
                          /\ \A p \in authBefore[q].registered \ removed :
                               Account!Same(call'[p].email, call[q].email)
                                 => found[q] # None /\ found[q].digest = Account!Digest(call'[p].password)
        BY <1>2 DEF Looked, Owned, Account!Same, Account!Digest
    <2>2. found[q] # None => Owned(found[q])'
        BY <1>1, <1>2, <1>3, <2>1 DEF RequestOK, Looked, Owned, Account!Digest
    <2> QED
        BY <1>1, <1>6, <2>1, <2>2 DEF RequestOK, Looked
  <1>8. Answered(q)'
    <2>1. Account!Done(q, "login") /\ authAnswer[q].code = "INVALID_CREDENTIALS"
            => ~ \E p \in authBefore[q].registered \ removed :
                   /\ Account!Same(call'[p].email, call[q].email)
                   /\ call'[p].password = call[q].password
        BY <1>1, <1>6 DEF RequestOK, Answered
    <2>2. Account!Done(q, "login") /\ authAnswer[q].code = "OK"
            => LET owner == authAnswer[q].user
               IN  /\ owner \in AccountRequests /\ authPc'[owner] = "done"
                   /\ Account!Same(call'[owner].email, call[q].email)
                   /\ call'[owner].password = call[q].password
        BY <1>1, <1>3 DEF RequestOK, Answered
    <2>3. authAnswer[q].code = "INTERNAL_ERROR" => faults' > 0
        BY <1>1, <1>2 DEF RequestOK, Answered
    <2> QED
        BY <1>1, <1>2, <2>1, <2>2, <2>3 DEF RequestOK, Answered, Account!Done, Account!Same,
           Account!Reply
  <1> QED
      BY <1>5, <1>7, <1>8 DEF RequestOK

(* The rows stay true while none is added: nobody has registered but those *)
(* who had.                                                                *)
LEMMA UsersStay ==
  ASSUME AccountOK, NEW r \in AccountRequests, OnlyMoves(r), users' = users,
         Account!Registered' \subseteq Account!Registered
  PROVE  UsersOK'
  <1>1. \A p \in AccountRequests : authPc[p] = "done" => authPc'[p] = "done" /\ call'[p] = call[p]
      BY DEF OnlyMoves
  <1>2. \A u \in users : Owned(u)'
      BY <1>1 DEF AccountOK, UsersOK, Owned, Account!Digest
  <1>3. \A q \in removed : authPc'[q] = "done"
      BY <1>1 DEF AccountOK, UsersOK, AccountTypes
  <1> QED
      BY <1>2, <1>3 DEF AccountOK, UsersOK, OnlyMoves

(* A request that does not end as a registration told of success. *)
LEMMA NoneNew ==
  ASSUME NEW r \in AccountRequests, OnlyMoves(r),
         ~(authPc'[r] = "done" /\ call'[r].kind = "register" /\ authAnswer'[r].code = "OK")
  PROVE  Account!Registered' \subseteq Account!Registered
  BY DEF OnlyMoves, Account!Registered

-----------------------------------------------------------------------------
(* The steps of a request.                                                 *)
LEMMA OneMoves ==
  ASSUME AccountOK, NEW r \in AccountRequests, OnlyMoves(r),
         AccountTypes', UsersOK', RequestOK(r)'
  PROVE  AccountOK'
  <1>1. \A q \in AccountRequests : RequestOK(q)'
      BY OthersKeep
  <1> QED
      BY <1>1 DEF AccountOK

LEMMA Arrives ==
  ASSUME AccountOK, NEW r \in AccountRequests, Account!Arrive(r)
  PROVE  AccountOK'
  <1>1. authPc[r] = "idle" /\ AccountTypes /\ authAnswer[r] = Account!Reply
      BY DEF Account!Arrive, AccountOK, RequestOK, Answered
  <1>2. PICK c \in AccountCalls : call' = [call EXCEPT ![r] = c]
      BY DEF Account!Arrive
  <1> DEFINE short == call'[r].kind = "register" /\ call'[r].password \in TooShort
  <1>3. /\ UNCHANGED <<users, authNow, faults, removed, found>>
        /\ \E t : token' = [token EXCEPT ![r] = t]
        /\ authBefore' = [authBefore EXCEPT ![r] =
             [registered |-> Account!Registered, removed |-> removed]]
      BY DEF Account!Arrive
  <1>4. call'[r] = c /\ call' \in [AccountRequests -> AccountCalls \cup {Nothing}]
      BY <1>1, <1>2 DEF AccountTypes
  <1>5. IF short
        THEN /\ authAnswer' = [authAnswer EXCEPT ![r] = Account!Refused("VALIDATION_FAILED")]
             /\ authPc' = [authPc EXCEPT ![r] = "done"]
        ELSE /\ authPc' = [authPc EXCEPT ![r] = CASE c.kind = "register" -> "hash"
                                                 [] c.kind = "login" -> "find"
                                                 [] OTHER -> "guard"]
             /\ authAnswer' = authAnswer
    <2>1. PICK d \in AccountCalls :
            /\ call' = [call EXCEPT ![r] = d]
            /\ IF d.kind = "register" /\ d.password \in TooShort
               THEN Account!Ends(r, Account!Refused("VALIDATION_FAILED"))
               ELSE /\ Account!Goes(r, CASE d.kind = "register" -> "hash"
                                         [] d.kind = "login" -> "find"
                                         [] OTHER -> "guard")
                    /\ authAnswer' = authAnswer
        BY DEF Account!Arrive
    <2>2. d = c
        BY <1>1, <1>2, <2>1 DEF AccountTypes
    <2> QED
        BY <1>4, <2>1, <2>2 DEF Account!Ends, Account!Goes
  <1>6. c.kind \in {"register", "login", "me", "browse"}
      BY CallHas DEF Account!Call
  <1>7. /\ authPc'[r] = IF short THEN "done" ELSE
              CASE c.kind = "register" -> "hash" [] c.kind = "login" -> "find" [] OTHER -> "guard"
        /\ authPc' \in [AccountRequests -> Places]
        /\ \A q \in AccountRequests \ {r} : authPc'[q] = authPc[q]
      BY <1>1, <1>5, <1>6 DEF AccountTypes, Places
  <1>8. /\ authAnswer'[r] = IF short THEN Account!Refused("VALIDATION_FAILED") ELSE Account!Reply
        /\ DOMAIN authAnswer' = AccountRequests
        /\ \A q \in AccountRequests \ {r} : authAnswer'[q] = authAnswer[q]
      BY <1>1, <1>5 DEF AccountTypes
  <1>9. /\ authBefore'[r].registered = Account!Registered
        /\ authBefore'[r].removed = removed
        /\ DOMAIN authBefore' = AccountRequests
        /\ \A q \in AccountRequests \ {r} : authBefore'[q] = authBefore[q]
    <2> DEFINE arrival == [registered |-> Account!Registered, removed |-> removed]
    <2>1. arrival.registered = Account!Registered /\ arrival.removed = removed
        OBVIOUS
    <2>2. authBefore' = [authBefore EXCEPT ![r] = arrival]
        BY <1>3
    <2> HIDE DEF arrival
    <2> QED
        BY <1>1, <2>1, <2>2 DEF AccountTypes
  <1> HIDE DEF short
  <1>10. OnlyMoves(r)
      BY <1>1, <1>2, <1>3, <1>7, <1>8, <1>9 DEF OnlyMoves, AccountTypes
  <1>11. AccountTypes'
      BY <1>1, <1>3, <1>4, <1>7, <1>8, <1>9 DEF AccountTypes
  <1>12. authAnswer'[r].code \in {"", "VALIDATION_FAILED"} /\ authAnswer'[r].user = Nothing
      BY <1>8, RefusedSays
  <1>13. UsersOK'
      BY <1>3, <1>10, <1>12, UsersStay, NoneNew
  <1>14. Path(r)'
      BY <1>4, <1>6, <1>7 DEF Path
  <1>15. Remembers(r)'
      BY <1>3, <1>9, <1>10, RegisteredStays DEF Remembers
  <1>16. authPc'[r] \in {"hash", "find", "guard", "done"}
      BY <1>6, <1>7
  <1>17. Nothing \notin removed
      BY <1>1, PartsAreCoherent DEF AccountTypes, Account!AccountParameters
  <1>18. authPc'[r] # "done" => authAnswer'[r] = Account!Reply
      BY <1>6, <1>7, <1>8
  <1>19. Answered(r)'
    <2>1. authAnswer'[r].user \notin authBefore'[r].removed
        BY <1>9, <1>12, <1>17
    <2>2. /\ authAnswer'[r].code # "INTERNAL_ERROR" /\ authAnswer'[r].code # "OK"
          /\ authAnswer'[r].code # "INVALID_CREDENTIALS"
        BY <1>12
    <2> QED
        BY <1>12, <1>18, <2>1, <2>2, RefusedSays DEF Answered, Account!Reply
  <1> QED
      BY <1>10, <1>11, <1>13, <1>14, <1>15, <1>16, <1>19, OneMoves DEF RequestOK, Looked, Resolved

LEMMA Hashes ==
  ASSUME AccountOK, NEW r \in AccountRequests, Account!HashPassword(r)
  PROVE  AccountOK'
  <1>1. /\ authPc[r] = "hash" /\ authPc' = [authPc EXCEPT ![r] = "insert"]
        /\ UNCHANGED <<users, authNow, faults, removed, call, token, found, authAnswer, authBefore>>
        /\ AccountTypes /\ RequestOK(r)
      BY DEF Account!HashPassword, Account!Goes, AccountOK
  <1>2. authPc'[r] = "insert" /\ \A q \in AccountRequests \ {r} : authPc'[q] = authPc[q]
      BY <1>1 DEF AccountTypes
  <1>3. OnlyMoves(r)
      BY <1>1, <1>2 DEF OnlyMoves, AccountTypes
  <1>4. AccountTypes'
      BY <1>1 DEF AccountTypes, Places
  <1>5. UsersOK'
      BY <1>1, <1>2, <1>3, UsersStay, NoneNew
  <1>6. Remembers(r)'
      BY <1>1, <1>3, RegisteredStays DEF RequestOK, Remembers
  <1>7. Answered(r)'
      BY <1>1, <1>2 DEF RequestOK, Answered, Account!Done, Account!Reply, Path
  <1> QED
      BY <1>1, <1>2, <1>3, <1>4, <1>5, <1>6, <1>7, OneMoves DEF RequestOK, Path, Looked, Resolved

LEMMA Finds ==
  ASSUME AccountOK, NEW r \in AccountRequests, Account!FindByEmail(r)
  PROVE  AccountOK'
  <1> DEFINE email == Normal[call[r].email]
             hit == Account!TheOne(Account!RowOf(email))
  <1>1. /\ authPc[r] = "find" /\ authPc' = [authPc EXCEPT ![r] = "verify"]
        /\ found' = [found EXCEPT ![r] = hit]
        /\ UNCHANGED <<users, authNow, faults, removed, call, token, authAnswer, authBefore>>
        /\ AccountTypes /\ UsersOK /\ RequestOK(r)
      BY DEF Account!FindByEmail, Account!Goes, Account!Finds, Account!NormaliseEmail, AccountOK
  <1>2. Account!RowOf(email) \in SUBSET users /\ \A u \in Account!RowOf(email) : u.email = email
      BY DEF Account!RowOf
  <1>3. /\ hit # None => hit \in users /\ hit.email = email
        /\ \A u \in users : u.email = email => hit = u /\ hit # None
    <2>1. Account!RowOf(email) = {} => hit = None
        BY <1>1, <1>2, OneRow
    <2>2. Account!RowOf(email) # {} => hit \in Account!RowOf(email) /\ hit # None
        BY <1>1, <1>2, OneRow
    <2>3. \A u \in users : u.email = email => u \in Account!RowOf(email)
        BY DEF Account!RowOf
    <2> HIDE DEF hit, email
    <2> QED
        BY <1>1, <1>2, <2>1, <2>2, <2>3 DEF UsersOK
  <1> HIDE DEF hit, email
  <1>4. /\ authPc'[r] = "verify" /\ found'[r] = hit
        /\ \A q \in AccountRequests \ {r} : authPc'[q] = authPc[q] /\ found'[q] = found[q]
      BY <1>1 DEF AccountTypes
  <1>5. OnlyMoves(r)
      BY <1>1, <1>4 DEF OnlyMoves, AccountTypes
  <1>6. AccountTypes'
      BY <1>1, <1>3 DEF AccountTypes, Places
  <1>7. UsersOK'
      BY <1>1, <1>4, <1>5, UsersStay, NoneNew
  <1>8. Remembers(r)' /\ Path(r)'
      BY <1>1, <1>4, <1>5, RegisteredStays DEF RequestOK, Remembers, Path
  <1>9. Answered(r)'
      BY <1>1, <1>4 DEF RequestOK, Answered, Account!Done, Account!Reply, Path
  <1>10. hit # None => Owned(found[r])'
    <2>1. ASSUME hit # None
          PROVE  Owned(hit)
        BY <1>1, <1>3, <2>1 DEF UsersOK
    <2>2. ASSUME hit # None
          PROVE  authPc'[hit.id] = "done"
        BY <1>1, <1>5, <2>1, <2>2 DEF Owned, OnlyMoves
    <2>3. call' = call
        BY <1>1
    <2> QED
        BY <1>4, <2>1, <2>2, <2>3 DEF Owned, Account!Digest
  <1>11. ASSUME NEW q \in authBefore[r].registered \ removed,
                Account!Same(call[q].email, call[r].email)
         PROVE  hit # None /\ hit.digest = Account!Digest(call[q].password)
    <2>1. q \in Account!Registered \ removed
        BY <1>1, <1>11 DEF RequestOK, Remembers
    <2>2. PICK u \in users : u.id = q
        BY <1>1, <2>1 DEF UsersOK
    <2>3. u.email = Normal[call[q].email] /\ u.digest = Account!Digest(call[q].password)
        BY <1>1, <2>2 DEF UsersOK, Owned
    <2> QED
        BY <1>3, <1>11, <2>3 DEF Account!Same, email
  <1>12. Looked(r)'
      BY <1>1, <1>3, <1>4, <1>10, <1>11 DEF Looked, email, Account!Same, Account!Digest
  <1> QED
      BY <1>4, <1>5, <1>6, <1>7, <1>8, <1>9, <1>12, OneMoves DEF RequestOK, Resolved

(* A caller who is not let in is an answer or nobody. *)
LEMMA TurnedAway ==
  ASSUME AccountOK, NEW r \in AccountRequests, NEW code,
         authPc[r] \in {"guard", "subject"}, Account!Unauthenticated(r, code),
         code = "INTERNAL_ERROR" => faults' > 0,
         faults' \in Nat, faults' >= faults,
         UNCHANGED <<users, removed, call, token, authBefore>>
  PROVE  AccountOK'
  <1>1. /\ AccountTypes /\ RequestOK(r)
        /\ found' = [found EXCEPT ![r] = None]
        /\ UNCHANGED <<users, removed, call, token, authBefore>>
      BY DEF AccountOK, Account!Unauthenticated
  <1>2. authAnswer[r] = Account!Reply /\ authPc[r] # "done"
      BY <1>1 DEF RequestOK, Answered
  <1>3. /\ authPc'[r] \in {"handle", "done"} /\ authPc' \in [AccountRequests -> Places]
        /\ \A q \in AccountRequests \ {r} : authPc'[q] = authPc[q]
        /\ authAnswer'[r] \in {Account!Reply, Account!Refused(code)}
        /\ authPc'[r] # "done" => authAnswer'[r] = Account!Reply
        /\ DOMAIN authAnswer' = AccountRequests
        /\ \A q \in AccountRequests \ {r} : authAnswer'[q] = authAnswer[q]
    <2>1. CASE Account!Protected(call[r])
      <3>1. authAnswer' = [authAnswer EXCEPT ![r] = Account!Refused(code)]
            /\ authPc' = [authPc EXCEPT ![r] = "done"]
          BY <2>1 DEF Account!Unauthenticated, Account!Ends, Account!Goes
      <3> QED
          BY <1>1, <3>1 DEF AccountTypes, Places
    <2>2. CASE ~Account!Protected(call[r])
      <3>1. authAnswer' = authAnswer /\ authPc' = [authPc EXCEPT ![r] = "handle"]
          BY <2>2 DEF Account!Unauthenticated, Account!Goes
      <3> QED
          BY <1>1, <1>2, <3>1 DEF AccountTypes, Places
    <2> QED
        BY <2>1, <2>2
  <1>4. found'[r] = None /\ \A q \in AccountRequests \ {r} : found'[q] = found[q]
      BY <1>1 DEF AccountTypes
  <1>5. authAnswer'[r].user = Nothing /\ authAnswer'[r].code \in {"", code}
      BY <1>3, RefusedSays
  <1>6. OnlyMoves(r)
      BY <1>1, <1>2, <1>3, <1>4 DEF OnlyMoves
  <1>7. AccountTypes'
      BY <1>1, <1>3 DEF AccountTypes
  <1>8. call'[r].kind \in {"me", "browse"}
      BY <1>1 DEF RequestOK, Path
  <1>9. UsersOK'
      BY <1>1, <1>6, <1>8, UsersStay, NoneNew
  <1>10. Remembers(r)' /\ Path(r)'
      BY <1>1, <1>3, <1>6, <1>8, RegisteredStays DEF RequestOK, Remembers, Path
  <1>11. Nothing \notin authBefore[r].removed
      BY <1>1, PartsAreCoherent DEF AccountTypes, RequestOK, Remembers, Account!AccountParameters
  <1>12. Answered(r)'
    <2>1. authAnswer'[r].code = "INTERNAL_ERROR" => faults' > 0
        BY <1>5
    <2> QED
        BY <1>1, <1>3, <1>5, <1>8, <1>11, <2>1 DEF Answered, Account!Done, Account!Reply
  <1> QED
      BY <1>3, <1>4, <1>6, <1>7, <1>9, <1>10, <1>12, OneMoves DEF RequestOK, Looked, Resolved

LEMMA ChecksToken ==
  ASSUME AccountOK, NEW r \in AccountRequests, Account!CheckToken(r)
  PROVE  AccountOK'
  <1>1. /\ authPc[r] = "guard" /\ AccountTypes /\ RequestOK(r)
        /\ UNCHANGED <<users, authNow, faults, removed, call, token, authBefore>>
      BY DEF Account!CheckToken, AccountOK
  <1>2. CASE ~Account!UsableToken(token[r])
    <2>1. Account!Unauthenticated(r, "AUTHENTICATION_REQUIRED")
        BY <1>2 DEF Account!CheckToken
    <2>2. faults' \in Nat /\ faults' >= faults
        BY <1>1 DEF AccountTypes
    <2> QED
        BY <1>1, <2>1, <2>2, TurnedAway
  <1>3. CASE Account!UsableToken(token[r])
    <2>1. authPc' = [authPc EXCEPT ![r] = "subject"] /\ UNCHANGED <<found, authAnswer>>
        BY <1>3 DEF Account!CheckToken, Account!Goes
    <2>2. authPc'[r] = "subject" /\ \A q \in AccountRequests \ {r} : authPc'[q] = authPc[q]
        BY <1>1, <2>1 DEF AccountTypes
    <2>3. OnlyMoves(r)
        BY <1>1, <2>1, <2>2 DEF OnlyMoves, AccountTypes
    <2>4. AccountTypes'
        BY <1>1, <2>1 DEF AccountTypes, Places
    <2>5. UsersOK'
        BY <1>1, <2>2, <2>3, UsersStay, NoneNew
    <2>6. Remembers(r)' /\ Path(r)'
        BY <1>1, <2>2, <2>3, RegisteredStays DEF RequestOK, Remembers, Path
    <2>7. Answered(r)'
        BY <1>1, <2>1, <2>2 DEF RequestOK, Answered, Account!Done, Account!Reply, Path
    <2>8. token[r] \notin {None, Forged}
        BY <1>3 DEF Account!UsableToken
    <2> QED
        BY <1>1, <2>2, <2>3, <2>4, <2>5, <2>6, <2>7, <2>8, OneMoves DEF RequestOK, Looked, Resolved
  <1> QED
      BY <1>2, <1>3

(* What an answer with the id of an account says. *)
LEMMA AuthenticatedSays ==
  \A id : Account!Authenticated(id).code = "OK" /\ Account!Authenticated(id).user = id
  BY DEF Account!Authenticated

(* A request that ends: only its place and its answer change. *)
LEMMA EndMoves ==
  ASSUME AccountOK, NEW r \in AccountRequests, NEW a, Account!Ends(r, a),
         authPc[r] \notin {"idle", "done"}, faults' \in Nat, faults' >= faults,
         UNCHANGED <<removed, call, token, found, authBefore>>, users' \subseteq Account!Row
  PROVE  /\ OnlyMoves(r) /\ AccountTypes'
         /\ authPc'[r] = "done" /\ authAnswer'[r] = a
         /\ Remembers(r)' /\ Path(r)' /\ Looked(r)' /\ Resolved(r)'
  <1>1. /\ AccountTypes /\ RequestOK(r)
        /\ authPc' = [authPc EXCEPT ![r] = "done"] /\ authAnswer' = [authAnswer EXCEPT ![r] = a]
        /\ UNCHANGED <<removed, call, token, found, authBefore>>
      BY DEF AccountOK, Account!Ends, Account!Goes
  <1>2. /\ authPc'[r] = "done" /\ authAnswer'[r] = a
        /\ \A q \in AccountRequests \ {r} : authPc'[q] = authPc[q] /\ authAnswer'[q] = authAnswer[q]
      BY <1>1 DEF AccountTypes
  <1>3. OnlyMoves(r)
      BY <1>1, <1>2 DEF OnlyMoves
  <1>4. AccountTypes'
      BY <1>1 DEF AccountTypes, Places
  <1> QED
      BY <1>1, <1>2, <1>3, <1>4, RegisteredStays
         DEF RequestOK, Remembers, Path, Looked, Resolved

(* A refusal says nothing about accounts, but that a database failed or    *)
(* that a sign-in was in vain.                                             *)
LEMMA RefusalIsTrue ==
  ASSUME AccountOK, NEW r \in AccountRequests, NEW code, authAnswer'[r] = Account!Refused(code),
         authPc'[r] = "done", UNCHANGED <<removed, call, authBefore>>, code # "OK",
         code = "INTERNAL_ERROR" => faults' > 0,
         code = "INVALID_CREDENTIALS" =>
           ~ \E q \in authBefore[r].registered \ removed :
               /\ Account!Same(call[q].email, call[r].email)
               /\ call[q].password = call[r].password
  PROVE  Answered(r)'
  <1>1. authAnswer'[r].code = code /\ authAnswer'[r].user = Nothing
      BY RefusedSays
  <1>2. Nothing \notin authBefore'[r].removed
      BY PartsAreCoherent DEF AccountOK, AccountTypes, RequestOK, Remembers,
         Account!AccountParameters
  <1>3. Account!Done(r, "login")' /\ code = "INVALID_CREDENTIALS"
          => ~ \E q \in authBefore'[r].registered \ removed' :
                 /\ Account!Same(call'[q].email, call'[r].email)
                 /\ call'[q].password = call'[r].password
      OBVIOUS
  <1> QED
      BY <1>1, <1>2, <1>3 DEF Answered, Account!Done, Account!Same

(* A new row is that of the request that ends. *)
LEMMA RowIsAdded ==
  ASSUME AccountOK, NEW r \in AccountRequests, OnlyMoves(r),
         authPc[r] = "insert", authPc'[r] = "done", call' = call,
         Account!RowOf(Normal[call[r].email]) = {},
         users' = users \cup {[id |-> r, email |-> Normal[call[r].email],
                               digest |-> Account!Digest(call[r].password)]}
  PROVE  UsersOK' /\ users' \subseteq Account!Row
  <1> DEFINE new == [id |-> r, email |-> Normal[call[r].email],
                     digest |-> Account!Digest(call[r].password)]
  <1>1. AccountTypes /\ UsersOK /\ call[r] \in AccountCalls
      BY DEF AccountOK, RequestOK, Path
  <1>2. new.id = r /\ new.email = Normal[call[r].email]
        /\ new.digest = Account!Digest(call[r].password)
      OBVIOUS
  <1>3. new \in Account!Row
      BY <1>1, CallHas, NormalIsNormal DEF Account!Row, Account!Digest
  <1>4. \A u \in users : u.email # Normal[call[r].email]
      BY DEF Account!RowOf
  <1> HIDE DEF new
  <1>5. users' = users \cup {new}
      BY DEF new
  <1>6. \A p \in AccountRequests : authPc[p] = "done" => authPc'[p] = "done"
      BY DEF OnlyMoves
  <1>7. \A u \in users : Owned(u)'
      BY <1>1, <1>6 DEF UsersOK, Owned, Account!Digest
  <1>8. Owned(new)'
    <2>1. /\ new.id \in AccountRequests /\ authPc'[new.id] = "done" /\ call'[new.id] \in AccountCalls
          /\ new.email = Normal[call'[new.id].email]
          /\ new.digest = Account!Digest(call'[new.id].password)
        BY <1>1, <1>2
    <2>2. new' = new
        BY DEF new
    <2> QED
        BY <2>1, <2>2 DEF Owned, Account!Digest
  <1>9. r \notin removed
      BY <1>1 DEF UsersOK
  <1>10. Account!Registered' \subseteq Account!Registered \cup {r}
      BY DEF OnlyMoves, Account!Registered
  <1>11. \A u \in users' : Owned(u)' /\ u.id \notin removed'
      BY <1>1, <1>2, <1>5, <1>7, <1>8, <1>9 DEF UsersOK, OnlyMoves, new
  <1>12. \A u, v \in users' : u.email = v.email => u = v
      BY <1>1, <1>2, <1>4, <1>5 DEF UsersOK
  <1>13. \A q \in Account!Registered' \ removed' : \E u \in users' : u.id = q
      BY <1>1, <1>2, <1>5, <1>10 DEF UsersOK, OnlyMoves
  <1>14. \A q \in removed' : authPc'[q] = "done"
      BY <1>1, <1>6 DEF UsersOK, OnlyMoves, AccountTypes
  <1> QED
      BY <1>1, <1>3, <1>5, <1>11, <1>12, <1>13, <1>14 DEF UsersOK, AccountTypes

LEMMA Inserts ==
  ASSUME AccountOK, NEW r \in AccountRequests, Account!InsertUser(r)
  PROVE  AccountOK'
  <1> DEFINE email == Normal[call[r].email]
             new == [id |-> r, email |-> email, digest |-> Account!Digest(call[r].password)]
  <1>1. /\ authPc[r] = "insert" /\ AccountTypes /\ UsersOK /\ RequestOK(r)
        /\ UNCHANGED <<authNow, faults, removed, call, token, found, authBefore>>
      BY DEF Account!InsertUser, AccountOK
  <1>2. faults' \in Nat /\ faults' >= faults
      BY <1>1 DEF AccountTypes
  <1>3. call'[r].kind = "register"
      BY <1>1 DEF RequestOK, Path
  <1>4. CASE Account!Ends(r, Account!Refused(Account!OnTaken)) /\ users' = users
    <2>1. /\ OnlyMoves(r) /\ AccountTypes' /\ authPc'[r] = "done"
          /\ authAnswer'[r] = Account!Refused(Account!OnTaken)
          /\ Remembers(r)' /\ Path(r)' /\ Looked(r)' /\ Resolved(r)'
        BY <1>1, <1>2, <1>4, EndMoves DEF AccountTypes
    <2>2. authAnswer'[r].code = "EMAIL_ALREADY_REGISTERED"
        BY <2>1, RefusedSays DEF Account!OnTaken
    <2>3. UsersOK'
        BY <1>4, <2>1, <2>2, UsersStay, NoneNew
    <2>4. Answered(r)'
        BY <1>1, <2>1, RefusalIsTrue DEF Account!OnTaken
    <2> QED
        BY <2>1, <2>3, <2>4, OneMoves DEF RequestOK
  <1>5. CASE /\ Account!RowOf(email) = {} /\ users' = users \cup {new}
             /\ Account!Ends(r, Account!Authenticated(r))
    <2>1. authPc'[r] = "done" /\ OnlyMoves(r)
        BY <1>1, <1>2, <1>5 DEF Account!Ends, Account!Goes, AccountTypes, OnlyMoves
    <2>2. UsersOK' /\ users' \subseteq Account!Row
        BY <1>1, <1>5, <2>1, RowIsAdded
    <2>3. /\ AccountTypes' /\ authAnswer'[r] = Account!Authenticated(r)
          /\ Remembers(r)' /\ Path(r)' /\ Looked(r)' /\ Resolved(r)'
        BY <1>1, <1>2, <1>5, <2>2, EndMoves
    <2>4. authAnswer'[r].code = "OK"
        BY <2>3, AuthenticatedSays
    <2>5. Answered(r)'
        BY <1>3, <2>1, <2>4 DEF Answered, Account!Done
    <2> QED
        BY <2>1, <2>2, <2>3, <2>5, OneMoves DEF RequestOK
  <1> QED
      BY <1>4, <1>5 DEF Account!InsertUser, Account!NormaliseEmail

LEMMA Verifies ==
  ASSUME AccountOK, NEW r \in AccountRequests, Account!VerifyPassword(r)
  PROVE  AccountOK'
  <1>1. /\ authPc[r] = "verify" /\ AccountTypes /\ UsersOK /\ RequestOK(r)
        /\ UNCHANGED <<users, authNow, faults, removed, call, token, found, authBefore>>
      BY DEF Account!VerifyPassword, AccountOK
  <1>2. faults' \in Nat /\ faults' >= faults /\ users' \subseteq Account!Row
      BY <1>1 DEF AccountTypes
  <1>3. call'[r].kind = "login" /\ call[r] \in AccountCalls
      BY <1>1 DEF RequestOK, Path
  <1>4. ASSUME NEW a, Account!Ends(r, a), Answered(r)'
        PROVE  AccountOK'
    <2>1. /\ OnlyMoves(r) /\ AccountTypes' /\ authPc'[r] = "done"
          /\ Remembers(r)' /\ Path(r)' /\ Looked(r)' /\ Resolved(r)'
        BY <1>1, <1>2, <1>4, EndMoves
    <2>2. UsersOK'
        BY <1>1, <1>3, <2>1, UsersStay, NoneNew
    <2> QED
        BY <1>4, <2>1, <2>2, OneMoves DEF RequestOK
  <1>5. ASSUME NEW a, Account!Ends(r, a)
        PROVE  authAnswer'[r] = a /\ authPc'[r] = "done"
      BY <1>1, <1>5 DEF Account!Ends, Account!Goes, AccountTypes
  <1>6. CASE /\ found[r] = None \/ ~Account!Verifies(found[r], call[r].password)
             /\ Account!Ends(r, Account!Refused("INVALID_CREDENTIALS"))
    <2>1. ~ \E q \in authBefore[r].registered \ removed :
              /\ Account!Same(call[q].email, call[r].email)
              /\ call[q].password = call[r].password
        BY <1>1, <1>6 DEF RequestOK, Looked, Account!Verifies
    <2>2. Answered(r)'
        BY <1>1, <1>5, <1>6, <2>1, RefusalIsTrue
    <2> QED
        BY <1>4, <1>6, <2>2
  <1>7. CASE /\ found[r] # None /\ Account!Verifies(found[r], call[r].password)
             /\ Account!Ends(r, Account!Authenticated(found[r].id))
    <2> DEFINE owner == found[r].id
    <2>1. Owned(found[r]) /\ found[r].email = Normal[call[r].email]
        BY <1>1, <1>7 DEF RequestOK, Looked
    <2>2. authAnswer'[r].code = "OK" /\ authAnswer'[r].user = owner /\ authPc'[r] = "done"
        BY <1>5, <1>7, AuthenticatedSays
    <2>3. owner \in AccountRequests /\ authPc'[owner] = "done"
        BY <1>1, <1>7, <2>1 DEF Owned, Account!Ends, Account!Goes, AccountTypes
    <2>4. Normal[call[owner].email] = Normal[call[r].email]
        BY <2>1 DEF Owned
    <2>5. call[owner].password = call[r].password
      <3>1. Account!Digest(call[owner].password) = Account!Digest(call[r].password)
          BY <1>7, <2>1 DEF Owned, Account!Verifies
      <3>2. Account!Digest(call[owner].password).of = Account!Digest(call[r].password).of
          BY <3>1
      <3> QED
          BY <3>2 DEF Account!Digest
    <2> HIDE DEF owner
    <2>6. Answered(r)'
        BY <1>1, <1>3, <2>2, <2>3, <2>4, <2>5 DEF Answered, Account!Done, Account!Same
    <2> QED
        BY <1>4, <1>7, <2>6
  <1> QED
      BY <1>6, <1>7 DEF Account!VerifyPassword

LEMMA Resolves ==
  ASSUME AccountOK, NEW r \in AccountRequests, Account!ResolveSubject(r)
  PROVE  AccountOK'
  <1> DEFINE hit == Account!TheOne(Account!RowById(token[r].sub))
  <1>1. /\ authPc[r] = "subject" /\ AccountTypes /\ UsersOK /\ RequestOK(r)
        /\ UNCHANGED <<users, authNow, faults, removed, call, token, authBefore>>
      BY DEF Account!ResolveSubject, AccountOK
  <1>2. faults' \in Nat /\ faults' >= faults
      BY <1>1 DEF AccountTypes
  <1>3. CASE hit = None
    <2>1. Account!Unauthenticated(r, "AUTHENTICATION_REQUIRED")
        BY <1>3 DEF Account!ResolveSubject
    <2> QED
        BY <1>1, <1>2, <2>1, TurnedAway
  <1>4. CASE hit # None
    <2>1. /\ found' = [found EXCEPT ![r] = hit] /\ authPc' = [authPc EXCEPT ![r] = "handle"]
          /\ authAnswer' = authAnswer
        BY <1>4 DEF Account!ResolveSubject, Account!Finds, Account!Goes
    <2>2. hit \in users /\ hit.id = token[r].sub
        BY <1>1, <1>4, OneRow DEF Account!RowById
    <2> HIDE DEF hit
    <2>3. /\ authPc'[r] = "handle" /\ found'[r] = hit
          /\ \A q \in AccountRequests \ {r} : authPc'[q] = authPc[q] /\ found'[q] = found[q]
        BY <1>1, <2>1 DEF AccountTypes
    <2>4. OnlyMoves(r)
        BY <1>1, <2>1, <2>3 DEF OnlyMoves, AccountTypes
    <2>5. AccountTypes'
        BY <1>1, <2>1, <2>2 DEF AccountTypes, Places
    <2>6. UsersOK'
        BY <1>1, <2>3, <2>4, UsersStay, NoneNew
    <2>7. Remembers(r)' /\ Path(r)'
        BY <1>1, <2>3, <2>4, RegisteredStays DEF RequestOK, Remembers, Path
    <2>8. Answered(r)'
        BY <1>1, <2>1, <2>3 DEF RequestOK, Answered, Account!Done, Account!Reply, Path
    <2>9. hit.id \notin authBefore[r].removed
        BY <1>1, <2>2 DEF UsersOK, RequestOK, Remembers
    <2>10. Resolved(r)'
        BY <1>1, <2>2, <2>3, <2>9 DEF RequestOK, Resolved
    <2> QED
        BY <2>3, <2>4, <2>5, <2>6, <2>7, <2>8, <2>10, OneMoves DEF RequestOK, Looked
  <1> QED
      BY <1>3, <1>4

LEMMA Handles ==
  ASSUME AccountOK, NEW r \in AccountRequests, Account!Handle(r)
  PROVE  AccountOK'
  <1> DEFINE named == IF found[r] = None THEN Nothing ELSE found[r].id
             taken == [Account!Reply EXCEPT !.code = "OK", !.user = named]
  <1>1. /\ authPc[r] = "handle" /\ AccountTypes /\ UsersOK /\ RequestOK(r)
        /\ UNCHANGED <<users, authNow, faults, removed, call, token, found, authBefore>>
      BY DEF Account!Handle, AccountOK
  <1>2. faults' \in Nat /\ faults' >= faults /\ users' \subseteq Account!Row
      BY <1>1 DEF AccountTypes
  <1>3. call'[r].kind \in {"me", "browse"}
      BY <1>1 DEF RequestOK, Path
  <1>4. ASSUME NEW a, Account!Ends(r, a), authAnswer'[r] = a /\ authPc'[r] = "done" => Answered(r)'
        PROVE  AccountOK'
    <2>1. /\ OnlyMoves(r) /\ AccountTypes' /\ authPc'[r] = "done" /\ authAnswer'[r] = a
          /\ Remembers(r)' /\ Path(r)' /\ Looked(r)' /\ Resolved(r)'
        BY <1>1, <1>2, <1>4, EndMoves
    <2>2. UsersOK'
        BY <1>1, <1>3, <2>1, UsersStay, NoneNew
    <2> QED
        BY <1>4, <2>1, <2>2, OneMoves DEF RequestOK
  <1>5. CASE Account!Ends(r, Account!Refused("USER_NOT_FOUND"))
      BY <1>1, <1>4, <1>5, RefusalIsTrue
  <1>6. CASE Account!Ends(r, taken)
    <2>1. taken.code = "OK" /\ taken.user = named
        BY DEF Account!Reply
    <2>2. named # Nothing => token[r] \notin {None, Forged} /\ token[r].sub = named
        BY <1>1 DEF RequestOK, Resolved
    <2>3. named \notin authBefore[r].removed
        BY <1>1, PartsAreCoherent DEF RequestOK, Resolved, Remembers, AccountTypes,
           Account!AccountParameters
    <2> HIDE DEF named, taken
    <2>4. authAnswer'[r] = taken /\ authPc'[r] = "done" => Answered(r)'
        BY <1>1, <1>3, <2>1, <2>2, <2>3 DEF Answered, Account!Done
    <2> QED
        BY <1>4, <1>6, <2>4
  <1> QED
      BY <1>5, <1>6 DEF Account!Handle

LEMMA QueryFailed ==
  ASSUME AccountOK, NEW r \in AccountRequests, Account!QueryFails(r)
  PROVE  AccountOK'
  <1> DEFINE email == Normal[call[r].email]
             new == [id |-> r, email |-> email, digest |-> Account!Digest(call[r].password)]
  <1>1. /\ AccountTypes /\ UsersOK /\ RequestOK(r)
        /\ UNCHANGED <<authNow, removed, call, token, authBefore>>
        /\ faults' = faults + 1
      BY DEF Account!QueryFails, Account!Fault, AccountOK
  <1>2. faults' \in Nat /\ faults' >= faults /\ faults' > 0
      BY <1>1 DEF AccountTypes
  <1>3. CASE authPc[r] = "subject" /\ Account!Unauthenticated(r, "INTERNAL_ERROR") /\ users' = users
      BY <1>1, <1>2, <1>3, TurnedAway
  <1>4. CASE /\ authPc[r] \in {"find", "insert", "handle"}
             /\ Account!Ends(r, Account!Refused("INTERNAL_ERROR")) /\ found' = found
             /\ \/ users' = users
                \/ /\ authPc[r] = "insert" /\ Account!RowOf(email) = {}
                   /\ users' = users \cup {new}
    <2>1. authPc'[r] = "done" /\ OnlyMoves(r) /\ authAnswer'[r] = Account!Refused("INTERNAL_ERROR")
        BY <1>1, <1>2, <1>4 DEF Account!Ends, Account!Goes, AccountTypes, OnlyMoves
    <2>2. UsersOK' /\ users' \subseteq Account!Row
      <3>1. CASE users' = users
        <4>1. authAnswer'[r].code # "OK"
            BY <2>1, RefusedSays
        <4> QED
            BY <1>1, <2>1, <3>1, <4>1, UsersStay, NoneNew DEF AccountTypes
      <3>2. CASE users' # users
          BY <1>1, <1>4, <2>1, <3>2, RowIsAdded
      <3> QED
          BY <3>1, <3>2
    <2>3. /\ AccountTypes'
          /\ Remembers(r)' /\ Path(r)' /\ Looked(r)' /\ Resolved(r)'
        BY <1>1, <1>2, <1>4, <2>2, EndMoves
    <2>4. Answered(r)'
        BY <1>1, <1>2, <2>1, RefusalIsTrue
    <2> QED
        BY <2>1, <2>2, <2>3, <2>4, OneMoves DEF RequestOK
  <1> QED
      BY <1>3, <1>4 DEF Account!QueryFails, Account!NormaliseEmail

-----------------------------------------------------------------------------
(* An account is deleted: its row goes, its requests are remembered.       *)
LEMMA Removes ==
  ASSUME AccountOK, Account!RemoveUser
  PROVE  AccountOK'
  <1>1. PICK u \in users : users' = users \ {u} /\ removed' = removed \cup {u.id}
      BY DEF Account!RemoveUser
  <1>2. /\ UNCHANGED <<authNow, faults, call, authPc, token, found, authAnswer, authBefore>>
        /\ AccountTypes /\ UsersOK /\ Owned(u)
      BY <1>1 DEF Account!RemoveUser, AccountOK, UsersOK
  <1>3. AccountTypes'
      BY <1>1, <1>2 DEF AccountTypes, Owned
  <1>4. \A v \in users' : Owned(v)' /\ v.id \notin removed'
    <2>1. \A v \in users : v.id = u.id => v.email = u.email
        BY <1>1, <1>2 DEF UsersOK, Owned
    <2>2. \A v \in users' : v \in users /\ v.id # u.id
        BY <1>1, <1>2, <2>1 DEF UsersOK
    <2> QED
        BY <1>1, <1>2, <2>2 DEF UsersOK, Owned, Account!Digest
  <1>5. UsersOK'
    <2>1. Account!Registered' = Account!Registered
        BY <1>2 DEF Account!Registered
    <2>2. \A q \in Account!Registered' \ removed' : \E v \in users' : v.id = q
        BY <1>1, <1>2, <2>1 DEF UsersOK
    <2>3. \A q \in removed' : authPc'[q] = "done"
        BY <1>1, <1>2 DEF UsersOK, Owned
    <2> QED
        BY <1>1, <1>2, <1>4, <2>2, <2>3 DEF UsersOK
  <1>6. ASSUME NEW r \in AccountRequests
        PROVE  RequestOK(r)'
    <2>1. RequestOK(r) /\ removed \subseteq removed'
        BY <1>1 DEF AccountOK
    <2>2. Path(r)' /\ Resolved(r)'
        BY <1>2, <2>1 DEF RequestOK, Path, Resolved
    <2>3. Remembers(r)'
        BY <1>2, <2>1 DEF RequestOK, Remembers, Account!Registered
    <2>4. Looked(r)'
        BY <1>2, <2>1 DEF RequestOK, Looked, Owned, Account!Same, Account!Digest
    <2>5. Answered(r)'
        BY <1>2, <2>1 DEF RequestOK, Answered, Account!Done, Account!Same, Account!Reply
    <2> QED
        BY <2>2, <2>3, <2>4, <2>5 DEF RequestOK
  <1> QED
      BY <1>3, <1>5, <1>6 DEF AccountOK

(* The clock, or nothing at all. *)
LEMMA NothingMoves ==
  ASSUME AccountOK,
         UNCHANGED <<users, faults, removed, call, authPc, token, found, authAnswer, authBefore>>
  PROVE  AccountOK'
  <1>1. AccountTypes'
      BY DEF AccountOK, AccountTypes
  <1>2. UsersOK'
      BY DEF AccountOK, UsersOK, Owned, Account!Registered, Account!Digest
  <1>3. ASSUME NEW r \in AccountRequests
        PROVE  RequestOK(r)'
    <2>1. RequestOK(r)
        BY DEF AccountOK
    <2>2. Path(r)' /\ Resolved(r)' /\ Remembers(r)'
        BY <2>1 DEF RequestOK, Path, Resolved, Remembers, Account!Registered
    <2>3. Looked(r)' /\ Answered(r)'
        BY <2>1 DEF RequestOK, Looked, Answered, Owned, Account!Done, Account!Same,
           Account!Reply, Account!Digest
    <2> QED
        BY <2>2, <2>3 DEF RequestOK
  <1> QED
      BY <1>1, <1>2, <1>3 DEF AccountOK

LEMMA AccountStep ==
  ASSUME AccountInv, [Next]_vars
  PROVE  AccountInv'
  <1> SUFFICES ASSUME part' = "accounts"
               PROVE  AccountOK'
      BY DEF AccountInv
  <1>1. AccountOK /\ [Account!Next]_accountVars
      BY AccountsMove DEF AccountInv
  <1>2. CASE UNCHANGED accountVars
      BY <1>1, <1>2, NothingMoves DEF accountVars
  <1>3. CASE Account!Tick
      BY <1>1, <1>3, NothingMoves DEF Account!Tick
  <1>4. CASE Account!RemoveUser
      BY <1>1, <1>4, Removes
  <1>5. ASSUME NEW r \in AccountRequests,
               \/ Account!Arrive(r) \/ Account!HashPassword(r) \/ Account!InsertUser(r)
               \/ Account!FindByEmail(r) \/ Account!VerifyPassword(r)
               \/ Account!CheckToken(r) \/ Account!ResolveSubject(r) \/ Account!Handle(r)
               \/ Account!QueryFails(r)
        PROVE  AccountOK'
      BY <1>1, <1>5, Arrives, Hashes, Inserts, Finds, Verifies, ChecksToken, Resolves, Handles,
         QueryFailed
  <1> QED
      BY <1>1, <1>2, <1>3, <1>4, <1>5 DEF Account!Next

LEMMA AccountsAreOK == Spec => []AccountInv
  BY AccountInit, AccountStep, PTL DEF Spec

-----------------------------------------------------------------------------
(* However many registrations of one address race, and however they spell  *)
(* it, one account is made (UsersService.create and the unique index).     *)
THEOREM OneAccount == Spec => []OneAccountPerAddress
  <1>1. AccountInv => OneAccountPerAddress
    <2> SUFFICES ASSUME AccountOK
                 PROVE  Account!OneAccountPerAddress
        BY DEF AccountInv, OneAccountPerAddress
    <2>1. \A u \in users : Normal[u.email] = u.email
        BY CallHas, NormalIsNormal DEF AccountOK, UsersOK, Owned
    <2>2. ASSUME NEW q \in Account!Registered \ removed, NEW r \in Account!Registered \ removed,
                 Account!Same(call[q].email, call[r].email)
          PROVE  q = r
      <3>1. PICK u \in users : u.id = q
          BY DEF AccountOK, UsersOK
      <3>2. PICK v \in users : v.id = r
          BY DEF AccountOK, UsersOK
      <3>3. u.email = v.email
          BY <2>2, <3>1, <3>2 DEF AccountOK, UsersOK, Owned, Account!Same
      <3> QED
          BY <3>1, <3>2, <3>3 DEF AccountOK, UsersOK
    <2> QED
        BY <2>1, <2>2 DEF Account!OneAccountPerAddress, Account!Same, AccountOK, UsersOK
  <1> QED
      BY AccountsAreOK, <1>1, PTL

(* The loser of that race is told that the address is taken: nobody who    *)
(* registers gets INTERNAL_ERROR from a database that works.               *)
THEOREM LoserIsTold == Spec => []LostRaceExplained
  <1>1. AccountInv => LostRaceExplained
      BY DEF AccountInv, AccountOK, RequestOK, Answered, LostRaceExplained,
         Account!LostRaceExplained
  <1> QED
      BY AccountsAreOK, <1>1, PTL

(* Whoever was told that the account exists signs in to it with any        *)
(* spelling of the address (AuthService.register and login).               *)
THEOREM RegisteredCanSignIn == Spec => []PromisedSignIn
  <1>1. AccountInv => PromisedSignIn
      BY DEF AccountInv, AccountOK, RequestOK, Answered, PromisedSignIn, Account!PromisedSignIn
  <1> QED
      BY AccountsAreOK, <1>1, PTL

(* A token is earned with the password of its account, speaks for that     *)
(* account alone and is refused once the account is gone                   *)
(* (AuthService.login, JwtStrategy.validate).                              *)
THEOREM TokensSpeakForOwners == Spec => []TokensAreTrue
  <1>1. AccountInv => TokensAreTrue
    <2> SUFFICES ASSUME AccountOK
                 PROVE  Account!TokensEarned /\ Account!RemovedStaysOut
        BY DEF AccountInv, TokensAreTrue, Account!TokensAreTrue
    <2>1. Account!TokensEarned
        BY DEF AccountOK, RequestOK, Answered, Account!TokensEarned
    <2>2. Account!RemovedStaysOut
        BY DEF AccountOK, RequestOK, Answered, Account!RemovedStaysOut
    <2> QED
        BY <2>1, <2>2
  <1> QED
      BY AccountsAreOK, <1>1, PTL
=============================================================================
