------------------------------ MODULE Accounts ------------------------------
(***************************************************************************)
(* Registration, sign-in and the authentication guard: each request as the *)
(* sequence of its awaits (hashing a password, a query on the users table, *)
(* verifying a token), run by any number of requests at once.  Hashing and *)
(* tokens are opaque: a digest is a record of the password it was made     *)
(* from, a token one of its subject and its expiry.                        *)
(***************************************************************************)
EXTENDS Integers, FiniteSets

CONSTANTS
  Spellings,    \* e-mail addresses as people type them
  Normal,       \* trim and toLowerCase
  Passwords, TooShort,
  Requests,
  Calls,        \* what requests ask
  Lifetime,     \* JWT_EXPIRES_IN
  MaxTime, MaxFaults, MaxRemovals,
  None, Forged, Nothing

(* me stands for every protected route, browse for every public one that   *)
(* looks at the caller.                                                    *)
Call == [kind : {"register", "login", "me", "browse"},
         email : Spellings, password : Passwords]

(* A row of table users; the password's digest is a record of it. *)
Row == [id : Requests, email : Spellings, digest : [of : Passwords]]

(* What the constants must satisfy; an instance assumes it. *)
AccountParameters ==
  /\ Normal \in [Spellings -> Spellings]
  /\ \A s \in Spellings : Normal[Normal[s]] = Normal[s]
  /\ TooShort \subseteq Passwords
  /\ Calls \subseteq Call
  /\ Nothing \notin Call \cup Requests /\ None \notin Row

VARIABLES
  users,    \* table users, with a unique index on email
  now, faults,
  removed,  \* ids of accounts an operator has deleted
  call, pc,
  token,    \* the bearer token a request carries
  found,    \* the row a query returned, or the caller the guard resolved
  answer,
  before    \* history: at arrival, the successful registrations and the removed ids

vars == <<users, now, faults, removed, call, pc, token, found, answer, before>>

Digest(pw) == [of |-> pw]
Reply == [code |-> "", user |-> Nothing, token |-> None]
Refused(code) == [Reply EXCEPT !.code = code]

-----------------------------------------------------------------------------
(* Mutant of NormaliseEmail: stored and looked up as it was typed. *)
AsTyped(s) == s

(* RegisterDto, LoginDto and UsersService.normaliseEmail *)
NormaliseEmail(s) == Normal[s]

(* PasswordService.verify *)
Verifies(row, pw) == row.digest = Digest(pw)

(* buildAuthResponse: the token names the user and expires. *)
Authenticated(id) ==
  [code |-> "OK", user |-> id, token |-> [sub |-> id, expires |-> now + Lifetime]]

RowOf(email) == {u \in users : u.email = email}
RowById(id) == {u \in users : u.id = id}
TheOne(rows) == IF rows = {} THEN None ELSE CHOOSE u \in rows : TRUE

IssuedTokens == {answer[q].token : q \in {q \in Requests : pc[q] = "done"}}

Protected(c) == c.kind = "me"

-----------------------------------------------------------------------------
Init ==
  /\ users = {} /\ now = 0 /\ faults = 0 /\ removed = {}
  /\ call = [r \in Requests |-> Nothing]
  /\ pc = [r \in Requests |-> "idle"]
  /\ token = [r \in Requests |-> None]
  /\ found = [r \in Requests |-> None]
  /\ answer = [r \in Requests |-> Reply]
  /\ before = [r \in Requests |-> [registered |-> {}, removed |-> {}]]

Goes(r, place) == pc' = [pc EXCEPT ![r] = place]
Ends(r, a) == answer' = [answer EXCEPT ![r] = a] /\ Goes(r, "done")
Finds(r, x) == found' = [found EXCEPT ![r] = x]
Fault == faults < MaxFaults /\ faults' = faults + 1

Registered == {q \in Requests : /\ pc[q] = "done" /\ call[q].kind = "register"
                                /\ answer[q].code = "OK"}

(* A request arrives; a registration with a short password is refused by   *)
(* its DTO, a sign-in is not.                                              *)
Arrive(r) ==
  /\ pc[r] = "idle"
  /\ \E c \in Calls :
       /\ call' = [call EXCEPT ![r] = c]
       /\ \E t \in IF c.kind \in {"me", "browse"} THEN IssuedTokens \cup {None, Forged}
                   ELSE {None} : token' = [token EXCEPT ![r] = t]
       /\ IF c.kind = "register" /\ c.password \in TooShort
          THEN Ends(r, Refused("VALIDATION_FAILED"))
          ELSE /\ Goes(r, CASE c.kind = "register" -> "hash"
                            [] c.kind = "login" -> "find"
                            [] OTHER -> "guard")
               /\ UNCHANGED answer
  /\ before' = [before EXCEPT ![r] = [registered |-> Registered, removed |-> removed]]
  /\ UNCHANGED <<users, now, faults, removed, found>>

(* register: the hash is awaited before anything is written. *)
HashPassword(r) ==
  /\ pc[r] = "hash"
  /\ Goes(r, "insert")
  /\ UNCHANGED <<users, now, faults, removed, call, token, found, answer, before>>

(* Mutant of OnTaken: the violation is not translated. *)
OnTakenRethrow == "INTERNAL_ERROR"

(* register's catch block *)
OnTaken == "EMAIL_ALREADY_REGISTERED"

(* users.create: the unique index decides, not an earlier look. *)
InsertUser(r) ==
  LET email == NormaliseEmail(call[r].email)
  IN  /\ pc[r] = "insert"
      /\ \/ RowOf(email) # {} /\ Ends(r, Refused(OnTaken)) /\ UNCHANGED users
         \/ /\ RowOf(email) = {}
            /\ users' = users \cup {[id |-> r, email |-> email,
                                     digest |-> Digest(call[r].password)]}
            /\ Ends(r, Authenticated(r))
      /\ UNCHANGED <<now, faults, removed, call, token, found, before>>

(* login: the row, or none. *)
FindByEmail(r) ==
  /\ pc[r] = "find"
  /\ Finds(r, TheOne(RowOf(NormaliseEmail(call[r].email))))
  /\ Goes(r, "verify")
  /\ UNCHANGED <<users, now, faults, removed, call, token, answer, before>>

(* login: one password operation whether or not there is an account. *)
VerifyPassword(r) ==
  /\ pc[r] = "verify"
  /\ \/ /\ found[r] = None
        /\ Ends(r, Refused("INVALID_CREDENTIALS"))
     \/ /\ found[r] # None
        /\ ~Verifies(found[r], call[r].password)
        /\ Ends(r, Refused("INVALID_CREDENTIALS"))
     \/ /\ found[r] # None
        /\ Verifies(found[r], call[r].password)
        /\ Ends(r, Authenticated(found[r].id))
  /\ UNCHANGED <<users, now, faults, removed, call, token, found, before>>

(* JwtAuthGuard: a failure is an answer on a protected route and an        *)
(* anonymous caller on a public one.                                       *)
Unauthenticated(r, code) ==
  /\ found' = [found EXCEPT ![r] = None]
  /\ IF Protected(call[r]) THEN Ends(r, Refused(code))
     ELSE Goes(r, "handle") /\ UNCHANGED answer

UsableToken(t) == IF t \in {None, Forged} THEN FALSE ELSE t.expires > now

(* The signature and the expiry, without the database. *)
CheckToken(r) ==
  /\ pc[r] = "guard"
  /\ \/ /\ ~UsableToken(token[r])
        /\ Unauthenticated(r, "AUTHENTICATION_REQUIRED")
     \/ /\ UsableToken(token[r])
        /\ Goes(r, "subject")
        /\ UNCHANGED <<found, answer>>
  /\ UNCHANGED <<users, now, faults, removed, call, token, before>>

(* Mutant of ResolveSubject: the claims are trusted. *)
TrustSubject(r) ==
  /\ pc[r] = "subject"
  /\ Finds(r, [id |-> token[r].sub]) /\ Goes(r, "handle") /\ UNCHANGED answer
  /\ UNCHANGED <<users, now, faults, removed, call, token, before>>

(* JwtStrategy.validate: the subject must still have a row. *)
ResolveSubject(r) ==
  LET row == TheOne(RowById(token[r].sub))
  IN  /\ pc[r] = "subject"
      /\ \/ row = None /\ Unauthenticated(r, "AUTHENTICATION_REQUIRED")
         \/ row # None /\ Finds(r, row) /\ Goes(r, "handle") /\ UNCHANGED answer
      /\ UNCHANGED <<users, now, faults, removed, call, token, before>>

(* AuthController.me reads the row once more; a public handler does not. *)
Handle(r) ==
  /\ pc[r] = "handle"
  /\ IF Protected(call[r]) /\ RowById(found[r].id) = {}
     THEN Ends(r, Refused("USER_NOT_FOUND"))
     ELSE Ends(r, [Reply EXCEPT !.code = "OK",
                                !.user = IF found[r] = None THEN Nothing ELSE found[r].id])
  /\ UNCHANGED <<users, now, faults, removed, call, token, found, before>>

(* A query fails.  The insert may have taken place all the same. *)
QueryFails(r) ==
  /\ Fault
  /\ \/ /\ pc[r] \in {"find", "insert"} \/ (pc[r] = "handle" /\ Protected(call[r]))
        /\ Ends(r, Refused("INTERNAL_ERROR"))
        /\ \/ UNCHANGED users
           \/ /\ pc[r] = "insert" /\ RowOf(NormaliseEmail(call[r].email)) = {}
              /\ users' = users \cup {[id |-> r, email |-> NormaliseEmail(call[r].email),
                                       digest |-> Digest(call[r].password)]}
        /\ UNCHANGED found
     \/ /\ pc[r] = "subject"
        /\ Unauthenticated(r, "INTERNAL_ERROR")
        /\ UNCHANGED users
  /\ UNCHANGED <<now, removed, call, token, before>>

(* No endpoint deletes an account; an operator may. *)
RemoveUser ==
  /\ Cardinality(removed) < MaxRemovals
  /\ \E u \in users : /\ users' = users \ {u}
                      /\ removed' = removed \cup {u.id}
  /\ UNCHANGED <<now, faults, call, pc, token, found, answer, before>>

Tick ==
  /\ now < MaxTime
  /\ now' = now + 1
  /\ UNCHANGED <<users, faults, removed, call, pc, token, found, answer, before>>

Next ==
  \/ \E r \in Requests :
       \/ Arrive(r) \/ HashPassword(r) \/ InsertUser(r) \/ FindByEmail(r)
       \/ VerifyPassword(r) \/ CheckToken(r) \/ ResolveSubject(r) \/ Handle(r)
       \/ QueryFails(r)
  \/ RemoveUser
  \/ Tick

Spec == Init /\ [][Next]_vars

-----------------------------------------------------------------------------
Done(r, kind) == pc[r] = "done" /\ call[r].kind = kind
Same(s, t) == Normal[s] = Normal[t]

(* However many registrations of one address run at once, and however the  *)
(* address is spelled, at most one account exists for it and at most one   *)
(* of them was told of success while the account lasts.                    *)
OneAccountPerAddress ==
  /\ \A u, v \in users : Same(u.email, v.email) => u = v
  /\ \A q, r \in Registered \ removed : Same(call[q].email, call[r].email) => q = r

(* The lost race is answered EMAIL_ALREADY_REGISTERED: a registration is   *)
(* INTERNAL_ERROR only when the database failed (register's catch).        *)
LostRaceExplained ==
  \A r \in Requests :
    Done(r, "register") /\ answer[r].code = "INTERNAL_ERROR" => faults > 0

(* Whoever was told that the account was created can sign in with that     *)
(* password and any spelling of the address, from then on.                 *)
PromisedSignIn ==
  \A r \in Requests :
    Done(r, "login") /\ answer[r].code = "INVALID_CREDENTIALS"
      => ~ \E q \in before[r].registered \ removed :
             /\ Same(call[q].email, call[r].email)
             /\ call[q].password = call[r].password

(* A token is given only to somebody who showed the password of the        *)
(* account it names, and a route acts only for the account of its token.   *)
TokensEarned ==
  \A r \in Requests :
    /\ Done(r, "login") /\ answer[r].code = "OK"
         => LET owner == call[answer[r].user]
            IN  Same(owner.email, call[r].email) /\ owner.password = call[r].password
    /\ call[r] # Nothing /\ call[r].kind \in {"me", "browse"} /\ answer[r].user # Nothing
         => token[r] \notin {None, Forged} /\ token[r].sub = answer[r].user

(* A request that arrives after its account was deleted does not act for   *)
(* it, although the token has not expired (JwtStrategy.validate).          *)
RemovedStaysOut ==
  \A r \in Requests :
    call[r] # Nothing /\ call[r].kind \in {"me", "browse"}
      => answer[r].user \notin before[r].removed

(* Both: a token speaks for a living account whose owner earned it. *)
TokensAreTrue == TokensEarned /\ RemovedStaysOut
=============================================================================
