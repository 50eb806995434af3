-------------------------- MODULE RequestPipeline ---------------------------
(***************************************************************************)
(* What every request passes through before and after its handler: the     *)
(* body parser, the request id, the two guards in the order AppModule      *)
(* gives them, the validation pipe, and the filter that turns whatever was *)
(* thrown into the error envelope.  Requests overlap: the first guard      *)
(* waits for the database.                                                 *)
(***************************************************************************)
EXTENDS Integers, FiniteSets

CONSTANTS
  Requests,
  Inputs,          \* what the requests may be
  Bucket, Limit,   \* the bucket of a route, "none" for the probes; its limit
  Public,          \* routes marked @Public
  MaxWindows,      \* bound on the windows that pass
  Nobody

VARIABLES
  input, stage,
  requestId, header,   \* x-request-id of the request and of the response
  user,                \* request.user
  hits, window,        \* the throttler's storage: hits per key in this window
  counted,             \* history: the window in which a request was counted
  thrown, reply

vars == <<input, stage, requestId, header, user, hits, window, counted, thrown, reply>>

Routes == DOMAIN Bucket

(* token is good for account, or not; body: what the parser and the pipe   *)
(* think of it; inbound: the caller's x-request-id.                        *)
Input == [route : Routes, account : {"ann", "bo"}, token : {"none", "good", "bad"},
          ip : {"office", "home"}, inbound : {"none", "plain", "absurd"},
          body : {"fine", "invalid", "malformed"}]

(* What the constants must satisfy; an instance assumes it.  loadConfig    *)
(* refuses a limit that is no positive integer.                            *)
PipelineParameters ==
  /\ IsFiniteSet(Requests)
  /\ Inputs \subseteq Input
  /\ \A r \in Routes : Bucket[r] = "none" \/ Limit[Bucket[r]] \in Nat
  /\ Nobody \notin {"ann", "bo"}

Keys == Routes \X ({"ann", "bo", "office", "home"})

Unanswered == [status |-> 0, code |-> "", requestId |-> "none"]

Init ==
  /\ input \in [Requests -> Inputs]
  /\ stage = [q \in Requests |-> "parse"]
  /\ requestId = [q \in Requests |-> input[q].inbound]
  /\ header = [q \in Requests |-> "none"]
  /\ user = [q \in Requests |-> Nobody]
  /\ hits = [k \in Keys |-> 0] /\ window = 0
  /\ counted = [q \in Requests |-> 0 - 1]
  /\ thrown = [q \in Requests |-> "nothing"]
  /\ reply = [q \in Requests |-> Unanswered]

Goes(q, s) == stage' = [stage EXCEPT ![q] = s]
Throws(q, x) == thrown' = [thrown EXCEPT ![q] = x] /\ Goes(q, "filter")
Passes(q, s) == Goes(q, s) /\ UNCHANGED thrown

-----------------------------------------------------------------------------
(* useBodyParser: before everything Nest itself puts in the way. *)
Parse(q) ==
  /\ stage[q] = "parse"
  /\ \/ input[q].body = "malformed" /\ Throws(q, "syntax")
     \/ input[q].body # "malformed" /\ Passes(q, "tag")
  /\ UNCHANGED <<input, requestId, header, user, hits, window, counted, reply>>

(* Mutant of Plausible: any inbound id is taken over. *)
AnyInbound(id) == id # "none"

(* Present, short enough, and of harmless characters. *)
Plausible(id) == id = "plain"

(* RequestIdMiddleware *)
Tag(q) ==
  /\ stage[q] = "tag"
  /\ LET id == IF Plausible(input[q].inbound) THEN input[q].inbound ELSE "fresh"
     IN  /\ requestId' = [requestId EXCEPT ![q] = id]
         /\ header' = [header EXCEPT ![q] = id]
  /\ Passes(q, "authenticate")
  /\ UNCHANGED <<input, user, hits, window, counted, reply>>

(* JwtAuthGuard: a public route goes on without a user. *)
Authenticate(q) ==
  /\ stage[q] = "authenticate"
  /\ \/ /\ input[q].token = "good"
        /\ user' = [user EXCEPT ![q] = input[q].account]
        /\ Passes(q, "throttle")
     \/ /\ input[q].token # "good" /\ input[q].route \in Public
        /\ Passes(q, "throttle")
        /\ UNCHANGED user
     \/ /\ input[q].token # "good" /\ input[q].route \notin Public
        /\ Throws(q, "unauthenticated")
        /\ UNCHANGED user
  /\ UNCHANGED <<input, requestId, header, hits, window, counted, reply>>

(* Mutant of ThrottledUser: the throttler guards first, with no user yet. *)
NoUserYet(q) == Nobody

(* The user the throttler sees: JwtAuthGuard has run before it. *)
ThrottledUser(q) == user[q]

(* getTracker *)
Tracker(q) == IF ThrottledUser(q) # Nobody THEN ThrottledUser(q) ELSE input[q].ip

(* The throttler counts a request per route and tracker, in the one bucket *)
(* the controller has not skipped, and refuses it beyond the limit.        *)
Throttle(q) ==
  /\ stage[q] = "throttle"
  /\ LET route == input[q].route
         key == <<route, Tracker(q)>>
     IN  \/ /\ Bucket[route] = "none"
            /\ Passes(q, "validate")
            /\ UNCHANGED <<hits, counted>>
         \/ /\ Bucket[route] # "none"
            /\ hits' = [hits EXCEPT ![key] = @ + 1]
            /\ counted' = [counted EXCEPT ![q] = window]
            /\ \/ hits[key] < Limit[Bucket[route]] /\ Passes(q, "validate")
               \/ hits[key] >= Limit[Bucket[route]] /\ Throws(q, "throttled")
  /\ UNCHANGED <<input, requestId, header, user, window, reply>>

WindowPasses ==
  /\ window < MaxWindows /\ window' = window + 1
  /\ hits' = [k \in Keys |-> 0]
  /\ UNCHANGED <<input, stage, requestId, header, user, counted, thrown, reply>>

(* ValidationPipe *)
Validate(q) ==
  /\ stage[q] = "validate"
  /\ \/ input[q].body = "invalid" /\ Throws(q, "fields")
     \/ input[q].body # "invalid" /\ Passes(q, "handle")
  /\ UNCHANGED <<input, requestId, header, user, hits, window, counted, reply>>

(* The handler returns or throws; which exception is the data's affair.    *)
(* A foreign key fails when the caller's account is removed under way.     *)
Throwables == {"domain", "forbidden", "foreignKey", "database"}

Handle(q) ==
  /\ stage[q] = "handle"
  /\ \/ /\ Goes(q, "done")
        /\ reply' = [reply EXCEPT ![q] = [status |-> 200, code |-> "", requestId |-> "none"]]
        /\ UNCHANGED thrown
     \/ /\ \E x \in Throwables : Throws(q, x)
        /\ UNCHANGED reply
  /\ UNCHANGED <<input, requestId, header, user, hits, window, counted>>

(* defaultCodeForStatus *)
DefaultCode(status) ==
  CASE status = 400 -> "VALIDATION_FAILED"
    [] status = 401 -> "AUTHENTICATION_REQUIRED"
    [] status = 403 -> "FORBIDDEN"
    [] status = 404 -> "RESOURCE_NOT_FOUND"
    [] status = 429 -> "RATE_LIMIT_EXCEEDED"
    [] status = 503 -> "SERVICE_BUSY"
    [] OTHER -> "INTERNAL_ERROR"

Plain(status) == [status |-> status, code |-> DefaultCode(status)]

(* classify and fromHttpException; a domain exception carries its own pair *)
(* of status and code, here that of RsvpAlreadyExistsException.            *)
Classify(x) ==
  CASE x = "domain" -> [status |-> 409, code |-> "RSVP_ALREADY_EXISTS"]
    [] x = "throttled" -> [status |-> 429, code |-> "RATE_LIMIT_EXCEEDED"]
    [] x = "fields" -> [status |-> 400, code |-> "VALIDATION_FAILED"]
    [] x = "syntax" -> Plain(400)
    [] x = "unauthenticated" -> Plain(401)
    [] x = "forbidden" -> Plain(403)
    [] x = "foreignKey" -> [status |-> 409, code |-> "INTERNAL_ERROR"]
    [] OTHER -> [status |-> 500, code |-> "INTERNAL_ERROR"]

(* toEnvelope: the id is read from the request's header. *)
Filter(q) ==
  /\ stage[q] = "filter"
  /\ reply' = [reply EXCEPT ![q] = [status |-> Classify(thrown[q]).status,
                                    code |-> Classify(thrown[q]).code,
                                    requestId |-> requestId[q]]]
  /\ Passes(q, "done")
  /\ UNCHANGED <<input, requestId, header, user, hits, window, counted>>

Next ==
  \/ WindowPasses
  \/ \E q \in Requests :
       Parse(q) \/ Tag(q) \/ Authenticate(q) \/ Throttle(q) \/ Validate(q) \/ Handle(q) \/ Filter(q)

Spec == Init /\ [][Next]_vars

-----------------------------------------------------------------------------
(* Whose budget a request is on: the account's, or an address's. *)
SamePerson(p, q) ==
  /\ user[p] = user[q]
  /\ user[q] = Nobody => input[p].ip = input[q].ip

SameBudget(q) ==
  {p \in Requests : /\ counted[p] = counted[q] /\ input[p].route = input[q].route
                    /\ SamePerson(p, q)}

Limited(q) == counted[q] >= 0 /\ stage[q] = "done"

(* "one person's retry loop locks out strangers" is what does not happen   *)
(* to an account: it is refused for its own requests of the window alone,  *)
(* whoever shares its address (UserScopedThrottlerGuard).                  *)
OwnBudget ==
  \A q \in Requests :
    Limited(q) /\ reply[q].code = "RATE_LIMIT_EXCEEDED"
      => Cardinality(SameBudget(q)) > Limit[Bucket[input[q].route]]

(* "It lets one account spread its traffic across addresses" is what it    *)
(* does not: in no window are more of its requests let through than the    *)
(* limit of the route, from wherever they come.                            *)
BudgetHolds ==
  \A q \in Requests :
    Limited(q) =>
      Cardinality({p \in SameBudget(q) : Limited(p) /\ reply[p].code # "RATE_LIMIT_EXCEEDED"})
        <= Limit[Bucket[input[q].route]]

(* Both: a budget belongs to one person, wherever they are. *)
BudgetPerPerson == OwnBudget /\ BudgetHolds

(* The id in the envelope is the one on the response and in the log, and   *)
(* is one the middleware would have taken, for every error thrown behind   *)
(* the middleware.                                                         *)
Traceable ==
  \A q \in Requests :
    stage[q] = "done" /\ reply[q].code # "" /\ thrown[q] # "syntax"
      => reply[q].requestId = header[q] /\ reply[q].requestId \in {"plain", "fresh"}

(* "Assigns every request a correlation id" (RequestIdMiddleware), "a user *)
(* can quote it": every error envelope has one.                            *)
EveryErrorTraceable ==
  \A q \in Requests :
    stage[q] = "done" /\ reply[q].code # "" => reply[q].requestId # "none"

(* "503 / 500" (error-codes.ts, INTERNAL_ERROR): a client that branches on *)
(* the code takes INTERNAL_ERROR for a fault of the server.                *)
CodeTellsStatus ==
  \A q \in Requests : reply[q].code = "INTERNAL_ERROR" => reply[q].status = 500
=============================================================================
