---------------------------- MODULE Configuration ---------------------------
(***************************************************************************)
(* What loadConfig makes of the environment, and a deployment around it:   *)
(* start, read the report, correct what it names, start again.  A started  *)
(* API signs tokens and tells clients how long they live.                  *)
(***************************************************************************)
EXTENDS Integers, FiniteSets

CONSTANTS
  IntegerKeys,       \* PORT and the limits: positive integers
  Durations,         \* values of JWT_EXPIRES_IN: an amount and a unit
  MinSecret          \* MIN_JWT_SECRET_LENGTH

Missing == 0 - 1

(* Raw values, by what the readers tell apart.  A secret is its length, an *)
(* integer itself or NotANumber, the list of origins a set.                *)
NotANumber == 0 - 2
Environments ==
  [NODE_ENV : {"unset", "development", "test", "production", "prod"},
   DATABASE_URL : {"unset", "url"},
   JWT_SECRET : {Missing, MinSecret - 1, MinSecret},
   JWT_EXPIRES_IN : Durations,
   CORS_ORIGIN : SUBSET {"*", "https://site"},
   TRUST_PROXY : {"unset", "YES", "0", "maybe"},
   integers : [IntegerKeys -> {Missing, NotANumber, 0, 5}]]

(* What the constants must satisfy; an instance assumes it. *)
ConfigurationParameters ==
  /\ MinSecret \in Nat
  /\ IntegerKeys \cap {"NODE_ENV", "DATABASE_URL", "JWT_SECRET", "CORS_ORIGIN", "TRUST_PROXY"} = {}

VARIABLES
  env,
  phase,             \* "stopped", "refused" or "running"
  errors,            \* the variables the last start complained about
  restarts

vars == <<env, phase, errors, restarts>>

-----------------------------------------------------------------------------
optional(value, fallback) == IF value = "unset" THEN fallback ELSE value

required(value) == value # "unset"

integer(value) == value = Missing \/ value > 0

boolean(value) == value \in {"unset", "YES", "0"}

nodeEnvValid(e) ==
  optional(e.NODE_ENV, "development") \in {"development", "test", "production"}

(* collect: an unreadable NODE_ENV counts as development from here on.     *)
parseNodeEnv(e) ==
  IF nodeEnvValid(e) THEN optional(e.NODE_ENV, "development") ELSE "development"

parseCorsOrigins(e) == parseNodeEnv(e) = "production" => "*" \notin e.CORS_ORIGIN

secretValid(e) == e.JWT_SECRET >= MinSecret     \* required, then its length

Faults(e) ==
  {k \in {"NODE_ENV"} : ~nodeEnvValid(e)}
    \cup {k \in {"DATABASE_URL"} : ~required(e.DATABASE_URL)}
    \cup {k \in {"JWT_SECRET"} : ~secretValid(e)}
    \cup {k \in {"CORS_ORIGIN"} : ~parseCorsOrigins(e)}
    \cup {k \in IntegerKeys : ~integer(e.integers[k])}
    \cup {k \in {"TRUST_PROXY"} : ~boolean(e.TRUST_PROXY)}

(* Mutant of loadConfig: the first error is thrown where it is found.      *)
loadConfigAtOnce(e) ==
  IF Faults(e) = {} THEN {} ELSE {CHOOSE k \in Faults(e) : TRUE}

(* All errors are collected and thrown together. *)
loadConfig(e) == Faults(e)

Init ==
  /\ env \in Environments
  /\ phase = "stopped" /\ errors = {} /\ restarts = 0

Start ==
  /\ phase = "stopped"
  /\ errors' = loadConfig(env)
  /\ phase' = IF errors' = {} THEN "running" ELSE "refused"
  /\ UNCHANGED <<env, restarts>>

(* The operator gives every variable of the report, and no other, a value  *)
(* the message asks for.                                                   *)
Fix ==
  /\ phase = "refused" /\ phase' = "stopped" /\ restarts' = restarts + 1
  /\ env' \in {[env EXCEPT
       !.NODE_ENV = IF "NODE_ENV" \in errors THEN n ELSE @,
       !.DATABASE_URL = IF "DATABASE_URL" \in errors THEN "url" ELSE @,
       !.JWT_SECRET = IF "JWT_SECRET" \in errors THEN MinSecret ELSE @,
       !.CORS_ORIGIN = IF "CORS_ORIGIN" \in errors THEN @ \ {"*"} ELSE @,
       !.TRUST_PROXY = IF "TRUST_PROXY" \in errors THEN "YES" ELSE @,
       !.integers = [k \in IntegerKeys |-> IF k \in errors THEN 5 ELSE @[k]]] :
         n \in {"development", "test", "production"}}
  /\ UNCHANGED errors

Next == Start \/ Fix
Spec == Init /\ [][Next]_vars

-----------------------------------------------------------------------------
(* The lifetime of a token. *)
SecondsPer(unit) ==
  CASE unit \in {"", "s"} -> 1 [] unit = "m" -> 60 [] unit = "h" -> 3600 [] unit = "d" -> 86400

(* What AuthService tells the client, 0 for a value it does not know.      *)
parseDurationToSeconds(d) ==
  IF d.unit \in {"", "s", "m", "h", "d"} THEN d.amount * SecondsPer(d.unit) ELSE 0

(* What jsonwebtoken makes of the same string: an amount without a unit is *)
(* milliseconds, words are units too, and nonsense makes sign throw.       *)
Unsigned == 0 - 3
SignedFor(d) ==
  CASE d.unit = "nonsense" -> Unsigned
    [] d.unit = "" -> d.amount \div 1000
    [] d.unit = "days" -> d.amount * 86400
    [] OTHER -> d.amount * SecondsPer(d.unit)

Running == phase = "running"

-----------------------------------------------------------------------------
(* What runs is sound, whatever the operator corrected in whatever order:  *)
(* "*" is never among production's origins (parseCorsOrigins), and         *)
(* production is what the environment asks for.                            *)
BootedIsSound ==
  Running =>
    /\ env.NODE_ENV = "production" => "*" \notin env.CORS_ORIGIN
    /\ env.NODE_ENV # "prod" /\ secretValid(env) /\ required(env.DATABASE_URL)

(* However much is wrong, two rounds of corrections suffice.               *)
FixedInTwoPasses == restarts <= 2

(* Both: corrections lead, and lead soon, to a sound deployment. *)
CorrectionsSucceed == BootedIsSound /\ FixedInTwoPasses

(* "Reported together so a misconfigured deployment can be fixed in one    *)
(* pass instead of one restart per bad variable" (loadConfig).             *)
FixedInOnePass == restarts <= 1

(* It "refuses to boot on a bad value", instead of "a 500 on a user's      *)
(* request hours later" (configuration.ts); and the lifetime "is validated *)
(* as a duration" there (auth.module.ts).                                  *)
RunningSigns == Running => SignedFor(env.JWT_EXPIRES_IN) # Unsigned

(* "so a client never refreshes on a number this code invented"            *)
(* (parseDurationToSeconds): a lifetime that is told is the token's.       *)
ToldLifetimeIsTrue ==
  Running =>
    parseDurationToSeconds(env.JWT_EXPIRES_IN) \in {0, SignedFor(env.JWT_EXPIRES_IN)}
=============================================================================
