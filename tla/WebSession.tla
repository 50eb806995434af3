----------------------------- MODULE WebSession -----------------------------
(***************************************************************************)
(* The session of the web client: the token in storage, in React's state   *)
(* and in the API client's reader, the signed-in user, and the requests    *)
(* that are under way while people sign in and out, reload the page, lose  *)
(* the network, and tokens expire.  A state update takes effect on the     *)
(* screen at the next render, which runs the effects of AuthProvider.      *)
(***************************************************************************)
EXTENDS Integers, FiniteSets

CONSTANTS
  Tokens, Owner,   \* tokens the API may issue, and to whom
  Flights,         \* requests that may be under way at once
  MaxCalls,        \* bound on the requests of a run
  MaxReloads,      \* bound on page reloads
  None, Empty

VARIABLES
  issued, valid,       \* the API's side: tokens given out, and still accepted
  stored,              \* localStorage
  token, user, isLoading,   \* AuthProvider's state
  rendered,            \* the token of the last render
  reader,              \* what readToken returns
  flight,              \* the requests under way
  calls, reloads,
  mounted,             \* history: the token in storage when the page was loaded
  tried                \* history: tokens whose check has come to an end

session == <<stored, token, user, isLoading, rendered, reader>>
vars == <<issued, valid, session, flight, calls, reloads, mounted, tried>>

(* A request: me is the check of the token, call any other one made with   *)
(* it, login stands for register as well.  outcome: "none" while the API   *)
(* has not answered; active: the flag in the effect's closure.             *)
Flight == [kind : {"me", "call", "login"}, token : Tokens \cup {None},
           outcome : {"none", "ok", "denied", "lost"}, active : BOOLEAN]

(* What the constants must satisfy; an instance assumes it. *)
NoneIsNobody ==
  /\ None \notin Tokens /\ Empty \notin Tokens \cup {None} \cup Flight
  /\ \A t \in Tokens : Owner[t] # None

Sends(f, kind, t) ==
  /\ calls < MaxCalls
  /\ calls' = calls + 1
  /\ flight[f] = Empty
  /\ flight' = [flight EXCEPT ![f] = [kind |-> kind, token |-> t,
                                      outcome |-> "none", active |-> TRUE]]

-----------------------------------------------------------------------------
(* useState(() => readStoredToken() !== null) *)
StillLoading(t) == t # None

(* The first render of a page; its effects run with the first Render. *)
Mounted(t) ==
  /\ token' = t /\ mounted' = t /\ user' = None /\ isLoading' = StillLoading(t)
  /\ rendered' = Empty /\ reader' = None

Init ==
  /\ issued \in {{}} \cup {{t} : t \in Tokens}
  /\ valid \in {{}, issued}
  /\ stored \in issued \cup {None}
  /\ token = stored /\ user = None /\ isLoading = StillLoading(stored)
  /\ rendered = Empty /\ reader = None
  /\ flight = [f \in Flights |-> Empty]
  /\ mounted = stored /\ calls = 0 /\ reloads = 0 /\ tried = {}

(* Mutant of Deactivated: the effect has no cleanup. *)
KeptActive(fl) == fl

(* The cleanup: the old check is abandoned, its answer ignored. *)
Deactivated(fl) ==
  IF fl # Empty /\ fl.kind = "me" THEN [fl EXCEPT !.active = FALSE] ELSE fl

(* The effect when there is no token: nothing to check. *)
WithoutToken == user' = None /\ isLoading' = FALSE

(* AuthProvider renders with a new token: the layout effect hands it to    *)
(* the client, the other effect drops the old check and starts a new one.  *)
Render ==
  /\ rendered # token
  /\ rendered' = token
  /\ reader' = token
  /\ LET kept == [f \in Flights |-> Deactivated(flight[f])]
     IN  \/ /\ token = None
            /\ WithoutToken
            /\ flight' = kept
            /\ UNCHANGED calls
         \/ /\ token # None
            /\ calls < MaxCalls /\ calls' = calls + 1
            /\ \E f \in Flights :
                 /\ kept[f] = Empty
                 /\ flight' = [kept EXCEPT ![f] = [kind |-> "me", token |-> token,
                                                   outcome |-> "none", active |-> TRUE]]
            /\ UNCHANGED <<user, isLoading>>
  /\ UNCHANGED <<issued, valid, stored, token, reloads, mounted, tried>>

(* LoginPage, RegisterPage *)
SubmitCredentials(f) ==
  /\ rendered # Empty
  /\ Sends(f, "login", None)
  /\ UNCHANGED <<issued, valid, session, reloads, mounted, tried>>

(* Any page makes a request that nothing aborts, such as a mutation. *)
MakeCall(f) ==
  /\ rendered # Empty
  /\ Sends(f, "call", reader)
  /\ UNCHANGED <<issued, valid, session, reloads, mounted, tried>>

(* logout *)
ClearSession ==
  /\ reader' = None /\ token' = None /\ user' = None /\ stored' = None
  /\ UNCHANGED <<isLoading, rendered>>

SignOut ==
  /\ user # None
  /\ ClearSession
  /\ UNCHANGED <<issued, valid, flight, calls, reloads, mounted, tried>>

(* The browser starts over from what is in storage. *)
Reload ==
  /\ reloads < MaxReloads /\ reloads' = reloads + 1
  /\ Mounted(stored)
  /\ flight' = [f \in Flights |-> Empty]
  /\ UNCHANGED <<issued, valid, stored, calls, tried>>

-----------------------------------------------------------------------------
(* The API answers, or the answer is lost; a token may expire any time. *)
Serve(f) ==
  /\ flight[f] # Empty /\ flight[f].outcome = "none"
  /\ \/ /\ flight[f].kind = "login"
        /\ \E t \in Tokens \ issued :
             /\ issued' = issued \cup {t} /\ valid' = valid \cup {t}
             /\ flight' = [flight EXCEPT ![f].outcome = "ok", ![f].token = t]
     \/ /\ flight[f].kind = "login"
        /\ flight' = [flight EXCEPT ![f].outcome = "denied"]
        /\ UNCHANGED <<issued, valid>>
     \/ /\ flight[f].kind # "login"
        /\ flight' = [flight EXCEPT ![f].outcome =
                        IF flight[f].token \in valid THEN "ok" ELSE "denied"]
        /\ UNCHANGED <<issued, valid>>
     \/ /\ flight' = [flight EXCEPT ![f].outcome = "lost"]
        /\ UNCHANGED <<issued, valid>>
  /\ UNCHANGED <<session, calls, reloads, mounted, tried>>

Expire ==
  /\ \E t \in valid : valid' = valid \ {t}
  /\ UNCHANGED <<issued, session, flight, calls, reloads, mounted, tried>>

Answered(f, kind) ==
  /\ flight[f] # Empty /\ flight[f].kind = kind /\ flight[f].outcome # "none"

Lands(f) == flight' = [flight EXCEPT ![f] = Empty]

(* login: the reader, the storage and the state all change at once. *)
SignedIn(f) ==
  /\ Answered(f, "login")
  /\ Lands(f)
  /\ \/ /\ flight[f].outcome = "ok"
        /\ reader' = flight[f].token /\ stored' = flight[f].token
        /\ token' = flight[f].token /\ user' = Owner[flight[f].token]
        /\ isLoading' = FALSE
        /\ UNCHANGED rendered
     \/ flight[f].outcome # "ok" /\ UNCHANGED session
  /\ UNCHANGED <<issued, valid, calls, reloads, mounted, tried>>

(* The check of the token ends.  A check that was aborted throws before    *)
(* the 401 is looked at; an active one passes it to logout first.          *)
CheckEnds(f) ==
  /\ Answered(f, "me")
  /\ Lands(f)
  /\ tried' = tried \cup {flight[f].token}
  /\ \/ ~flight[f].active /\ UNCHANGED session
     \/ /\ flight[f].active /\ flight[f].outcome = "ok"
        /\ user' = Owner[flight[f].token] /\ isLoading' = FALSE
        /\ UNCHANGED <<stored, token, rendered, reader>>
     \/ /\ flight[f].active /\ flight[f].outcome = "lost"
        /\ user' = None /\ isLoading' = FALSE
        /\ UNCHANGED <<stored, token, rendered, reader>>
     \/ /\ flight[f].active /\ flight[f].outcome = "denied"
        /\ reader' = None /\ token' = None /\ user' = None /\ stored' = None
        /\ isLoading' = FALSE
        /\ UNCHANGED rendered
  /\ UNCHANGED <<issued, valid, calls, reloads, mounted>>

(* request: a 401 that answers a request with a token clears the session,  *)
(* whatever the token of the session is by now.                            *)
CallEnds(f) ==
  /\ Answered(f, "call")
  /\ Lands(f)
  /\ \/ flight[f].outcome = "denied" /\ flight[f].token # None /\ ClearSession
     \/ ~(flight[f].outcome = "denied" /\ flight[f].token # None) /\ UNCHANGED session
  /\ UNCHANGED <<issued, valid, calls, reloads, mounted, tried>>

Next ==
  \/ Render \/ SignOut \/ Reload \/ Expire
  \/ \E f \in Flights :
       \/ SubmitCredentials(f) \/ MakeCall(f) \/ Serve(f)
       \/ SignedIn(f) \/ CheckEnds(f) \/ CallEnds(f)

Spec == Init /\ [][Next]_vars

(* React renders what was set, and the browser settles every fetch: an     *)
(* answer, or a network failure in the end.  Nobody has to do anything.    *)
FairSpec ==
  /\ Spec
  /\ WF_vars(Render)
  /\ \A f \in Flights : WF_vars(Serve(f)) /\ WF_vars(SignedIn(f) \/ CheckEnds(f) \/ CallEnds(f))

-----------------------------------------------------------------------------
(* What RequireAuth does with a protected route. *)
Gate == IF isLoading THEN "wait" ELSE IF user = None THEN "redirect" ELSE "show"

Settled ==
  /\ rendered = token
  /\ \A f \in Flights : flight[f] = Empty \/ flight[f].kind # "me"

(* When the screen is up to date and no check is under way, the user on it *)
(* is the one the token belongs to, and the client sends that token: a     *)
(* late answer to an older check does not survive, whatever the order of   *)
(* sign-ins, sign-outs and answers (the active flag).                      *)
SettledUserOwnsToken ==
  Settled => /\ user # None => token # None /\ user = Owner[token]
             /\ reader = token /\ stored = token

(* After a hard refresh a protected route sends a visitor with a stored    *)
(* token to the login page only when the check of that token has ended,    *)
(* whatever else goes on meanwhile (RequireAuth).                          *)
NotBouncedWhileChecking ==
  Gate = "redirect" /\ token # None /\ token = mounted => token \in tried

(* Both: what the session shows, and where it sends people, is true.       *)
SessionIsTrue == SettledUserOwnsToken /\ NotBouncedWhileChecking

(* The route-pending screen does not last: the check ends, or is replaced  *)
(* by another one, or the session is cleared.                              *)
Pending == isLoading /\ calls < MaxCalls
LoadingEnds == Pending ~> ~Pending

(* "401 on an authenticated request means the stored token is no longer    *)
(* usable" (client.ts): the session a 401 clears is the one it was about.  *)
ClearsOwn ==
  \A f \in Flights :
    /\ flight[f] # Empty /\ flight'[f] = Empty
    /\ flight[f].outcome = "denied" /\ flight[f].kind = "call"
    /\ stored # None /\ stored' = None
    => stored = flight[f].token

OnlyOwn401Clears == [][ClearsOwn]_vars
=============================================================================
