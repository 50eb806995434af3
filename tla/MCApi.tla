-------------------------------- MODULE MCApi --------------------------------
(***************************************************************************)
(* Instances of the API's components.                                      *)
(***************************************************************************)
EXTENDS Api

(* Accounts: two people who want one address, each with a password of      *)
(* their own; their tokens expire, are forged, or outlive their account.   *)
LowerCase == [s \in Spellings |-> IF s = "Ann@" THEN "ann@" ELSE s]
CallFor(kind, email, password) == [kind |-> kind, email |-> email, password |-> password]
TheCalls ==
  {CallFor("register", "ann@", "p"), CallFor("register", "Ann@", "q"),
   CallFor("register", "bo@", "short"), CallFor("login", "bo@", "p"),
   CallFor("login", "ann@", "p"), CallFor("login", "ann@", "q"),
   CallFor("me", "ann@", "p"), CallFor("browse", "ann@", "p")}

(* The listing: rows that differ in what the filter looks at. *)
Draw(state, owner, word, startsAt) ==
  [status |-> state, owner |-> owner, word |-> word, startsAt |-> startsAt, endsAt |-> startsAt + 1]
SomeRows == {Draw("PUBLISHED", 1, "a", 0), Draw("PUBLISHED", 1, "a", 1),
             Draw("PUBLISHED", 2, "b", 1), Draw("DRAFT", 1, "a", 1)}
QueryBy(viewer, state, creator, word, upcoming, page, limit) ==
  [viewer |-> viewer, status |-> state, creator |-> creator, word |-> word,
   upcoming |-> upcoming, page |-> page, limit |-> limit]
WalkQueries ==
  {QueryBy(Anonymous, Unset, Unset, Unset, Unset, 1, n) : n \in {0, 1, 2}}
    \cup {QueryBy(1, "DRAFT", Unset, Unset, "yes", 1, 1), QueryBy(2, Unset, 1, "a", "no", 1, 2),
          QueryBy(2, Unset, Unset, "b", "1", 0, 2), QueryBy(1, Unset, Unset, Unset, "", 1, 4),
          QueryBy(1, Unset, Unset, Unset, Unset, 2, 1)}
ClaimQueries ==
  {QueryBy(2, "DRAFT", c, Unset, Unset, 1, 2) : c \in {Unset, 1, 2}}
    \cup {QueryBy(2, Unset, Unset, Unset, f, 1, 2) : f \in {"true", "0", "junk"}}

(* The bodies: PATCHes that move bounds, and values that are no values.     *)
Blank == 0 - 1
Null == 0 - 2
Week == 0 - 3
Junk == 0 - 4
Bare == [create |-> FALSE, startsAt |-> Blank, endsAt |-> Blank, capacity |-> Blank,
         text |-> Blank, timezone |-> Blank]
Whole(from, to) == [create |-> TRUE, startsAt |-> from, endsAt |-> to, capacity |-> Null,
                    text |-> 1, timezone |-> 1]
RangeBodies ==
  {[Bare EXCEPT !.startsAt = s, !.endsAt = t] : s, t \in {Blank} \cup 1..4}
    \cup {[Bare EXCEPT !.capacity = c, !.text = x] : c \in {Blank, Null, 1}, x \in {Blank, 2}}
    \cup {Whole(1, 2), Whole(2, 1)}
OddBodies ==
  {[Bare EXCEPT !.startsAt = s, !.endsAt = t, !.text = x] :
      s, t \in {Blank, Null, Week, Junk, 4}, x \in {Blank, Null}}
    \cup {Whole(Week, 2), Whole(Null, 2), Whole(1, Junk), [Bare EXCEPT !.timezone = Junk]}
    \cup {[Bare EXCEPT !.timezone = Null, !.capacity = 3]}
AllBodies == RangeBodies \cup OddBodies

(* The pipeline: two accounts, two addresses, one request per window. *)
TheBuckets == [r \in {"login", "rsvp", "browse", "health"} |->
                 CASE r = "login" -> "auth" [] r = "rsvp" -> "rsvp"
                   [] r = "browse" -> "default" [] r = "health" -> "none"]
Sent(route, account, bearer, ip, inbound, content) ==
  [route |-> route, account |-> account, token |-> bearer, ip |-> ip,
   inbound |-> inbound, body |-> content]
TheInputs ==
  {Sent("rsvp", a, "good", ip, "none", "fine") : a \in {"ann", "bo"}, ip \in {"office", "home"}}
    \cup {Sent("browse", a, t, "office", "none", "fine") : a \in {"ann", "bo"}, t \in {"none", "good"}}
    \cup {Sent("rsvp", "ann", "bad", "home", "plain", "fine"),
          Sent("login", "ann", "none", "home", "absurd", "invalid"),
          Sent("login", "ann", "none", "home", "plain", "malformed"),
          Sent("login", "ann", "none", "home", "none", "malformed"),
          Sent("health", "ann", "bad", "home", "none", "fine")}

OnePerWindow == [b \in {"auth", "rsvp", "default"} |-> 1]

(* The seed: two events of two places. *)
TheUsers == <<"asha", "ben", "cleo">>
TheEvents == <<"fair", "workshop">>
ThePlaces == <<<<"workshop", "ben">>, <<"workshop", "cleo">>, <<"fair", "ben">>>>
TwoPlaces == [e \in {"fair", "workshop"} |-> 2]

(* The configuration: durations of each kind the two parsers disagree on.  *)
SomeDurations ==
  {[amount |-> 1, unit |-> "h"], [amount |-> 3600, unit |-> ""],
   [amount |-> 2, unit |-> "days"], [amount |-> 0, unit |-> "nonsense"]}
=============================================================================
