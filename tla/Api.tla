--------------------------------- MODULE Api ---------------------------------
(***************************************************************************)
(* The API's components that share no state with RsvpService: accounts,    *)
(* the listing, the bodies of events, the request pipeline, the seed and   *)
(* the configuration.  They do not share state with each other either, so  *)
(* one of them, chosen at the start, moves in each behaviour; the          *)
(* variables of the others are Off.                                        *)
(***************************************************************************)
EXTENDS Integers, Sequences, FiniteSets

CONSTANTS
  Parts,               \* the components that may move
  Off, None, Forged, Nothing, Anonymous, Absent, Unset, Nobody,
  Spellings, Normal, Passwords, TooShort, AccountRequests,      \* Accounts
  AccountCalls, Lifetime, MaxAuthTime, MaxFaults, MaxRemovals,
  Events, Rows, Queries, MaxPageSize, MaxWrites, MaxListTime,   \* EventListing
  Organisers,
  BodyRequests, Bodies, Top,                                    \* EventBodies
  PipelineRequests, Inputs, Bucket, Limit, Public, MaxWindows,  \* RequestPipeline
  UserSeq, EventSeq, PlaceSeq, SeedCapacity, Visitors, Online,  \* Seed
  MaxMoves, MaxKills,
  IntegerKeys, Durations, MinSecret                             \* Configuration

VARIABLES
  part,
  users, authNow, faults, removed, call, authPc, token, found, authAnswer, authBefore,
  table, listNow, writes, opened, query, phase, data, total, seen, steady, came, left,
  row, there, confirmedCount, bodyPc, body, owned, bodyAnswer, bodyBefore, after,
  input, stage, requestId, header, user, hits, window, counted, thrown, reply,
  seedUsers, capacity, seedCount, status, at, tally, outcome, moves, kills,
  env, bootPhase, errors, restarts

accountVars == <<users, authNow, faults, removed, call, authPc, token, found, authAnswer, authBefore>>
listingVars == <<table, listNow, writes, opened, query, phase, data, total, seen, steady, came, left>>
bodyVars == <<row, there, confirmedCount, bodyPc, body, owned, bodyAnswer, bodyBefore, after>>
pipelineVars == <<input, stage, requestId, header, user, hits, window, counted, thrown, reply>>
seedVars == <<seedUsers, capacity, seedCount, status, at, tally, outcome, moves, kills>>
bootVars == <<env, bootPhase, errors, restarts>>
vars == <<part, accountVars, listingVars, bodyVars, pipelineVars, seedVars, bootVars>>

-----------------------------------------------------------------------------
Account == INSTANCE Accounts WITH
  now <- authNow, pc <- authPc, answer <- authAnswer, before <- authBefore,
  Requests <- AccountRequests, Calls <- AccountCalls, MaxTime <- MaxAuthTime

Listing == INSTANCE EventListing WITH now <- listNow, MaxTime <- MaxListTime

EventBody == INSTANCE EventBodies WITH
  pc <- bodyPc, answer <- bodyAnswer, before <- bodyBefore, Requests <- BodyRequests

Pipeline == INSTANCE RequestPipeline WITH Requests <- PipelineRequests

Seeding == INSTANCE Seed WITH
  users <- seedUsers, confirmedCount <- seedCount, counted <- tally

Boot == INSTANCE Configuration WITH phase <- bootPhase

ASSUME PartsAreCoherent ==
  /\ Account!AccountParameters /\ Listing!ListingParameters
  /\ EventBody!BodiesAreBodies /\ Pipeline!PipelineParameters /\ Seeding!SeedIsCoherent
  /\ Boot!ConfigurationParameters
  /\ Parts \subseteq {"accounts", "listing", "bodies", "pipeline", "seed", "boot"}

-----------------------------------------------------------------------------
NoAccounts ==
  /\ users = Off /\ authNow = Off /\ faults = Off /\ removed = Off /\ call = Off /\ authPc = Off
  /\ token = Off /\ found = Off /\ authAnswer = Off /\ authBefore = Off
NoListing ==
  /\ table = Off /\ listNow = Off /\ writes = Off /\ opened = Off /\ query = Off /\ phase = Off /\ data = Off
  /\ total = Off /\ seen = Off /\ steady = Off /\ came = Off /\ left = Off
NoBodies ==
  /\ row = Off /\ there = Off /\ confirmedCount = Off /\ bodyPc = Off /\ body = Off
  /\ owned = Off /\ bodyAnswer = Off /\ bodyBefore = Off /\ after = Off
NoPipeline ==
  /\ input = Off /\ stage = Off /\ requestId = Off /\ header = Off /\ user = Off
  /\ hits = Off /\ window = Off /\ counted = Off /\ thrown = Off /\ reply = Off
NoSeed ==
  /\ seedUsers = Off /\ capacity = Off /\ seedCount = Off /\ status = Off /\ at = Off
  /\ tally = Off /\ outcome = Off /\ moves = Off /\ kills = Off
NoBoot == env = Off /\ bootPhase = Off /\ errors = Off /\ restarts = Off

Init ==
  /\ part \in Parts
  /\ IF part = "accounts" THEN Account!Init ELSE NoAccounts
  /\ IF part = "listing" THEN Listing!Init ELSE NoListing
  /\ IF part = "bodies" THEN EventBody!Init ELSE NoBodies
  /\ IF part = "pipeline" THEN Pipeline!Init ELSE NoPipeline
  /\ IF part = "seed" THEN Seeding!Init ELSE NoSeed
  /\ IF part = "boot" THEN Boot!Init ELSE NoBoot

Next ==
  \/ /\ part = "accounts" /\ Account!Next
     /\ UNCHANGED <<part, listingVars, bodyVars, pipelineVars, seedVars, bootVars>>
  \/ /\ part = "listing" /\ Listing!Next
     /\ UNCHANGED <<part, accountVars, bodyVars, pipelineVars, seedVars, bootVars>>
  \/ /\ part = "bodies" /\ EventBody!Next
     /\ UNCHANGED <<part, accountVars, listingVars, pipelineVars, seedVars, bootVars>>
  \/ /\ part = "pipeline" /\ Pipeline!Next
     /\ UNCHANGED <<part, accountVars, listingVars, bodyVars, seedVars, bootVars>>
  \/ /\ part = "seed" /\ Seeding!Next
     /\ UNCHANGED <<part, accountVars, listingVars, bodyVars, pipelineVars, bootVars>>
  \/ /\ part = "boot" /\ Boot!Next
     /\ UNCHANGED <<part, accountVars, listingVars, bodyVars, pipelineVars, seedVars>>

Spec == Init /\ [][Next]_vars

-----------------------------------------------------------------------------
(* What the components promise; each claim is stated, with the code it is  *)
(* about, in the module of its component.                                  *)

(* A walk through the pages of the listing shows every event that stayed   *)
(* in its place, once (EventsService.findMany's order and page).           *)
WalkIsExact == part = "listing" => Listing!WalkIsExact

(* A walk through the upcoming events misses none that is still in         *)
(* progress (EventsService.buildListFilter).                               *)
InProgressListed == part = "listing" => Listing!InProgressListed

(* Racing registrations of one address, however spelled, make one account  *)
(* (UsersService.create and the unique index).                             *)
OneAccountPerAddress == part = "accounts" => Account!OneAccountPerAddress

(* Who was told the account exists can sign in to it while it lasts        *)
(* (AuthService.register, AuthService.login).                              *)
PromisedSignIn == part = "accounts" => Account!PromisedSignIn

(* The registration that lost the race is told why (register's catch).     *)
LostRaceExplained == part = "accounts" => Account!LostRaceExplained

(* Tokens are earned with the account's password and die with the account  *)
(* (JwtStrategy.validate).                                                 *)
TokensAreTrue == part = "accounts" => Account!TokensAreTrue

(* Overlapping PATCHes of one event leave each other's fields alone and    *)
(* never reach a CHECK constraint (EventsService.update).                  *)
PatchesCompose == part = "bodies" => EventBody!PatchesCompose

(* A person's requests are limited by that person's own requests, from     *)
(* whatever address (UserScopedThrottlerGuard.getTracker).                 *)
BudgetPerPerson == part = "pipeline" => Pipeline!BudgetPerPerson

(* The id in an error is the one on the response (RequestIdMiddleware and  *)
(* AllExceptionsFilter).                                                   *)
Traceable == part = "pipeline" => Pipeline!Traceable

(* A seed that ends well leaves the one database there is, or the counters *)
(* its rows say, whatever was killed or moved before it (seed.ts).         *)
SeedConverges == part = "seed" => Seeding!SeedConverges

(* Correcting what the reports name leads in two rounds to a deployment    *)
(* that is what its environment says (loadConfig).                         *)
CorrectionsSucceed == part = "boot" => Boot!CorrectionsSucceed

-----------------------------------------------------------------------------
(* What docs and comments say that the code does not do; each in a         *)
(* configuration of its own.                                               *)

(* Only its organiser is shown a draft (list-events-query.dto.ts).         *)
DraftsPrivate == part = "listing" => Listing!DraftsPrivate

(* A flag that is neither true nor false is reported                       *)
(* (list-events-query.dto.ts).                                             *)
JunkReported == part = "listing" => Listing!JunkReported

(* A null bound moves no event (SECURITY.md).                              *)
NullMovesNothing == part = "bodies" => EventBody!NullMovesNothing

(* No body makes the API answer 500 (all-exceptions.filter.ts).            *)
ClientsFaultIsTheirs == part = "bodies" => EventBody!ClientsFaultIsTheirs

(* INTERNAL_ERROR comes with 500 (error-codes.ts).                         *)
CodeTellsStatus == part = "pipeline" => Pipeline!CodeTellsStatus

(* Every error carries an id (RequestIdMiddleware).                        *)
EveryErrorTraceable == part = "pipeline" => Pipeline!EveryErrorTraceable

(* The seed can be re-run after manual changes (seed.ts).                  *)
RerunLeavesConsistent == part = "seed" => Seeding!RerunLeavesConsistent

(* The seed never leaves the counters wrong (seed.ts).                     *)
SeedNeverDisagrees == part = "seed" => Seeding!SeedNeverDisagrees

(* One round of corrections suffices (configuration.ts).                   *)
FixedInOnePass == part = "boot" => Boot!FixedInOnePass

(* What has started can sign tokens (configuration.ts, auth.module.ts).    *)
RunningSigns == part = "boot" => Boot!RunningSigns

(* A lifetime that is told is the token's (parseDurationToSeconds).        *)
ToldLifetimeIsTrue == part = "boot" => Boot!ToldLifetimeIsTrue
=============================================================================
