# Verification of the Ritual events system

TLA+ specifications of the events and RSVP system in this repository: the API,
its seed and its web client, checked with TLC on small instances; nearly all
safety properties of them, and the refinement of the core, are also proved with
TLAPS for every instance. Paths below are relative to the repository.

## 1. The system

A NestJS API over PostgreSQL (Prisma) and a React client. People join events
with limited places; who does not fit waits in a queue; a confirmed person who
leaves hands the place to the head of the queue in the same transaction. Several
API processes may serve one database.

| Part | State | Operations | What makes it correct |
|---|---|---|---|
| RSVP write path `src/rsvp/rsvp.service.ts` | `rsvps` rows, `events.confirmed_count` | `createRsvp`, `cancelRsvp` with `promoteNextWaitlisted` | never more confirmed than places; counter = rows; a freed place goes to the head of the queue; no overtaking |
| RSVP reads, same file and controller | none: statements outside any common transaction | `listAttendees`, `listMyRsvps`, `getViewerRsvp`, `findOne` | an answer is explained by states the question met; the attendee list is for participants |
| Event lock `src/events/event-lock.ts` | PostgreSQL row lock | `lockEventRow` | what was read under the lock is true at the commit |
| Transaction runner `src/rsvp/rsvp-transaction.ts` | attempt counter | `runRsvpTransaction` | a retry repeats nothing that took effect, attempts are bounded |
| Idempotency `src/rsvp/idempotency.service.ts` | `idempotency_records` | `findStoredOutcome`, `record` | one effect per key, all answers under a key agree, an error means nothing was recorded |
| Events service `src/events/events.service.ts` | `events` rows | `create`, `update`, `remove`, `findOne`, `findMany` | ownership, coherent times, partial PATCHes that compose, paging that misses nothing |
| Schema `prisma/` | tables, unique indexes, CHECKs | | the CHECKs are never what stops a write |
| Accounts `src/auth`, `src/users` | `users` rows, tokens outside | register, login, `me`, the guard | one account per address; a token is earned and dies with its account |
| Request pipeline `src/main.ts`, `src/app.module.ts`, `src/common` | throttler counters, request id, `request.user` | parser, request id, guards, pipe, filter | own budget per person; an id on every answer the middleware saw |
| Health `src/health` | connections of the pool | `SELECT 1` raced with a timer | answers are current, and readiness comes back after an outage |
| Configuration `src/config` | none | `loadConfig`, `parseDurationToSeconds` | correcting what is reported leads to a start |
| Seed `prisma/seed.ts` | the tables | upserts, derived counters | a run that ends well leaves the database it describes |
| Web session `frontend/src/auth`, `api/client.ts` | token in storage and in state, user | sign-in, sign-out, startup check, 401 | the user on display owns the token |
| Event page, form, lists, organiser's page `frontend/src/pages` | React state, requests in flight | loads, mutations, history jumps | a load the page has left is ignored, except those sent without a signal; after a join the page shows what the API has; waiting ends |
| Toasts `frontend/src/components/Toast.tsx` | the last two messages, timers | notify, hover, focus, close | an unattended one goes |

Requests interact only through the database: the row lock of an event
serialises joins, cancellations and PATCHes of it; DELETE waits for the same
lock without asking for it by name; idempotency records of two events meet on a
unique index and nowhere else; reads take no lock. The client interacts with the
API through calls whose answers arrive in any order, late, or not at all. What
is hard is listed, line by line, under `hazards` in `PROJECT.json`.

## 2. Modules

| Module | Contents |
|---|---|
| `RsvpBook` | abstract specification: who is confirmed, who waits since when, under which terms; one atomic step per successful request |
| `RsvpService` | the write path statement by statement; implements `RsvpBook` |
| `RsvpReads` | the reads, statement by statement, beside the requests of `RsvpService`, which it extends |
| `RsvpServiceProofs`, `RsvpIdempotencyProofs`, `RsvpQueueProofs` | theorems about `RsvpService` and their proofs: types, isolation, counter and capacity; keys; the queue and the refinement of `RsvpBook` |
| `RsvpReadsProofs` | theorems about the reads |
| `ServiceClaims` | what documents and comments say of the write path, with a history of real arrival times |
| `EventListing` | `findMany`: filter, order, page arithmetic, and a reader who walks the pages |
| `EventBodies` | the bodies of POST and PATCH, validated, compared with the row and merged into it |
| `Accounts` | registration, sign-in, `me`, the guard, await by await |
| `RequestPipeline` | parser, request id, guards in their order, pipe, handler, error filter |
| `Seed` | the demo seed, killed, repeated, and beside the API |
| `Configuration` | the environment, start, report, correction |
| `HealthProbe` | readiness probes over a connection pool |
| `WebSession` | the token, the user, and requests in flight |
| `EventPage` | the event page and the API's answer to it |
| `EventForm` | the organiser's form with its local times |
| `ListPages` | the load effect that three list pages share |
| `ManagePage` | the organiser's page of one event |
| `Toasts` | the stack of two messages and its timers |
| `Ordering`, `OrderingProofs` | what ORDER BY returns, for the two listings above, and that it holds each row at its rank |
| `Api`, `Clients` | the components that share no state with the write path, the API's and the client's with the prober, each with parameters of its own. In each behaviour one component, chosen at the start from `Parts`, takes its steps; the variables of the others are `Off`. One run then covers what would otherwise be six or seven, no product of unrelated states is explored, and a theorem about one component is about all its behaviours |
| `AccountProofs`, `ApiProofs`, `ClientProofs` | theorems about the components of `Api` and `Clients` |
| `MCRsvpService`, `MCServiceClaims`, `MCRsvpReads`, `MCApi`, `MCClients` | instances: the values of the constants |

### RsvpService

| TLA+ | Code |
|---|---|
| `event`, `rsvp`, `idem` | the three tables as committed; a deleted event is `Gone` |
| `lock[e]` | the row lock `SELECT ... FOR UPDATE` takes |
| `work[r]` | the uncommitted writes of request `r` and the response it built |
| `seen[r]` | the `Event` that `lockEventRow` returned |
| `pc[r]` | the next statement: `lookup` (keyed join) or `owned` (organiser), `lock`, `work`, `record` (keyed join), `commit`, `done`; `lookAgain` is the catch block of `createRsvp` |
| `Arrive` | controller methods; an unusable key is no key |
| `Lookup`, `LookAgain` | the two `findStoredOutcome` calls of `createRsvp` |
| `CheckOwner` | `findOwnedOrThrow`, outside the transaction |
| `LockEvent` | `lockEventRow` |
| `DecideJoin`, `DecideLeave`, `DecideUpdate` | the body of the transaction up to its writes |
| `Record`, `Commit` | `IdempotencyService.record`, the end of `$transaction` |
| `Remove` | `EventsService.remove`: one statement, no transaction of its own |
| `TransactionFails`, `CommitUnacknowledged`, `ReadFails`, `Die` | failures of the database, of the network, of a process |

The statements between the lock and the commit read only the locked event and
its RSVP rows, which no other transaction writes meanwhile (`SeenIsCurrent`
checks and proves the half of this that is not by construction), so they are one
action. The insert of the idempotency record is an action of its own because it
can wait for, and collide with, a transaction on another event.

A row's CHECK constraints are not enforced by the model; that the code never
leans on them is `ConstraintsNeverNeeded`, which is also proved. User ids stand for the ids of the
users' RSVP rows, which break ties in the queue; rows keep their id when a user
re-joins, as in the code. Free-text fields, title filters and logging are left
out. Both instants `performRsvp` reads (the end-of-event check and `queuedAt`)
are one reading of the process's clock.

### RsvpReads

A reader (`question`) is at a statement (`at`): `ReadEvent`, `ReadViewerRow`,
`ReadPlace` are `findOne` with `getViewerRsvp`; `CheckOrganiser`,
`CheckParticipant`, `ReadRosterPage`, `CountRoster` the attendee list behind
`assertMaySeeAttendees`; `ReadMyPage`, `ReadMyPlace` `listMyRsvps`, whose
positions are queries of their own. A `$transaction([a, b])` runs READ COMMITTED,
so its two statements see two snapshots and are two actions. `witnessed` records
what was true of the question at some moment since it was asked: the claims say
that every part of an answer was, and that a waitlist position derived from a
page offset is the position at the moment of the page.

### The API beside the RSVPs

* `EventListing`: `ReadPage` and `ReadCount` are the two statements of
  `findMany`; `Refuse` is the validation pipe; `NextPage` the client's button.
  `ToBoolean` is the transform of the flag, which no validator follows: what it
  cannot read goes on to the service as it is.
* `Accounts`: `HashPassword`, `InsertUser` (with `OnTaken`, the catch for the
  unique index), `FindByEmail`, `VerifyPassword`, `CheckToken`,
  `ResolveSubject`, `Handle`. A digest is the password it was made from, a token
  its subject and expiry; signatures are a library's.
* `EventBodies`: `Validate`, `Create`, `FindOwned`, `Update`; `Satisfies` is the
  migration's CHECK. Values keep the distinctions the code makes: absent, null,
  a calendar date that `Date` reads, a week date that it does not. `IsOptional`
  lets null and absent through alike.
* `RequestPipeline`: one action per stage. The limiter's counting is modelled as
  a fixed window per key; `Tracker` is the repository's choice of key.
* `Seed`: one action per statement, the derivation of the counters in two: one
  UPDATE under READ COMMITTED counts in the snapshot it starts with and then
  waits for the row's lock, after which PostgreSQL re-reads the locked row but
  not the rows of the subquery.
* `Configuration`: `Start` is `loadConfig`, `Fix` an operator who corrects
  exactly what was reported. `ToldLifetimeIsTrue` compares
  `parseDurationToSeconds` with the library that signs, whose default unit is
  the millisecond.

### The clients

* `WebSession`: a state update is on the screen at the next `Render`, which runs
  AuthProvider's effect; `Serve` is the API's answer, `SignedIn`, `CheckEnds`,
  `CallEnds` its arrival in the browser; `Reload` drops everything but storage.
* `EventPage`: a request is `Ask`ed, `Serve`d, `Travels` back (whole, lost, or
  broken off after its headers) and lands; `AbortedByCleanup` marks the load the
  effect aborts. The loads of "Try again" and of a handler carry no signal, so
  nothing aborts them (`Unguarded`). `stray` remembers that such loads got in the
  page's way: one of them, or a handler about to start one, was under way when
  the effect ran, or one was sent beside another load. It is reset when the effect
  next runs with none of these under way; no guard reads it.
  `SlowLoadIgnored` and `JoinIsReadBack` speak of the page while `stray` is false,
  because the code orders such loads by nothing: after a jump one of them puts its
  event on another's page, and of two that overlap the older may land last.
  "Try again" clears the error at once, so after a failed read-back the event of
  before the join is on screen, with its button, until the new load lands;
  `JoinIsReadBack` excepts just that time.
* `EventForm`: walls and instants are small integers around one change of the
  clocks; `resolveEventTime` keeps an instant whose wall clock and zone were not
  touched. The blocker of react-router registers its predicate in an effect that
  runs after the page's own, so a navigation made by the page's effect is judged
  by the predicate of the render before (`Arrives`). Links leave the form;
  only history jumps keep it mounted on another event.
* `ListPages`, `ManagePage`: `Turn`, `Choose`, `Jump` change what is asked,
  `Settle`, `ReadEvent`, `ReadRows`, `LoadFails` bring answers, and `Lands` and
  `Finally` are the tests of the abort flag.
* `Toasts`: `Countdown` is the effect that starts and clears the timer.
* `HealthProbe`: the promise race drops the loser and cancels nothing, so a hung
  query keeps its connection (`holding`), or its place in the pool's queue
  (`waiting`), until the database lets it go.

## 3. What TLC checks

| Run | Question | Instance |
|---|---|---|
| `contention` | do joins, cancellations and capacity changes keep counter, capacity and queue order? | 3 users, 4 requests, capacities 1, 2, unlimited, one clock step |
| `organiser` | do status, time and waitlist changes and deletion interleave safely; is each commit one step of `RsvpBook`? | 2 users, 3 requests, an event that ends after one clock step |
| `idempotency` | is there one effect per key and one answer; do locks and effects survive failures at every statement? | 2 events, 1 key, 3 requests, 2 failures, 2 attempts |
| `answered` | is everybody answered? | 2 events, 1 key, 3 requests, 1 failure, under `FairSpec` |
| `reads` | what may a reader be told beside writers? | 3 users, 3 writers, 1 reader of each kind, an event that is published, ends or is deleted |
| `api` | do the listing, accounts, bodies, pipeline, seed and configuration keep what they promise? | see below |
| `clients` | is what the client shows true, whatever the order and loss of answers? | see below |
| `progress` | does every waiting state end, every probe get its answer, readiness return, a toast go? | the same components on smaller instances, with the prober and the toasts, under `FairSpec` |
| `idle_place` | does free capacity reach the queue, as documented? (violated) | 2 users, 3 requests |
| `late_401` | does a 401 end the session it was about? (violated) | 2 people in one browser |
| `page_wasnt_changed` | is "Your RSVP wasn't changed" true? (violated) | 1 event, 1 broken answer |
| `manage_delete` | is what is deleted what the dialog named? (violated) | 3 events, 1 jump |

Bounds of the RSVP runs. Four requests on one event are enough for the shortest
harmful histories: one confirmed, two waiting, one leaver; three distinct users
let the tie-break and the order differ. Two places make "full" different from
"one". The code makes three attempts; the runs with failures give the runner two
and the environment two failures, which is the same exhaustion one step earlier,
and is also enough for a lost acknowledgement followed by a failed retry. Each
request is made once, so no counter grows. Request slots are interchangeable
(symmetry), except in the liveness run.

Bounds of `api`. Accounts: three requests, three spellings of two addresses, one
clock step for expiry, one failing query, one removed account. Listing: three
events, pages of up to three, eight queries, one of them opening at the second
page, one write during the walk, two clock steps. Bodies: two overlapping requests over every combination of the
bounds and of the odd values. Pipeline: two overlapping requests, four routes,
two accounts behind two addresses, a limit of one per window and two windows, so
that the second request of a person is over the limit. Seed: two events, three
seats, two kills, four moves of people between runs (`Online = FALSE`).
Configuration: every environment of three kinds of variables, corrected until it
starts.

Bounds of `clients` and `progress`. Session: two people, three requests in
flight, four calls, one reload. Page: two events that are alike
(`PageSymmetry`), six requests, one lost or broken answer, one jump, one promotion
by others; six are enough for a join, a failed read-back, a retry, a second join
pressed before the retry lands, and its own reload. Form: two events of which one
is somebody else's, three zones of which one changes its clocks and one is
unknown, two loads, edits and saves. Lists: two views of up to two rows, four
loads. Organiser's page: three events of which one is foreign, three loads, one
change by others. Toasts: three messages in a stack of two. Probes: three over
two connections, two outages, two queries left hanging. `progress` uses the same
with one event less, or one call less, where liveness would not fit otherwise.

Fairness. For the API, weak fairness of each request's own steps: Node resumes a
settled await and PostgreSQL grants a row lock in arrival order, so with finitely
many requests the lock comes free for good. For the client, of React's render, of
the end of each call (`fetch` settles, if only by failing), and of timers. For
the probe, of time, of the poller, and of the driver, which ends abandoned
queries once the database is up. People, clocks of the API, organisers,
outages and failures owe nothing. The waiting states are stated away from the
bound on calls (`Pending`).

### What the checks found

* `idle_place`: `EventsService.update` promotes nobody when it raises the
  capacity, although `docs/DATA_MODEL.md` says that available capacity promotes
  the earliest waitlisted; the next joiner takes the place.
* `late_401`: any 401 to a request with a token clears the session, also when
  the token was replaced since.
* `page_wasnt_changed`: `request()` wraps `fetch` and not the reading of the
  body, so an answer that breaks off is no `ApiError`, and the page says that
  nothing changed although the API has done it.
* `manage_delete`: the deletion takes the id of the route when it is confirmed;
  after a jump in the history that is another event.

Further configurations reproduce, with `tlc -config <file> <module>`, smaller
disagreements between a comment or a document and the code. The first four in
the table have one property each and end in a counterexample to it;
`MCApiClaims` and `MCClientClaims` list several, of which TLC reports the first
that it finds broken: keep one line of the list to see another.

| Configuration, module | Property | The code |
|---|---|---|
| `MCLiftedLimit`, `MCServiceClaims` | `CancellationPromotes` | once the capacity is null, `promoteNextWaitlisted` returns at once, against `docs/API_SPEC.md:298` |
| `MCQueueTwoClocks`, `MCServiceClaims` | `LongestWaitingPromoted` | `queuedAt` is a process's clock; "longest-waiting" holds as far as the clocks agree |
| `MCDeleteTwice`, `MCServiceClaims` | `MissingRowHandled` | the second of two DELETEs is answered `INTERNAL_ERROR`; the code listed as handled in `prisma.service.ts:81` is not used |
| `MCSeedOnline`, `MCApi` | `SeedNeverDisagrees` | the derived counter misses a join that commits while the UPDATE waits |
| `MCApiClaims`, `MCApi` | `DraftsPrivate` | `createdById` replaces the viewer in the filter that keeps drafts private (`list-events-query.dto.ts:59`) |
| `MCApiClaims`, `MCApi` | `JunkReported` | `toBoolean` leaves other values "so @IsOptional/@IsEnum reports it", but `upcoming` has only `IsOptional`, which reports nothing (`list-events-query.dto.ts:13`) |
| `MCApiClaims`, `MCApi` | `NullMovesNothing` | a null `startsAt` passes `IsOptional` and becomes 1970 |
| `MCApiClaims`, `MCApi` | `ClientsFaultIsTheirs` | null for a required column, or a week date, is answered with a 500 |
| `MCApiClaims`, `MCApi` | `CodeTellsStatus` | a broken foreign key is 409 with the code `INTERNAL_ERROR` |
| `MCApiClaims`, `MCApi` | `EveryErrorTraceable` | the body parser runs before the request-id middleware |
| `MCApiClaims`, `MCApi` | `RerunLeavesConsistent` | a repeated run confirms its RSVPs again without regard to capacity |
| `MCApiClaims`, `MCApi` | `FixedInOnePass` | an unreadable `NODE_ENV` hides the report of a wildcard origin |
| `MCApiClaims`, `MCApi` | `RunningSigns` | `JWT_EXPIRES_IN` is any string, against `auth.module.ts:24` |
| `MCApiClaims`, `MCApi` | `ToldLifetimeIsTrue` | without a unit, told as seconds and signed as milliseconds |
| `MCClientClaims`, `MCClients` | `RetryResolves` | every call has a new key, so a second press after a lost answer is a conflict (`client.ts:191`) |
| `MCClientClaims`, `MCClients` | `StatesExclude` | while the session is checked, "You're confirmed" stands above "Sign in to RSVP" |
| `MCClientClaims`, `MCClients` | `NoFormForOthers` | the `finally` of an aborted load ends the loading state of the next |
| `MCClientClaims`, `MCClients` | `AsksOnlyWhenUnsaved` | the navigation after a save is judged by the blocker of the render before |
| `MCClientClaims`, `MCClients` | `LeavesOnlyAsked` | `saved` is never reset, so later edits are left without a question |
| `MCClientClaims`, `MCClients` | `EmptyMeansNone` | a page beyond the last says that there is nothing at all |
| `MCClientClaims`, `MCClients` | `HoveringPauses` | hover and focus share one flag |

## 4. What is proved

For every set of requests, users, events, tokens, bodies, scripts and so on, and
every value of the bounds, unless a row says otherwise. What each means
in words is beside it in `PROJECT.json` under `theorems`.

| Theorem | Module | Statement |
|---|---|---|
| `TypeCorrect` | `RsvpServiceProofs` | `Spec => []TypeOK` |
| `LockIsolation` | `RsvpServiceProofs` | `Spec => []LockHeldByTransaction` |
| `DecisionsAreCurrent` | `RsvpServiceProofs` | `Spec => []SeenIsCurrent` |
| `CounterCorrect` | `RsvpServiceProofs` | `Spec => []CounterMatchesRows` |
| `NeverOversubscribed` | `RsvpServiceProofs` | `Spec => []CapacityNeverExceeded` |
| `ChecksNeverFire` | `RsvpServiceProofs` | `Spec => []ConstraintsNeverNeeded` |
| `AnswersAgree` | `RsvpIdempotencyProofs` | `Spec => []KeyedAnswersAgree` |
| `OneEffectPerKey` | `RsvpIdempotencyProofs` | `Spec => EffectOncePerKey` |
| `ErrorsAreUnrecorded` | `RsvpIdempotencyProofs` | `Spec => ErrorMeansNoRecord` |
| `PlacesAreHandedOver` | `RsvpQueueProofs` | `Spec => IdlePlaceOnlyByUpdate` |
| `QueueIsFair` | `RsvpQueueProofs` | `Spec => QueueOrderKept` |
| `JoinsArePublished` | `RsvpQueueProofs` | `Spec => JoinOnlyWhilePublished` |
| `ServiceImplementsBook` | `RsvpQueueProofs` | `Spec => ImplementsBook`, that is, `Book!Spec` under the refinement mapping |
| `DetailIsTrue` | `RsvpReadsProofs` | `ReadSpec => []DetailWasTrue` |
| `RosterIsForParticipants` | `RsvpReadsProofs` | `ReadSpec => []RosterForParticipants` |
| `MineAreTrue` | `RsvpReadsProofs` | `ReadSpec => []MineWereActive` |
| `OffsetsArePlaces` | `RsvpReadsProofs` | `ReadSpec => []OffsetIsPlace` |
| `ReadsOnlyRead` | `RsvpReadsProofs` | `ReadSpec => Spec`: all of the above holds beside readers |
| `OneAccount` | `AccountProofs` | `Spec => []OneAccountPerAddress` |
| `LoserIsTold` | `AccountProofs` | `Spec => []LostRaceExplained` |
| `RegisteredCanSignIn` | `AccountProofs` | `Spec => []PromisedSignIn` |
| `TokensSpeakForOwners` | `AccountProofs` | `Spec => []TokensAreTrue` |
| `ErrorsAreTraceable` | `ApiProofs` | `Spec => []Traceable` |
| `BudgetIsPersonal` | `ApiProofs` | `Spec => []BudgetPerPerson` |
| `PatchesComposeAlways` | `ApiProofs` | `Spec => []PatchesCompose` |
| `DeploymentsAreSound` | `ApiProofs` | `Spec => []CorrectionsSucceed` |
| `SeedsConverge` | `ApiProofs` | `Spec => []SeedConverges` |
| `WalksAreExact` | `ApiProofs` | `Spec => []WalkIsExact` |
| `NoneInProgressIsMissed` | `ApiProofs` | `Spec => []InProgressListed` |
| `ListShowsAsked` | `ClientProofs` | `Spec => []SettledShowsAsked` |
| `ManageShowsOneEvent` | `ClientProofs` | `Spec => []OneEventOnDisplay` |
| `ProbesTellOfTheirTime` | `ClientProofs` | `Spec => AnswersAreCurrent` |
| `SessionShowsTruth` | `ClientProofs` | `Spec => []SessionIsTrue` |
| `TimesSurviveEditing` | `ClientProofs` | `Spec => []TimesAreKept` |
| `SlowLoadsAreIgnored` | `ClientProofs` | `Spec => []SlowLoadIgnored` |
| `JoinsAreReadBack` | `ClientProofs` | `Spec => []JoinIsReadBack` |

Each inductive invariant below was an invariant of a TLC run before it was
proved.

### Assumptions

They are the named assumptions of `RsvpService`, `RsvpReads`, `Api` and
`Clients`, which TLC evaluates on every instance, and say three kinds of things.

* Sentinels (`Sentinels`, `GoneIsNoEntry`, and the clauses about `Nothing`,
  `None`, `Empty`, `Nobody`, `Absent`): a value that stands for "no row", "not
  yet" or "no token" is none of the values it stands beside. In the code these
  are null and undefined.
* What has been validated before the modelled code runs (`Parameters`,
  `BodiesAreBodies`, `PipelineParameters`): capacities are positive, an event is
  created in a coherent state by its owner, only a PATCH carries a patch, a
  limit is a number because `loadConfig` refuses any other.
* What the environment is like: people, events and requests are finitely many
  where they are counted; normalising an address twice is normalising it once;
  a pool has a connection and a timeout is not zero; the demo script confirms no
  more people than an event has places and every place belongs to an event and a
  user of the script (`SeedIsCoherent`); only the event page may be asked
  for anonymously (`ReadersAsk`); the pseudo-routes of a form are no events.

No bound on faults, kills, moves, loads, calls or clock steps is assumed to be
more than a number.

### The write path

The inductive invariant has a base, `Isolation`, and layers on it.

`Isolation`: the types, that a request past `idle` has a call, that the lock is
held by exactly the transaction at work, that what it saw is current, and that a
keyed join about to be recorded has its response. None of these is inductive
alone: the row a transaction saw stays current only because every other writer
needs the lock. `StepShape` reduces the actions to four shapes (enter a
transaction, work in it, end it, stay outside), and `IsolationStep` treats each
once.

`Accounts`: every committed event is `Balanced` (counter equal to the number of
CONFIRMED rows, and all CHECK constraints true), and so is the state every
pending commit would leave. The second half is what makes it inductive: a commit
installs what was balanced when it was written, and by `Isolation` nobody
changed the event in between. `JoinBalanced`, `LeaveQueueBalanced`,
`LeavePlaceBalanced` and `UpdateBalanced` are the four decisions;
`LeavePlaceBalanced` needs `HeadOfQueue`, that the queue order of a non-empty
waitlist has a first element (least `queuedAt`, then least id), so that the
promoted row really is a waitlisted one.

`Replays`: a keyed join about to commit has its key to itself and nothing is
recorded under it (`KeyReserved`), what waits in the catch block is an error, a
keyed 201 has a record, and the record is what was answered. `KeyReserved` is the
unique index: it is why a commit can never overwrite the record an earlier
answer was taken from. `KeyStepShape` reduces the actions to three: a commit
takes effect, a key is reserved, or the records are left alone. The two action
properties follow from `Replays` and one step.

`Justified` adds to `Isolation` and `Accounts` that every pending decision is
still the one its `Changes` relation allows on the rows as they are committed
(`Decided`), and that the clock stays in its range. The three action properties
of the queue and the refinement are then read off one step: a commit is one
`Changes` step of one event, each case of which is a step of `RsvpBook`, and
every other action leaves the mapped variables alone, so it stutters.
`Decided` is the point of the argument: the code decides in one statement and
commits in a later one, and the abstract step is the commit.

### The reads

`ReadInv` says of a reader at each statement what the earlier ones have
established: that `witnessed` holds the state of now (`SeesNow`), and that every
part of the answer gathered so far has a witness (`DetailSoFar`, `RosterSoFar`,
`MineSoFar`). It needs `Isolation` for the types of what is read. A state that
was witnessed stays witnessed, so a writer's step preserves it without a look at
what the writer did; that is why the claims hold although no transaction spans
two statements.

`OffsetsArePlaces` compares the two ways the code numbers the queue. `SortedByRank`
in `OrderingProofs` is the general fact: a list in which every earlier row
precedes every later one holds each row at one plus the number of rows before it,
whatever the finite set and its order. `QueueIsOrdered` is where QUEUE_ORDER is
needed: the id makes an order of the times. A waiting row has a time
(`WaitersAreTimed`), on deleted events too, because their rows went with them.

### Accounts, API, seed

* `AccountOK`: a row is that of a registration that has ended, under the
  normalised address and the digest of its password (`Owned`); addresses are
  unique; what was promised when a request arrived is promised still, unless
  removed (`Remembers`); a sign-in between its query and its verdict holds the
  row of its address if there was one to find (`Looked`). The last is the
  stale read of `login`: the row may be gone by the verdict, never another's.
* `PipelineOK`: the counters are the cardinalities of what has been counted in
  the window (`BudgetsOK`), and a request's key is fixed by its account once the
  guard has passed it (`Underway`). The order of the guards is what makes it
  inductive: the limiter runs after authentication, so the key it uses is known.
* `BodyOK`: the stored row satisfies the CHECKs, and a request behind the pipe has
  a body that passed it. `PATCH` compares the bounds of the merged row in the same
  transaction that writes it, so nothing about a half-finished comparison has to
  be remembered. `BootOK`: which variables may
  still be wrong after one correction, and after two.
* `SeedInv`: what a run has executed so far is in the tables (`Executed`), while
  nobody has moved the tables hold nothing but the script's (`Untouched`), the
  counts of the subquery are current until they are written (`TallyCurrent`),
  and after a run that ended well the counters are the rows' (`Derived`).
  `Untouched` survives a kill, `Executed` starts anew; together they are the
  claim that a second run of any length ends where the first would have.
  `Derived` holds of an offline seed or an unused API, and the run `MCSeedOnline`
  shows that it fails beside a running one.
* `WalkOK`: while nothing has left the listing, an event that stayed and was not
  shown has a place behind the pages covered so far (`StillToCome`), and the last
  count exceeds them, so Next is not dead; while nothing has come, what was shown
  has a place within them (`Behind`). Others' writes only raise the places of
  what stays in the first case and only lower them in the second
  (`PlacesRise`), also between the page and its count. `FeedIsSorted` is
  `SortedByRank` for the start time and the id.

### The clients

* `ListLoadsOK`, `ManageLoadsOK`: at most one load in flight is not aborted, and
  it asks for the address of now.
* `SessionOK`: storage, state and the client's reader agree (`InStep`); the check
  that still counts is about the token of the last render (`ChecksOK`); a token
  does not come to the page twice (`SignInsOK`); who is on the screen owns the
  token or a check is on its way to say so (`UserOK`).
* `FormOK`: while the form shows what it was filled with, its walls are those of
  its originals in the zone on display (`FilledFrom`), and what a
  save sends has been read as an instant, so the row it replaces stays readable
  (`SentIsRead`).
* `PageOK`: an answered load carries the event it asked for (`Carries`); while
  `stray` is false at most one load is under way, it is of the event on display
  and, once served, tells of every join that has ended, and the effect's load has
  landed before an event is shown (`Guarded`); the button is disabled while a
  handler runs (`Busy`); what is on display is no older than the last ended join
  unless the handler or "Try again" is reading it (`ReadBack`). `Guarded` is needed
  because a load that was served before a join ended may land after it. Every join
  ends in a reload, so that load and the reload overlap, which sets `stray`; in all
  other cases the one load under way was sent after the last join ended.
* `HealthOK`: what an open probe has seen includes the state of now, and while it
  has met no trouble no time has passed for it.

### Only model-checked

* Liveness (`EveryCallAnswered`, `WaitsEnd`, `ReadyAfterOutage`,
  `UnattendedGoes`): fairness and ENABLED are beyond the prover.
* The claims of documents and comments that the code does not keep (section 3);
  a counterexample on one instance is all there is to show.

## 5. Plan

Done: the write path with its abstract specification, its theorems and its
refinement; the reads; listing, bodies, accounts, pipeline, seed, configuration,
health; the client's session, event page, form, lists, organiser's page and
toasts; liveness of the API's requests and of every waiting state; theorems for
every safety property of the passing runs.

Left: nothing of the plan.

## 6. Not modelled

* Libraries: token cryptography and password hashing (and with it the equal
  effort of a refused sign-in), the throttler's counting beyond a window, what
  class-validator does inside its decorators, the router and React beyond the
  order of renders and effects that the modules state.
* `main.ts` and `swagger.ts` beyond parser and pipe: helmet, CORS, the document,
  the start and stop of the process; `scripts/`. They keep no state a property
  could be about.
* Presentation: cards, meters, formatting, motion, the focus inside dialogs, the
  wording of texts and messages.
* Lengths and formats of texts in bodies, logging, and the layout of the error
  envelope beyond status, code and id.
* Ordinary loads and mutations of the client are composed with a small model of
  the API (`Serve`), not with all of `RsvpService`: what the page depends on is
  when an answer was computed, not how.
* Liveness is checked, not proved.
