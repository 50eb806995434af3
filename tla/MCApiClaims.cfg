\* What documents and comments say that the code does not do.  TLC stops at
\* the first claim it finds broken: keep one line of the list at the end to see another.
SPECIFICATION Spec
CONSTANTS
  Parts = {"accounts", "listing", "bodies", "pipeline", "seed", "boot"}
  Off = Off
  None = None
  Forged = Forged
  Nothing = Nothing
  Anonymous = Anonymous
  Absent = Absent
  Unset = Unset
  Nobody = Nobody
  Spellings = {"ann@", "Ann@", "bo@"}
  Normal <- LowerCase
  Passwords = {"p", "q", "short"}
  TooShort = {"short"}
  AccountRequests = {1, 2, 3}
  AccountCalls <- TheCalls
  Lifetime = 1
  MaxAuthTime = 1
  MaxFaults = 1
  MaxRemovals = 1
  Events = {1, 2, 3}
  Rows <- SomeRows
  Queries <- ClaimQueries
  MaxPageSize = 3
  MaxWrites = 0
  MaxListTime = 2
  Organisers = {1, 2}
  BodyRequests = {1, 2}
  Bodies <- AllBodies
  Top = 3
  PipelineRequests = {1, 2}
  Inputs <- TheInputs
  Bucket <- TheBuckets
  Limit <- OnePerWindow
  Public = {"login", "browse", "health"}
  MaxWindows = 1
  UserSeq <- TheUsers
  EventSeq <- TheEvents
  PlaceSeq <- ThePlaces
  SeedCapacity <- TwoPlaces
  Visitors = {"dan"}
  Online = FALSE
  MaxMoves = 4
  MaxKills = 0
  IntegerKeys = {"PORT", "THROTTLE_LIMIT"}
  Durations <- SomeDurations
  MinSecret = 32
INVARIANTS
  DraftsPrivate
  JunkReported
  NullMovesNothing
  ClientsFaultIsTheirs
  CodeTellsStatus
  EveryErrorTraceable
  RerunLeavesConsistent
  FixedInOnePass
  RunningSigns
  ToldLifetimeIsTrue
CHECK_DEADLOCK FALSE
