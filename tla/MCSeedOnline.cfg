SPECIFICATION Spec
CONSTANTS
  Parts = {"seed"}
  Off = Off
  None = None
  Forged = Forged
  Nothing = Nothing
  Anonymous = Anonymous
  Absent = Absent
  Unset = Unset
  Nobody = Nobody
  Spellings = {"ann@", "Ann@", "bo@"}
  Normal <- LowerCase
  Passwords = {"p", "q", "short"}
  TooShort = {"short"}
  AccountRequests = {1, 2, 3}
  AccountCalls <- TheCalls
  Lifetime = 1
  MaxAuthTime = 1
  MaxFaults = 1
  MaxRemovals = 1
  Events = {1, 2, 3}
  Rows <- SomeRows
  Queries <- WalkQueries
  MaxPageSize = 3
  MaxWrites = 1
  MaxListTime = 2
  Organisers = {1, 2}
  BodyRequests = {1, 2}
  Bodies <- AllBodies
  Top = 3
  PipelineRequests = {1, 2}
  Inputs <- TheInputs
  Bucket <- TheBuckets
  Limit <- OnePerWindow
  Public = {"login", "browse", "health"}
  MaxWindows = 1
  UserSeq <- TheUsers
  EventSeq <- TheEvents
  PlaceSeq <- ThePlaces
  SeedCapacity <- TwoPlaces
  Visitors = {"dan"}
  Online = TRUE
  MaxMoves = 2
  MaxKills = 0
  IntegerKeys = {"PORT", "THROTTLE_LIMIT"}
  Durations <- SomeDurations
  MinSecret = 32
INVARIANTS
  SeedNeverDisagrees
CHECK_DEADLOCK FALSE
