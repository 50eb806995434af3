SPECIFICATION Spec
CONSTANTS
  Parts = {"session", "page", "form", "lists", "manage"}
  Off = Off
  None = None
  Empty = Empty
  Nothing = Nothing
  Tokens = {"a1", "b1"}
  Owner <- OwnerOf
  Flights = {1, 2, 3}
  MaxCalls = 4
  MaxReloads = 1
  PageIds = {e1, e2}
  PageRequests = 6
  MaxFaults = 1
  MaxJumps = 1
  MaxPromotions = 1
  FormEvents = {"own", "other"}
  FormForeign = {"other"}
  Zones = {"plain", "shifting", "junk"}
  Defaults <- NewForm
  Instants = {3, 7}
  MaxFormLoads = 2
  MaxEdits = 2
  MaxSaves = 2
  Views = {"upcoming", "past"}
  Limit = 1
  MaxTotal = 2
  MaxListLoads = 4
  Managed = {"a", "b", "c"}
  ManagedForeign = {"c"}
  RosterPages = {1, 2}
  MaxRows = 1
  MaxManageLoads = 3
  MaxChanges = 1
  MaxToasts = 3
  Probes = {1, 2, 3}
  PoolSize = 2
  Timeout = 2
  MaxOutages = 2
  MaxStuck = 2
INVARIANTS
  SessionIsTrue
  SlowLoadIgnored
  JoinIsReadBack
  TimesAreKept
  SettledShowsAsked
  OneEventOnDisplay
SYMMETRY PageSymmetry
CHECK_DEADLOCK FALSE
