SPECIFICATION Spec
CONSTANTS
  Parts = {"page"}
  Off = Off
  None = None
  Empty = Empty
  Nothing = Nothing
  Tokens = {"a1", "b1"}
  Owner <- OwnerOf
  Flights = {1, 2}
  MaxCalls = 3
  MaxReloads = 1
  PageIds = {"e1"}
  PageRequests = 5
  MaxFaults = 1
  MaxJumps = 0
  MaxPromotions = 1
  FormEvents = {"own", "other"}
  FormForeign = {"other"}
  Zones = {"plain"}
  Defaults <- NewForm
  Instants = {0, 3}
  MaxFormLoads = 2
  MaxEdits = 1
  MaxSaves = 1
  Views = {"upcoming", "past"}
  Limit = 1
  MaxTotal = 2
  MaxListLoads = 3
  Managed = {"a", "b", "c"}
  ManagedForeign = {"c"}
  RosterPages = {1, 2}
  MaxRows = 1
  MaxManageLoads = 3
  MaxChanges = 0
  MaxToasts = 3
  Probes = {1, 2, 3}
  PoolSize = 2
  Timeout = 2
  MaxOutages = 2
  MaxStuck = 2
INVARIANTS
  UnchangedIsUnchanged
CHECK_DEADLOCK FALSE
