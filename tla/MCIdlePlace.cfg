SPECIFICATION ClaimSpec
CONSTANTS
  Events = {e1}
  Users = {1, 2}
  Keys = {}
  Requests = {r1, r2, r3}
  Instances = {i1}
  Skew <- NoSkew
  Capacities = {1, 2}
  Times = {0, 9}
  Owner <- OwnedByFirst
  NewEvents <- QueueEvents
  Calls <- RaisingCalls
  MaxAttempts = 3
  MaxTime = 0
  MaxFaults = 0
  Unlimited = Unlimited
  Gone = Gone
  NotQueued = NotQueued
  NoKey = NoKey
  NoRecord = NoRecord
  Same = Same
  Free = Free
  Keep = Keep
  Nothing = Nothing
SYMMETRY RequestSymmetry
INVARIANTS
  NobodyWaitsForAnIdlePlace
