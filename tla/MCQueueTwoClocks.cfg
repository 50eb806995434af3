SPECIFICATION ClaimSpec
CONSTANTS
  Events = {e1}
  Users = {1, 2, 3}
  Keys = {}
  Requests = {r1, r2, r3, r4}
  Instances = {i1, i2}
  Skew <- OneAhead
  Capacities = {1, 2}
  Times = {0, 9}
  Owner <- OwnedByFirst
  NewEvents <- QueueEvents
  Calls <- QueueCalls
  MaxAttempts = 3
  MaxTime = 1
  MaxFaults = 0
  Unlimited = Unlimited
  Gone = Gone
  NotQueued = NotQueued
  NoKey = NoKey
  NoRecord = NoRecord
  Same = Same
  Free = Free
  Keep = Keep
  Nothing = Nothing
SYMMETRY RequestSymmetry
PROPERTIES
  LongestWaitingPromoted
