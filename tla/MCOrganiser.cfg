SPECIFICATION Spec
CONSTANTS
  Events = {e1}
  Users = {1, 2}
  Keys = {}
  Requests = {r1, r2, r3}
  Instances = {i1}
  Skew <- NoSkew
  Capacities = {1}
  Times = {0, 1, 9}
  Owner <- OwnedByFirst
  NewEvents <- ShortEvents
  Calls <- OrganiserCalls
  MaxAttempts = 3
  MaxTime = 1
  MaxFaults = 0
  Unlimited = Unlimited
  Gone = Gone
  NotQueued = NotQueued
  NoKey = NoKey
  NoRecord = NoRecord
  Same = Same
  Free = Free
  Keep = Keep
  Nothing = Nothing
SYMMETRY RequestSymmetry
INVARIANTS
  SeenIsCurrent
  ConstraintsNeverNeeded
PROPERTIES
  JoinOnlyWhilePublished
  ImplementsBook
