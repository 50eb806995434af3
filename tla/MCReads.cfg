SPECIFICATION ReadSpec
CONSTANTS
  Events = {e1}
  Users = {1, 2, 3}
  Keys = {}
  Requests = {r1, r2, r3}
  Readers = {q1}
  Instances = {i1}
  Skew <- NoSkew
  Capacities = {1, 2}
  Times = {0, 1}
  Owner <- OwnedByFirst
  NewEvents <- SomeEvents
  Calls <- SomeCalls
  Questions <- SomeQuestions
  MaxAttempts = 1
  MaxTime = 2
  MaxFaults = 0
  Anonymous = Anonymous
  Unlimited = Unlimited
  Gone = Gone
  NotQueued = NotQueued
  NoKey = NoKey
  NoRecord = NoRecord
  Same = Same
  Free = Free
  Keep = Keep
  Nothing = Nothing
SYMMETRY RequestSymmetry
INVARIANTS
  DetailWasTrue
  RosterForParticipants
  OffsetIsPlace
  MineWereActive
CHECK_DEADLOCK FALSE
