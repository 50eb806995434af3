SPECIFICATION Spec
CONSTANTS
  Events = {e1, e2}
  Users = {1, 2}
  Keys = {k1}
  Requests = {r1, r2, r3}
  Instances = {i1}
  Skew <- NoSkew
  Capacities = {1}
  Times = {0, 9}
  Owner <- OwnedByFirst
  NewEvents <- KeyedEvents
  Calls <- KeyedCalls
  MaxAttempts = 2
  MaxTime = 0
  MaxFaults = 2
  Unlimited = Unlimited
  Gone = Gone
  NotQueued = NotQueued
  NoKey = NoKey
  NoRecord = NoRecord
  Same = Same
  Free = Free
  Keep = Keep
  Nothing = Nothing
SYMMETRY RequestSymmetry
INVARIANTS
  TypeOK
  LockHeldByTransaction
  KeyedAnswersAgree
PROPERTIES
  ImplementsBook
  EffectOncePerKey
  ErrorMeansNoRecord
