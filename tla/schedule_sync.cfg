\* Three edits of a schedule racing two reconciles, one of which may die.
SPECIFICATION SyncSpec
CONSTANTS
  s1 = s1  r1 = r1  r2 = r2
  Schedules = {s1}
  Crons = {"daily", "hourly"}
  NoCron = NoCron
  Reconcilers <- TwoReconcilers
  MaxEdits = 3
  MaxFaults = 1
INVARIANTS
  SyncTypeOK
  InSync
PROPERTIES
  RemovesOnlyLapsed
  Converges
