CONSTANTS
  Hole = Hole
  None = None
  Item <- MCItem
  Values <- MCValues
  Method <- MCMethod
  MapResult <- MCMapResult
  Template <- MCTemplate
  Output <- MCOutput
  MaxBuilders = 2
  MaxCalls = 3
  MaxActions = 1
SPECIFICATION Spec
CHECK_DEADLOCK FALSE
INVARIANTS TypeOK SnapshotAtRun FlagsPaired PathsCanonical
PROPERTY LogSpec
