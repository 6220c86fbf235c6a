\* Grids, refusals and fences over days of four minutes.
SPECIFICATION Spec
CONSTANTS
  Registry <- ThreeScans
  Manifests <- SomeManifests
  Flags <- SomeFlags
  Fences <- SomeFences
  Ceiling = 2
  GridCeiling = 4
  MaxCount = 15
  MaxInstant = 30
  DayLength = 4
  DefaultPost = 2
INVARIANTS
  CountExact
  AcceptedJobsPass
  AsAsked
  FenceHolds
