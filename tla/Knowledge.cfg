SPECIFICATION Spec
CONSTANTS
  Requests = {1, 2, 3}
  Scenarios <- MCScenarios
  Scale = 3
  OverlapChars = 6
  MaxRestarts = 1
  None = None
INVARIANTS TypeOK ChunksFollowHeaders OverlapsAreTails HybridRespectsBoth
  UndisturbedSearchesAnswer OutageNeedsRace
PROPERTIES WarmIndexStays
