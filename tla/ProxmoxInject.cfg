SPECIFICATION Spec
CONSTANTS
  Webs = {w1, w2}
  MaxId = 9
  MaxPushes <- MCPushes
  MaxRequests <- MCRequests
  MaxTasks = 2
  Workers = 2
  Refused = {{}, {2}}
SYMMETRY Symmetry
INVARIANTS TypeOK SeedOfActive CustomFileIsOwn IsoHoldsAnswer ProcessingIsExplained
PROPERTY NeverAnOlderImage
