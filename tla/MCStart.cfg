SPECIFICATION StartSpec
CONSTANTS
  web = web
  api = api
  db = db
  w1 = w1
  w2 = w2
  a1 = a1
  d1 = d1
  Services <- MCServices
  Names <- MCNames
  Projects <- MCProjects
  ContainersOf <- MCContainersOf
  WantHealthy <- MCWantHealthy
  HasCheck <- ApiAndDb
  MayExit <- ApiAndDb
  EngineFaults = TRUE
INVARIANTS
  StartedWhenReady
PROPERTIES
  StartEnds
