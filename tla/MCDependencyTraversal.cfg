SPECIFICATION VisitSpec
CONSTANTS
  web = web
  api = api
  cache = cache
  db = db
  external = external
  Services <- MCServices
  Names <- MCNames
  Projects <- MCProjects
INVARIANTS
  TypeOK
  DependencyOrder
  NoServiceMissed
  SuccessIsComplete
  AtMostOnceUnbranched
  CyclesFound
PROPERTIES
  ImplementsOrder
