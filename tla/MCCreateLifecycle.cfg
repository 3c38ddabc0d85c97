SPECIFICATION CreateSpec
CONSTANTS
  web = web
  api = api
  db = db
  Services <- MCServices
  Names <- MCNames
  Projects <- MCProjects
  Cases <- LifecycleCases
  WithExtensions <- NoServices
  MaxRuns = 3
INVARIANTS
  DependentsRecreated
