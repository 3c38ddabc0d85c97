SPECIFICATION CreateSpec
CONSTANTS
  web = web
  api = api
  db = db
  Services <- MCServices
  Names <- MCNames
  Projects <- MCProjects
  Cases <- MCCases
  WithExtensions <- MCServices
  MaxRuns = 3
INVARIANTS
  ProjectConverges
PROPERTIES
  TouchedInOrder
  NeverFewer
