SPECIFICATION VisitSpec
CONSTANTS
  web = web
  api = api
  cache = cache
  db = db
  external = external
  Services <- MCServices
  Names <- MCNames
  Projects <- Diamond
INVARIANT AtMostOnce
