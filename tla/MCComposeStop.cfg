SPECIFICATION StopSpec
CONSTANTS
  web = web
  job = job
  api = api
  db = db
  w1 = w1
  w2 = w2
  a1 = a1
  d1 = d1
  x1 = x1
  Services <- MCServices
  Names <- MCServices
  Projects <- AllShapes
  Listing <- MCListing
  ServiceOf <- MCServiceOf
  TornReads = FALSE
  EngineFaults = TRUE
INVARIANTS
  SuccessStops
PROPERTIES
  DependentsStoppedFirst
