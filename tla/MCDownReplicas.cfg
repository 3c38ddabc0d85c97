SPECIFICATION DownSpec
CONSTANTS
  web = web
  api = api
  db = db
  w1 = w1
  w2 = w2
  a1 = a1
  d1 = d1
  x1 = x1
  default = default
  Services <- MCServices
  Names <- MCServices
  Projects <- Independent
  Listing <- ReplicasListing
  ServiceOf <- Replicas
  Networks <- MCNetworks
  Options <- AllRunning
  TornReads = FALSE
INVARIANTS
  DownSucceeds
