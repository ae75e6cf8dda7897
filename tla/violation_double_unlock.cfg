SPECIFICATION Spec
CONSTANTS
  v1 = v1
  r1 = r1
  Vins = {v1}
  Verified = {}
  Minted <- AllMinted
  Offered = {"disconnect"}
  MaxJobs = 1
  Requests = {r1}
  MaxBatch = 1
  MaxAttempts = 2
  MaxMints = 2
  MaxIndexes = 2
  Failures = {"burnResult"}
  MaxFailures = 1
  Races = {}
PROPERTIES
  BurnFailureIsSaved
