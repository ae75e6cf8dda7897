SPECIFICATION FairSpec
CONSTANTS
  v1 = v1
  v2 = v2
  v3 = v3
  r1 = r1
  Vins = {v1, v2, v3}
  Verified = {}
  Minted <- AllButOneMinted
  Offered = {"verify", "disconnect"}
  MaxJobs = 2
  Requests = {r1}
  MaxBatch = 1
  MaxAttempts = 2
  MaxMints = 1
  MaxIndexes = 2
  Failures = {"crash", "lostRead", "lostWrite", "burnResult"}
  MaxFailures = 1
  Races = {}
PROPERTIES
  EveryJobEnds
