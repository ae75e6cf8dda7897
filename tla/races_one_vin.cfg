SPECIFICATION Spec
CONSTANTS
  v1 = v1
  r1 = r1
  Vins = {v1}
  Verified = {}
  Minted <- NoneMinted
  Offered = {"verify", "onboard", "disconnect"}
  MaxJobs = 3
  Requests = {r1}
  MaxBatch = 1
  MaxAttempts = 1
  MaxMints = 1
  MaxIndexes = 1
  Failures = {}
  MaxFailures = 0
  Races = {"requests", "upsert"}
INVARIANTS
  DeviceKeysMatch
  NeverBothSucceeded
  OneBurnAtATime
