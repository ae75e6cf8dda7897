SPECIFICATION RegistrationSpec
CONSTANTS
  v1 = v1
  r1 = r1
  g1 = g1
  Vins = {v1}
  Verified = {}
  Minted <- NoneMinted
  Offered = {}
  MaxJobs = 1
  Requests = {r1}
  MaxBatch = 1
  MaxAttempts = 1
  MaxMints = 1
  MaxIndexes = 1
  Failures = {}
  MaxFailures = 0
  Races = {}
  Registrants = {g1}
  Elsewhere = {7}
INVARIANTS
  OwnersCanRegister
