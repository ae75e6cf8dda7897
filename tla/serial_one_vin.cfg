SPECIFICATION Spec
CONSTANTS
  v1 = v1
  r1 = r1
  Vins = {v1}
  Verified = {}
  Minted <- NoneMinted
  Offered = {"verify", "onboard", "disconnect", "delete"}
  MaxJobs = 7
  Requests = {r1}
  MaxBatch = 1
  MaxAttempts = 2
  MaxMints = 2
  MaxIndexes = 2
  Failures = {}
  MaxFailures = 0
  Races = {}
INVARIANTS
  TypeOK
  RowsMatchTheChain
  StatusTellsTokens
  NeverStranded
  SerialInv
PROPERTIES
  EndedJobsAreAnswered
  FollowsLifecycle
