SPECIFICATION OperationsSpec
CONSTANTS
  v1 = v1
  r1 = r1
  Vins = {v1}
  Verified = {}
  Minted <- NoneMinted
  Offered = {"onboard", "disconnect"}
  MaxJobs = 2
  Requests = {r1}
  MaxBatch = 1
  MaxAttempts = 1
  MaxMints = 2
  MaxIndexes = 2
  Failures = {"crash", "lostRead", "lostWrite"}
  MaxFailures = 1
  Races = {}
  MaxOps = 2
  Statuses = {"failed", "succeeded"}
  Others = {"malformed", "other"}
  ChannelSize = 2
INVARIANTS
  OperationsTypeOK
  LastIsRecorded
  RowsStillMatch
  NeverBothSucceeded
  FailedConnectionsCanRetry
  OInv
