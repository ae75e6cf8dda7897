SPECIFICATION OperationsFairSpec
CONSTANTS
  v1 = v1
  r1 = r1
  Vins = {v1}
  Verified = {v1}
  Minted <- NoneMinted
  Offered = {}
  MaxJobs = 1
  Requests = {r1}
  MaxBatch = 1
  MaxAttempts = 1
  MaxMints = 1
  MaxIndexes = 1
  Failures = {}
  MaxFailures = 0
  Races = {}
  MaxOps = 2
  Statuses = {"failed", "succeeded"}
  Others = {}
  ChannelSize = 1
CHECK_DEADLOCK FALSE
PROPERTIES
  EveryOperationIsRecorded
