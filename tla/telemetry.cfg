SPECIFICATION TelemetryFairSpec
CONSTANTS
  v1 = v1
  p1 = p1
  p2 = p2
  malformed = malformed
  Vins = {v1}
  Partitions <- TwoPartitions
  Malformed = malformed
  TTL = 1
  MaxEvents <- TwoAndOne
  MaxTokens <- OneVehicleTwoSDs
  MaxRestarts = 1
INVARIANTS
  TelemetryTypeOK
  NothingIsSkipped
  DecidedByRecentTokens
  TelemetryInv
PROPERTIES
  EveryEventIsHandled
