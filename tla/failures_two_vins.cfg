SPECIFICATION Spec
CONSTANTS
  v1 = v1
  v2 = v2
  r1 = r1
  Vins = {v1, v2}
  Verified = {v2}
  Minted <- FirstMinted
  Offered = {"onboard", "disconnect", "delete"}
  MaxJobs = 2
  Requests = {r1}
  MaxBatch = 2
  MaxAttempts = 2
  MaxMints = 3
  MaxIndexes = 3
  Failures = {"crash", "lostRead", "lostWrite", "lostAnswer", "burnResult"}
  MaxFailures = 1
  Races = {"requests", "upsert"}
INVARIANTS
  WalletIndexesAreUnique
  LocksAreReleased
  IInv
