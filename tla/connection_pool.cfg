SPECIFICATION PoolFairSpec
CONSTANTS
  w1 = w1
  w2 = w2
  h1 = h1
  k1 = k1
  Clients <- Callers
  Uses <- UsesOf
  MaxOpenConns = 2
  MaxErrors = 2
INVARIANTS
  PoolTypeOK
  EveryConnectionIsHeld
  OnlyUpdatesExhaust
PROPERTIES
  EveryCallReturns
