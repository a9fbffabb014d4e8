CONSTANTS
  PoolSize = 4
  MaxReady = 2
SPECIFICATION Spec
INVARIANT PairsAbandonedTogether
