CONSTANTS
  PoolSize = 3
  MaxReady = 2
SPECIFICATION Spec
INVARIANT GrantedNotReadAgain
