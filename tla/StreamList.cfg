CONSTANT PoolSize = 4
SPECIFICATION Spec
INVARIANTS Linked CursorsListed NoneSkipped DrainedEmpty
PROPERTIES LoopsEnd ImplementsOrder
