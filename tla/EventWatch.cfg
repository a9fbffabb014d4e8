CONSTANT PoolSize = 2
CONSTANT MaxDescriptor = 3
CONSTANT Readiness = {{}, {"IN"}, {"OUT", "ERR"}}
SPECIFICATION Spec
INVARIANTS Owned InterestAgrees NeverRefused ReportsAreTrue AllClosed
