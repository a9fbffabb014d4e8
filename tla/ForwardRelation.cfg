CONSTANT Capacity = 2
CONSTANT ReplyLen = 1
CONSTANT MaxBytes = 2
SPECIFICATION FairSpec
INVARIANTS BytesKept EndsForCause
PROPERTIES BytesArrive ClientEndNoticed EndpointEndNoticed
