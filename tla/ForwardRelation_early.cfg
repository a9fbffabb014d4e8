CONSTANT Capacity = 2
CONSTANT ReplyLen = 1
CONSTANT MaxBytes = 1
SPECIFICATION Spec
INVARIANT ReplyFirst
