CONSTANTS
  Capacity = 24
  Script <- Clients
SPECIFICATION Spec
INVARIANTS PiecesAwaited
