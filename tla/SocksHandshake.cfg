CONSTANTS
  Capacity = 24
  Script <- Clients
SPECIFICATION FairSpec
INVARIANTS RepliesKept GrantsWhatWasAsked DroppedForCause
PROPERTIES Served
