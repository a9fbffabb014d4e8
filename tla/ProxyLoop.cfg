CONSTANTS
  PoolSize = 3
  MaxReady = 3
SPECIFICATION Spec
INVARIANTS WalkIsListed RelationsPaired NoDeafRelation ListenerIsLast
PROPERTIES ListenerKept ForwardingIsGranted WalkEnds AbandonedAreFreed
