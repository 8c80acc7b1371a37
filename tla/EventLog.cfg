\* Two requests, the projector and the retention worker, under fairness.
SPECIFICATION FairSpec
CONSTANTS
  Handlers = {h1, h2}
  Operations = {"append"}
  Workers = {Pruner, Projector}
  Streams = {}
  Webhooks = {}
  Batches = {1}
  StreamLimit = 1
  ProjectionLimit = 1
  PruneMaximum = 1
  Retention = 0
  RequestTimeout = 0
  MaxSequence = 1
  MaxTime = 1
  Pruner = Pruner
  Projector = Projector
  Dispatcher = Dispatcher
  Nobody = Nobody
PROPERTIES RetentionPassEnds RequestsEnd
