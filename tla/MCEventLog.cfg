\* Two requests, the retention worker, and either the dispatcher with a destination that is
\* created, changed and deleted, or a stream and appends of one or two events.
SPECIFICATION Spec
CONSTANTS
  Handlers = {h1, h2}
  Operations = {"append", "create", "update", "remove"}
  Workers = {Pruner}
  Streams = {s1}
  Webhooks = {1}
  Batches = {1, 2}
  StreamLimit = 2
  ProjectionLimit = 2
  PruneMaximum = 1
  Retention = 1
  RequestTimeout = 0
  MaxSequence = 2
  MaxTime = 3
  Pruner = Pruner
  Projector = Projector
  Dispatcher = Dispatcher
  Nobody = Nobody
CONSTRAINT OneLoad
SYMMETRY HandlerSymmetry
INVARIANTS LogIsGapFree RetentionKeepsUnread DispatcherNeverFails
PROPERTIES AppendOnly
