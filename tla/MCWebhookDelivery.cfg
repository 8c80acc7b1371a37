\* Updates, with pauses, and a failure, over a log with an event that is passed over.
SPECIFICATION OrderedSpec
CONSTANTS
  Requests = {r1}
  Operations = {"update", "replay", "delete"}
  LastEvent = 3
  Deliverable = {1, 3}
  Ids = {i1, i2}
  MaxAttempts = 2
  Retention = 0
  MaxFailures = 1
  Dispatcher = Dispatcher
  Nobody = Nobody
PROPERTIES OrderedAtLeastOnce EveryDeliverySettles
