SPECIFICATION MCSpec
CONSTANTS
  None = None
  Resting = Resting
  h1 = h1
  h2 = h2
  q1 = q1
  q2 = q2
  e1 = e1
  Handlers = {h1, h2}
  RequestIds = {q1, q2}
  Environments <- MCEnvironments
  Operations = {"realm.remote.lock", "realm.remote.unlock"}
  Workloads <- MCWorkloads
  MaxCredentials = 3
  MaxEpoch = 3
INVARIANTS OneLivePerEnvironment EpochsNeverReused   
SYMMETRY Symmetry
CHECK_DEADLOCK FALSE
