SPECIFICATION FairSpec
CONSTANTS
  None = None
  Width = 2
  Grace = 1
  Limit = 1
  MaxOutbox = 2
  MaxCounter = 9
  FutureSlack = 3
  Start = 6
  Handlers = {h1, h2}
  Bounds <- MCBounds
  Types <- MCTypes
  Workloads <- MCRegistration
PROPERTY ProjectorKeepsUp
CHECK_DEADLOCK FALSE
