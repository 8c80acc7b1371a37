\* One request that steps its session up.
SPECIFICATION Spec
CONSTANTS
  Requests = {r1}
  Operations = {"signIn", "stepUp"}
  Tokens = {t1}
  Credentials = {c1}
  Enrolled = {c1}
  AbsoluteSeconds = 3
  AgentSeconds = 2
  DeviceSeconds = 2
  IdleSeconds = 2
  StepUpSeconds = 1
  MaxTouchInterval = 300
  QueueLimit = 1
  RequestTimeout = 0
  MaxVersion = 2
  MaxTime = 0
  NoCredential = NoCredential
  Nobody = Nobody
INVARIANTS NeverWaitsForItself
