\* Two requests; either sessions are used and minted, or stepped up, while the account is changed, or one
\* session, short (of an agent) or long, lives through time with step-ups and touches; or
\* the requests are admitted by the limiter; or deliveries of one event and tests.
SPECIFICATION LoadSpec
CONSTANTS
  Requests = {r1, r2}
  Operations = {"signIn", "signOut", "token", "revokeAll", "addPasskey", "revokePasskey", "deviceToken", "agent", "stepUp"}
  Tokens = {t1, t2}
  Credentials = {c1, c2}
  Enrolled = {c1}
  AbsoluteSeconds = 4
  AgentSeconds = 2
  DeviceSeconds = 2
  IdleSeconds = 2
  StepUpSeconds = 1
  MaxTouchInterval = 300
  QueueLimit = 2
  RequestTimeout = 0
  MaxVersion = 2
  MaxTime = 3
  NoCredential = NoCredential
  Nobody = Nobody
  c1 = c1
  c2 = c2
  i1 = i1
  forger = forger
  Budget = 1
  Window = 2
  Hops = 1
  q1 = q1
  d1 = d1
  d2 = d2
  d3 = d3
SYMMETRY SessionSymmetry
INVARIANTS FinalPasskeyKept LimitsHold BacklogIsExact
PROPERTIES WithinBounds RevokeAllIsFinal 
