\* Three processes, one of which may start while the lease of another runs out; the times keep
\* LeaseTime above StartTime, WorkTime and RenewEvery + Timeout.
SPECIFICATION OperationsSpec
CONSTANTS
  Processes = {p1, p2, p3}
  LeaseTime = 6
  RenewEvery = 1
  Timeout = 1
  StartTime = 3
  WorkTime = 3
  Grace = 2
  NoLease = NoLease
  u1 = u1
  Nothing = Nothing
INVARIANTS
  
  
  
  RolloutsSafe
PROPERTIES
  DeadLeaseGoes
  BackupsGoOn
CHECK_DEADLOCK FALSE
