\* An account, and webhook deliveries to a destination of its operator.
SPECIFICATION BackupFairSpec
CONSTANTS
  Owners = {u1}
  Operations = {"register", "deliver"}
  Interval = 2
  Rpo = 2
  AlertAfter = 2
  LeaseTime = 1
  MaxVersion = 1
  Nothing = Nothing
PROPERTY BackupsGoOn
CHECK_DEADLOCK FALSE
