\* Small instances of the three parts.  The key times keep the relations that the defaults
\* have: Prepublish >= CacheTime + Maintenance, Overlap >= TokenLife + CacheTime.
SPECIFICATION IdentitySpec
CONSTANTS
  Users = {u1, u2}
  Emails = {e1, e2}
  Phones = {p1}
  Credentials = {k1, k2, k3}
  Invitations = {v1, v2}
  Ceremonies = {y1, y2, y3}
  Challenges = {x1, x2}
  SessionIds = {s1, s2, s3}
  RecoveryCodes = {r1, r2, r3}
  CodeCount = 2
  MaxIdentifiers = 2
  MaxVersion = 3
  Handlers = {h1, h2}
  Workloads <- MCWorkloads
  None = None
  operators = {o1, o2}
  requests = {q1, q2}
  machines = {m1}
  secrets = {z1, z2}
  NoOne = NoOne
  Kids = {d1, d2, d3, d4, d5}
  OldMaster = OldMaster
  NewMaster = NewMaster
  Rotation = 3
  Prepublish = 2
  Overlap = 2
  Maintenance = 1
  TokenLife = 1
  CacheTime = 1
  LockTime = 1
  NoKey = NoKey
INVARIANTS
  AccountsSound
  UsedUpStaysSo
  VerifiedIsProven
  
  CachesSuffice
  KeysetSound
SYMMETRY IdentitySymmetry
CHECK_DEADLOCK FALSE
