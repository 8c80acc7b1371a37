SPECIFICATION FleetSpec
CONSTANTS
  owner = owner
  delegate = delegate
  friend = friend
  h1 = h1
  h2 = h2
  h3 = h3
  o1 = o1
  o2 = o2
  p1 = p1
  p2 = p2
  e1 = e1
  e2 = e2
  b1 = b1
  b2 = b2
  s1 = s1
  q1 = q1
  q2 = q2
  q3 = q3
  c1 = c1
  c2 = c2
  c3 = c3
  e3 = e3
  u1 = u1
  u2 = u2
  d1 = d1
  d2 = d2
  None = None
  Handlers = {h1, h2, h3}
  Operators = {owner, delegate, friend}
  GlobalRole <- MCGlobalRole
  OrganizationIds = {o1, o2}
  ProjectIds = {p1, p2}
  EnvironmentIds = {e1, e2}
  BindingIds = {b1, b2}
  Slugs = {s1}
  RequestIds = {q1, q2, q3}
  FleetRoles = {"owner", "administrator"}
  Workloads <- MCWorkloads
  Founded = TRUE
  NoRequest = NoRequest
  NoSlug = NoSlug
SYMMETRY Symmetry
INVARIANTS  ActiveParents AuditedOnce GrantsComeFromAuthority AnswersSound
CHECK_DEADLOCK FALSE
