SPECIFICATION TenancySpec
CONSTANTS
  t1 = t1
  t2 = t2
  t3 = t3
  e1 = e1
  e2 = e2
  Users = {u1, u2, u3}
  Creator = u1
  Roles = {"Owner", "Developer"}
  Changes = {c1, c2, c3}
  NoChange = NoChange
  Requests = {r1, r2, r3}
  Tickets = {t1, t2, t3}
  Installations = {i1, i2}
  Environments = {e1, e2}
  TicketFor <- MCTicketFor
  Hosted = {TRUE, FALSE}
  Quota = 1
  Organization = Organization
  None = None
  MaxMixed = 3
SYMMETRY Symmetry
INVARIANTS
  KeepsOwner
  AuditTells
  TicketMintsOnce
  CredentialsAreSound
  QuotaHolds
CHECK_DEADLOCK FALSE
