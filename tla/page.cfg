CONSTANTS
  m1 = m1  m2 = m2  e1 = e1  e2 = e2  k1 = k1  k2 = k2  k3 = k3
  Mailboxes = {m1, m2}
  Passwords = {"p"}
  Tokens = {k1, k2}
  MaxAge = 1
  Copies <- SharedId
  Slots = {1, 2}
  MaxFaults = 1
SPECIFICATION FairSpec
INVARIANTS TypeOK CookieIsUsers PaneIsUsers OneInterval
PROPERTIES ListComesRight EndIsNoticed
