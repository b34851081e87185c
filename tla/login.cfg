CONSTANTS
  m1 = m1  m2 = m2  t1 = t1  t2 = t2  t3 = t3  k1 = k1  k2 = k2
  Mailboxes = {m1, m2}
  Threads = {t1, t2}
  Tokens = {k1, k2}
  Passwords = {"pa", "pb"}
  MaxAttempts = 1
  Window = 2
  MaxAge = 1
  Faults = TRUE
SPECIFICATION FairSpec
INVARIANTS TypeOK SessionsAreEarned EndedIsRefused FailuresBounded
PROPERTIES PasswordKept LockoutKeepsItsWindow ImplementsAccess LockoutEnds
