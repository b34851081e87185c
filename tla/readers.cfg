CONSTANTS
  m1 = m1  m2 = m2  e1 = e1  e2 = e2  t1 = t1  t2 = t2
  Mailboxes = {m1}
  Ids = {e1, e2}
  Threads = {t1, t2}
  Addresses <- OneAddress
  MailboxOf <- OneName
  MaxRcpts = 1
  Repeats = {}
  SharedTicks = TRUE
  Parts <- BodyOnly
  Body = "body.txt"
  Workload = {"list", "detail", "delete"}
SPECIFICATION Spec
SYMMETRY Symmetric
VIEW ReadersView
INVARIANTS CacheSound DeletedNotListed DetailIsWhole
PROPERTIES MetaWriteOnce
