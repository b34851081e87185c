CONSTANTS
  m1 = m1  m2 = m2  e1 = e1  e2 = e2  t1 = t1  t2 = t2
  Mailboxes = {m1}
  Ids = {e1}
  Threads = {t1}
  Addresses <- MCAddresses
  MailboxOf <- OneBox
  MaxRcpts = 2
  Repeats = {e1}
  SharedTicks = FALSE
  Parts <- BodyOnly
  Body = "body.txt"
  Workload = {"list"}
SPECIFICATION Spec
PROPERTIES MetaWriteOnce
