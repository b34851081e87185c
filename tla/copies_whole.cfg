CONSTANTS
  m1 = m1  m2 = m2  e1 = e1  e2 = e2  t1 = t1  t2 = t2
  Mailboxes = {m1, m2}
  Ids = {e1}
  Threads = {t1}
  Addresses <- MCAddresses
  MailboxOf <- TwoBoxes
  MaxRcpts = 2
  Repeats = {}
  SharedTicks = TRUE
  Parts <- RawAndBody
  Body = "body.txt"
  Workload = {"list", "detail", "delete", "restart"}
SPECIFICATION Spec
SYMMETRY Symmetric
INVARIANTS TypeOK VisibleIsWhole AckedIsStored
PROPERTIES ImplementsInbox
