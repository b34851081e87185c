CONSTANTS
  m1 = m1  m2 = m2  e1 = e1  e2 = e2  k1 = k1  k2 = k2  k3 = k3
  Mailboxes = {m1}
  Passwords = {"p"}
  Tokens = {k1, k2}
  MaxAge = 1
  Copies <- OneBox
  Slots = {1, 2}
  MaxFaults = 0
SPECIFICATION Spec
INVARIANTS TrashIsForShown
