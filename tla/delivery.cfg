CONSTANTS
  Senders = {"alice", "carol", "dave", "mallory"}
  Emails <- Mail
  Unstorable <- Spoilt
  Addresses = {"bob", "BOB", "eve", "?"}
  Mailboxes = {"bob", "eve"}
  MailboxOf <- Spellings
  Username = "smtpweb"
  Password = "p"
  Credentials <- Given
  MaxRuns = 2
  MaxFaults = 1
SPECIFICATION FairSpec
INVARIANTS
  TypeOK SentIsStored RunsFailByFaults
PROPERTIES ImplementsMailing SendersGetThrough
CHECK_DEADLOCK FALSE
