------------------------------- MODULE Accounts -------------------------------
(* The mailboxes and passwords of the web login.                           *)

CONSTANTS
  Mailboxes,   \* what sanitize_mailbox_name makes of usernames
  Passwords    \* non-empty passwords

NoPassword == ""

ASSUME AccountsAssumption == NoPassword \notin Passwords
=============================================================================
