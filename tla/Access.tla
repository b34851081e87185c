-------------------------------- MODULE Access --------------------------------
(***************************************************************************)
(* What the login promises to the owner of a mailbox: the first password   *)
(* given for it is its password for good; only who gives that password     *)
(* gets a session, of that mailbox, under a token that nobody had before;  *)
(* and a session that was closed stays closed.                             *)
(***************************************************************************)
CONSTANTS
  Mailboxes,
  Passwords,
  Tokens,
  Unclaimed    \* what stands for the password of a mailbox that has none

VARIABLES
  password,    \* password[m], Unclaimed until somebody has logged in to m
  open,        \* the sessions a request may use
  spent        \* the tokens that were ever given out

vars == <<password, open, spent>>

Init ==
  /\ password = [m \in Mailboxes |-> Unclaimed]
  /\ open  = {}
  /\ spent = {}

Claim(m, p) ==
  /\ password[m] = Unclaimed
  /\ password' = [password EXCEPT ![m] = p]
  /\ UNCHANGED <<open, spent>>

\* The session remembers the password its login was made with.
Open(k, m, p) ==
  /\ k \notin spent
  /\ password[m] = p
  /\ open'  = open \cup {[token |-> k, mailbox |-> m, by |-> p]}
  /\ spent' = spent \cup {k}
  /\ UNCHANGED password

Close ==
  /\ open' \subseteq open
  /\ UNCHANGED <<password, spent>>

Next ==
  \/ \E m \in Mailboxes, p \in Passwords :
       Claim(m, p) \/ \E k \in Tokens : Open(k, m, p)
  \/ Close

Spec == Init /\ [][Next]_vars
=============================================================================
