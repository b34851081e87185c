------------------------------- MODULE Mailing -------------------------------
(***************************************************************************)
(* What the way from a sender to the mailboxes promises, told without      *)
(* sessions, envelopes, answers or faults.  Runs of a sender follow one    *)
(* another; a run takes the emails in turn; an email is stored mailbox by  *)
(* mailbox, under an id that is its own in this run, and is reported once  *)
(* every mailbox it can go to has it.  A run may end anywhere.  What it    *)
(* had stored stays, and the next run stores it again: every email         *)
(* reported was stored, and one stored may never be reported.              *)
(***************************************************************************)
EXTENDS Integers

CONSTANTS
  To,       \* To[s][n]: the mailboxes that email n of sender s can go to
  Known     \* the senders who may have anything stored

VARIABLES
  copies,   \* records of mailbox, id and of: <<sender, run, email>>
  reported  \* the <<sender, run, email>> that a sender was told of

vars == <<copies, reported>>

Init == copies = {} /\ reported = {}

\* It is this email's turn in its run, which is its sender's latest.
Turn(x) ==
  /\ \A i \in 1..(x[3] - 1) : <<x[1], x[2], i>> \in reported
  /\ x \notin reported
  /\ \A c \in copies : c.of[1] = x[1] => c.of[2] <= x[2]

Store(c) ==
  /\ Turn(c.of)
  /\ c.of[1] \in Known
  /\ c.mailbox \in To[c.of[1]][c.of[3]]
  /\ \A d \in copies :
       /\ d.id = c.id <=> d.of = c.of
       /\ d.of = c.of => d.mailbox # c.mailbox
  /\ copies' = copies \cup {c}
  /\ UNCHANGED reported

Report(x) ==
  /\ Turn(x)
  /\ To[x[1]][x[3]] # {}
  /\ \A m \in To[x[1]][x[3]] : \E c \in copies : c.mailbox = m /\ c.of = x
  /\ reported' = reported \cup {x}
  /\ UNCHANGED copies

Next == (\E c \in copies' : Store(c)) \/ (\E x \in reported' : Report(x))

Spec == Init /\ [][Next]_vars
=============================================================================
