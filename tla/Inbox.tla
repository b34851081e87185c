-------------------------------- MODULE Inbox --------------------------------
(***************************************************************************)
(* What smtpweb promises its users about a message: a copy of it appears   *)
(* in a mailbox whole or not at all; the sender is told 250 only for       *)
(* copies that have appeared; a mailbox lists only copies that have        *)
(* appeared; and a copy disappears only because somebody who had it in a   *)
(* list deleted it, after which it never comes back.                       *)
(***************************************************************************)
CONSTANT Copies    \* <<mailbox, id>> pairs

VARIABLES
  state,     \* state[c]: "none", "stored" or "deleted"
  vouched,   \* the copies a 250 answer has vouched for
  listed     \* the copies some reply has listed

vars == <<state, vouched, listed>>

Known == {c \in Copies : state[c] # "none"}

Init ==
  /\ state   = [c \in Copies |-> "none"]
  /\ vouched = {}
  /\ listed  = {}

Deliver(c) ==
  /\ state[c] = "none"
  /\ state' = [state EXCEPT ![c] = "stored"]
  /\ UNCHANGED <<vouched, listed>>

Vouch ==
  /\ \E S \in SUBSET Known : vouched' = vouched \cup S
  /\ UNCHANGED <<state, listed>>

List ==
  /\ \E S \in SUBSET Known : listed' = listed \cup S
  /\ UNCHANGED <<state, vouched>>

Delete(c) ==
  /\ c \in listed
  /\ state[c] = "stored"
  /\ state' = [state EXCEPT ![c] = "deleted"]
  /\ UNCHANGED <<vouched, listed>>

Next ==
  \/ \E c \in Copies : Deliver(c) \/ Delete(c)
  \/ Vouch
  \/ List

Spec == Init /\ [][Next]_vars
=============================================================================
