------------------------------- MODULE Delivery -------------------------------
(***************************************************************************)
(* From the sender to the mailboxes: scripts/send_test_emails.py, run      *)
(* again by its user until it gets through, and the smtp process it talks  *)
(* to: aiosmtpd as build_controller (smtp/server.py) sets it up, the       *)
(* Authenticator (smtp/auth.py), handle_RCPT and handle_DATA.              *)
(*                                                                         *)
(* A command and its answer are one step, but for DATA: the server answers *)
(* when save_message returns, and serves nobody else before.  How a copy   *)
(* is written is left to SmtpReceiver and Attachments.                     *)
(***************************************************************************)
EXTENDS Integers, Sequences, FiniteSets

CONSTANTS
  Senders,      \* users of the script
  Emails,       \* Emails[s]: per email of s, its recipients' addresses
  Unstorable,   \* <<s, n>>: emails for which save_message raises
  Addresses,
  Mailboxes,
  MailboxOf,    \* sanitize_mailbox_name: undefined where it raises
  Username,     \* the credentials of the server
  Password,
  Credentials,  \* Credentials[s]: the <<login, password>> that s gives
  MaxRuns,      \* bounds the runs of a sender
  MaxFaults     \* bounds the crashes, lost connections and full disks

ASSUME DeliveryAssumption ==
  /\ IsFiniteSet(Senders)
  /\ Emails \in [Senders -> Seq(Seq(Addresses) \ {<< >>}) \ {<< >>}]
  /\ MailboxOf \in [Addresses \cap DOMAIN MailboxOf -> Mailboxes]
  /\ Credentials \in [Senders -> STRING \X STRING]
  /\ MaxRuns \in Nat /\ MaxFaults \in Nat

VARIABLES
  client,   \* client[s]: the script
  session,  \* session[s]: the server's end of its connection
  saving,   \* the call of save_message under way, or NotSaving
  up,       \* the smtp process runs
  stored,   \* the copies in the mailboxes
  drawn,    \* how many ids were drawn
  sent,     \* history: what the runs have printed "sent:" for
  faults

vars == <<client, session, saving, up, stored, drawn, sent, faults>>

\* The addresses that sanitize.
Valid == DOMAIN MailboxOf

(***************************************************************************)
(* The script is idle (not run yet, or a run failed) or it is done, or it  *)
(* waits to send a command.  It is at email n, recipient k.                *)
(***************************************************************************)
Clients ==
  [pc  : {"idle", "login", "rcpt", "answer", "done"},
   run : 0..MaxRuns, n : Nat \ {0}, k : Nat \ {0}]

Sessions ==
  [authenticated : BOOLEAN, rcpt_tos : Seq(Valid),
   answer : {"none", "250", "451"}]

Fresh == [authenticated |-> FALSE, rcpt_tos |-> << >>, answer |-> "none"]

\* An email as one run sends it.
Sendings == Senders \X (1..MaxRuns) \X (Nat \ {0})

\* save_message is at recipient k.  Whom is it for, if the connection lasts?
NotSaving == [of |-> "nobody"]
Savings   ==
  [of : Sendings, id : Nat, rcpt_tos : Seq(Valid), k : Nat \ {0},
   connected : BOOLEAN]

StoredCopies == [mailbox : Mailboxes, id : Nat, of : Sendings]

\* A script that runs is at one of its user's emails.
AtAnEmail(s, c) ==
  c.pc \notin {"idle", "done"} =>
    /\ c.run > 0
    /\ c.n \in DOMAIN Emails[s]
    /\ c.k \in 1..(Len(Emails[s][c.n]) + 1)

TypeOK ==
  /\ client \in [Senders -> Clients]
  /\ \A s \in Senders : AtAnEmail(s, client[s])
  /\ session \in [Senders -> Sessions]
  /\ saving \in Savings \cup {NotSaving}
  /\ up \in BOOLEAN
  /\ stored \subseteq StoredCopies
  /\ drawn \in Nat
  /\ sent \subseteq Sendings
  /\ faults \in 0..MaxFaults

Init ==
  /\ client = [s \in Senders |-> [pc |-> "idle", run |-> 0, n |-> 1, k |-> 1]]
  /\ session = [s \in Senders |-> Fresh]
  /\ saving = NotSaving
  /\ up = TRUE
  /\ stored = {} /\ drawn = 0 /\ sent = {} /\ faults = 0

\* The event loop takes commands.
Ready == up /\ saving = NotSaving

Current(s)   == <<s, client[s].run, client[s].n>>
Recipients(s) == Emails[s][client[s].n]

-----------------------------------------------------------------------------
(* Connecting and logging in                                               *)

\* main(): connect and STARTTLS.
StartRun(s) ==
  /\ client[s].pc = "idle" /\ client[s].run < MaxRuns
  /\ Ready
  /\ client' = [client EXCEPT
       ![s] = [pc |-> "login", run |-> @.run + 1, n |-> 1, k |-> 1]]
  /\ session' = [session EXCEPT ![s] = Fresh]
  /\ UNCHANGED <<saving, up, stored, drawn, sent, faults>>

\* Authenticator.__call__.
Authenticates(c) == c[1] = Username /\ c[2] = Password

\* s.login(): after 535 the script ends with an exception.
Login(s) ==
  /\ client[s].pc = "login" /\ Ready
  /\ IF Authenticates(Credentials[s])
       THEN /\ client' = [client EXCEPT ![s].pc = "rcpt"]
            /\ session' = [session EXCEPT ![s].authenticated = TRUE]
       ELSE /\ client' = [client EXCEPT ![s].pc = "idle"]
            /\ UNCHANGED session
  /\ UNCHANGED <<saving, up, stored, drawn, sent, faults>>

-----------------------------------------------------------------------------
(* One email                                                               *)

\* Mutants: any address goes; the list of recipients is one for all sessions;
\* only mailboxes that hold mail are known.
HandleRcptUnchecked(s, a) ==
  session' = [session EXCEPT ![s].rcpt_tos = Append(@, a)]

HandleRcptShared(s, a) ==
  session' = IF a \in Valid
               THEN [x \in Senders |->
                      [session[x] EXCEPT !.rcpt_tos = Append(@, a)]]
             ELSE session

HandleRcptKnown(s, a) ==
  session' = IF \E c \in stored : MailboxOf[a] = c.mailbox
               THEN [session EXCEPT ![s].rcpt_tos = Append(@, a)]
             ELSE session

\* handle_RCPT: 553 for an address that does not sanitize.
HandleRcpt(s, a) ==
  session' = IF a \in Valid
               THEN [session EXCEPT ![s].rcpt_tos = Append(@, a)]
             ELSE session

\* smtplib asks for each recipient in turn, and goes on after a 553.
Rcpt(s) ==
  /\ client[s].pc = "rcpt" /\ Ready
  /\ session[s].authenticated
  /\ client[s].k <= Len(Recipients(s))
  /\ HandleRcpt(s, Recipients(s)[client[s].k])
  /\ client' = [client EXCEPT ![s].k = @ + 1]
  /\ UNCHANGED <<saving, up, stored, drawn, sent, faults>>

\* When all were refused, smtplib raises and the script ends.
AllRefused(s) ==
  /\ client[s].pc = "rcpt" /\ Ready
  /\ client[s].k > Len(Recipients(s))
  /\ session[s].rcpt_tos = << >>
  /\ client' = [client EXCEPT ![s].pc = "idle"]
  /\ UNCHANGED <<session, saving, up, stored, drawn, sent, faults>>

\* DATA: handle_DATA calls save_message, which draws an id.
Data(s) ==
  /\ client[s].pc = "rcpt" /\ Ready
  /\ client[s].k > Len(Recipients(s))
  /\ session[s].rcpt_tos # << >>
  /\ client' = [client EXCEPT ![s].pc = "answer"]
  /\ drawn' = drawn + 1
  /\ saving' = [of |-> Current(s), id |-> drawn', k |-> 1,
                rcpt_tos |-> session[s].rcpt_tos, connected |-> TRUE]
  /\ UNCHANGED <<session, up, stored, sent, faults>>

-----------------------------------------------------------------------------
(* save_message and the answer                                             *)

Saving     == saving # NotSaving
Sender     == saving.of[1]
IsStorable == <<Sender, saving.of[3]>> \notin Unstorable

SaveCopy ==
  /\ Saving /\ IsStorable
  /\ saving.k <= Len(saving.rcpt_tos)
  /\ stored' = stored \cup
       {[mailbox |-> MailboxOf[saving.rcpt_tos[saving.k]],
         id |-> saving.id, of |-> saving.of]}
  /\ saving' = [saving EXCEPT !.k = @ + 1]
  /\ UNCHANGED <<client, session, up, drawn, sent, faults>>

\* The answer goes to the connection, if it is still there.  aiosmtpd then
\* starts a new envelope.
Reply(answer) ==
  /\ saving' = NotSaving
  /\ session' = IF saving.connected
                  THEN [session EXCEPT
                    ![Sender].rcpt_tos = << >>, ![Sender].answer = answer]
                ELSE session
  /\ UNCHANGED <<client, up, stored, drawn, sent>>

\* handle_DATA, when save_message has returned.
ReplyAccepted ==
  /\ Saving /\ saving.k > Len(saving.rcpt_tos)
  /\ Reply("250")
  /\ UNCHANGED faults

\* Mutant: an error is logged, and 250 answered.
ReplyErrorAccepted ==
  /\ Saving /\ saving.k <= Len(saving.rcpt_tos)
  /\ IF IsStorable THEN faults < MaxFaults /\ faults' = faults + 1
     ELSE UNCHANGED faults
  /\ Reply("250")

\* handle_DATA, when save_message has raised, for the email's sake or since
\* the disk is full.  Copies made so far stay.
ReplyError ==
  /\ Saving /\ saving.k <= Len(saving.rcpt_tos)
  /\ IF IsStorable THEN faults < MaxFaults /\ faults' = faults + 1
     ELSE UNCHANGED faults
  /\ Reply("451")

\* send_message returns: "sent:" is printed and the next email is taken.
\* It does not matter that addresses were refused.
Accepted(s) ==
  /\ client[s].pc = "answer" /\ session[s].answer = "250"
  /\ sent' = sent \cup {Current(s)}
  /\ client' = IF client[s].n < Len(Emails[s])
       THEN [client EXCEPT ![s] =
              [pc |-> "rcpt", run |-> @.run, n |-> @.n + 1, k |-> 1]]
       ELSE [client EXCEPT ![s].pc = "done"]
  /\ session' = [session EXCEPT ![s].answer = "none"]
  /\ UNCHANGED <<saving, up, stored, drawn, faults>>

\* Or it raises, and the script ends.
Rejected(s) ==
  /\ client[s].pc = "answer" /\ session[s].answer = "451"
  /\ client' = [client EXCEPT ![s].pc = "idle"]
  /\ UNCHANGED <<session, saving, up, stored, drawn, sent, faults>>

-----------------------------------------------------------------------------
(* Faults                                                                  *)

Fault == faults < MaxFaults /\ faults' = faults + 1

Running(s) == client[s].pc \notin {"idle", "done"}

\* The connection breaks, perhaps with an answer on its way.  A save under
\* way goes on.
Disconnect(s) ==
  /\ Fault
  /\ Running(s)
  /\ client' = [client EXCEPT ![s].pc = "idle"]
  /\ session' = [session EXCEPT ![s] = Fresh]
  /\ saving' = IF Saving /\ Sender = s
                 THEN [saving EXCEPT !.connected = FALSE] ELSE saving
  /\ UNCHANGED <<up, stored, drawn, sent>>

\* The smtp process is killed, with what it was doing.
Kill ==
  /\ Fault
  /\ up
  /\ up' = FALSE
  /\ saving' = NotSaving
  /\ session' = [s \in Senders |-> Fresh]
  /\ client' = [s \in Senders |->
       IF Running(s) THEN [client[s] EXCEPT !.pc = "idle"] ELSE client[s]]
  /\ UNCHANGED <<stored, drawn, sent>>

Restart ==
  /\ ~up
  /\ up' = TRUE
  /\ UNCHANGED <<client, session, saving, stored, drawn, sent, faults>>

ServerStep == SaveCopy \/ ReplyAccepted \/ ReplyError

ClientStep(s) ==
  \/ StartRun(s) \/ Login(s) \/ Rcpt(s) \/ AllRefused(s) \/ Data(s)
  \/ Accepted(s) \/ Rejected(s)

Next ==
  \/ ServerStep
  \/ \E s \in Senders : ClientStep(s) \/ Disconnect(s)
  \/ Kill
  \/ Restart

Spec == Init /\ [][Next]_vars

\* The mailboxes that an email can be stored in.
Targets(s, n) ==
  {MailboxOf[a] : a \in {Emails[s][n][j] : j \in DOMAIN Emails[s][n]}
                        \cap Valid}

\* Who has the credentials, and only emails that can be stored and have a
\* valid recipient each.
CanSend(s) ==
  /\ Credentials[s] = <<Username, Password>>
  /\ \A n \in DOMAIN Emails[s] :
       <<s, n>> \notin Unstorable /\ Targets(s, n) # {}

(***************************************************************************)
(* save_message returns, Docker restarts the process (restart: unless-     *)
(* stopped), and those who can send run the script again while it fails.   *)
(* Saves of other senders keep a command waiting, but the event loop takes *)
(* the commands in turn: strong fairness.  Nothing is assumed of the rest. *)
(***************************************************************************)
FairSpec ==
  /\ Spec
  /\ WF_vars(ServerStep)
  /\ WF_vars(Restart)
  /\ \A s \in {x \in Senders : CanSend(x)} : SF_vars(ClientStep(s))

-----------------------------------------------------------------------------
(* Properties                                                              *)

\* What the script prints "sent:" for has been stored, by that very run, in
\* the mailbox of every valid recipient (send_test_emails.py:111).
SentIsStored ==
  \A x \in sent : \A m \in Targets(x[1], x[3]) :
    \E c \in stored : c.mailbox = m /\ c.of = x

\* A copy is only ever in mailboxes that its own email names, whichever
\* emails came before it in the session or beside it in others
\* (server.py:26).
OnlyAddressed ==
  \A c \in stored : c.mailbox \in Targets(c.of[1], c.of[3])

\* Only those who know both name and password have anything stored
\* (auth.py:25, server.py:59).
StrangersStoreNothing ==
  \A c \in stored : Credentials[c.of[1]] = <<Username, Password>>

\* Retries double emails, but no run does: a mailbox holds no more copies of
\* an email than runs of the script have sent it (storage.py:56).
OncePerRun ==
  \A c, d \in stored : c.mailbox = d.mailbox /\ c.of = d.of => c = d

\* Runs of those who can send fail by faults alone, one run by each: whoever
\* runs the script again often enough gets a run that does not fail
\* (send_test_emails.py:110).
RunsFailByFaults ==
  \A s \in Senders :
    CanSend(s) /\ client[s].pc = "idle" => client[s].run <= faults

\* Who can send gets all emails through, with more runs than there are
\* faults, whatever the others do.
SendersGetThrough ==
  MaxRuns > MaxFaults =>
    \A s \in Senders : CanSend(s) => <>(client[s].pc = "done")

-----------------------------------------------------------------------------
(* What it promises                                                        *)

Promise == INSTANCE Mailing WITH
  To       <- [s \in Senders |-> [n \in DOMAIN Emails[s] |-> Targets(s, n)]],
  Known    <- {s \in Senders : Credentials[s] = <<Username, Password>>},
  copies   <- stored,
  reported <- sent

\* Sessions and envelopes, answers that are lost, repeated recipients and
\* runs that fail halfway give what Mailing promises: each run stores in
\* turn, a copy a mailbox, and reports what it has stored (server.py:24).
ImplementsMailing == Promise!Spec
=============================================================================
