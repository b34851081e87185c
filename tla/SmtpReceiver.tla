----------------------------- MODULE SmtpReceiver -----------------------------
(***************************************************************************)
(* The smtp process: StorageHandler.handle_RCPT and handle_DATA            *)
(* (smtp/server.py) and the EmailStorage.save_message they call            *)
(* (common/storage.py).                                                    *)
(*                                                                         *)
(* handle_DATA does not await: while save_message runs, the event loop     *)
(* serves nothing else, so one message is being stored at any time and a   *)
(* single record holds it.  Its steps interleave with those of the web     *)
(* process and with crashes.                                               *)
(***************************************************************************)
EXTENDS MailDir

CONSTANTS
  Addresses,    \* what senders give to RCPT TO
  MailboxOf,    \* sanitize_mailbox_name: undefined where it raises
  MaxRcpts,     \* bound: recipients of one message
  Repeats       \* the messages whose sender may name one mailbox twice

ASSUME SmtpAssumption ==
  /\ MailboxOf \in [Addresses \cap DOMAIN MailboxOf -> Mailboxes]
  /\ MaxRcpts \in Nat
  /\ Repeats \subseteq Ids

VARIABLES
  smtp,      \* the envelope and the progress of save_message
  drawn,     \* the ids drawn so far
  acked      \* history: the <<mailbox, id>> copies a 250 answer vouches for

smtpVars == <<smtp, drawn, acked>>

\* Mutants: metadata.json first; bodies after it; a placeholder that is
\* replaced at the end.
WriteOrderMetaFirst   == <<Metadata>> \o Parts
WriteOrderBodiesLast  == <<Parts[1], Metadata>> \o Tail(Parts)
WriteOrderPlaceholder == <<Metadata>> \o Parts \o <<Metadata>>

\* The order in which save_message writes the files of one copy.
WriteOrder == Append(Parts, Metadata)

(***************************************************************************)
(* smtp.pc names the next system call of save_message, for recipient       *)
(* number k and, from "open" to "chmod", the i-th file of WriteOrder.      *)
(***************************************************************************)
Envelopes ==
  [pc    : {"rcpt", "mkdir", "open", "fill", "chmod", "reply"},
   rcpts : Seq(DOMAIN MailboxOf),
   id    : Ids \cup {"none"},
   k     : Nat \ {0},
   i     : 1..Len(WriteOrder)]

SmtpTypeOK ==
  /\ smtp \in Envelopes
  /\ IF smtp.pc = "rcpt" THEN smtp.k = 1
     ELSE smtp.id \in drawn /\ smtp.k \in 1..Len(smtp.rcpts)
  /\ drawn \subseteq Ids
  /\ acked \subseteq Mailboxes \X Ids

NewEnvelope ==
  [pc |-> "rcpt", rcpts |-> << >>, id |-> "none", k |-> 1, i |-> 1]

SmtpInit ==
  /\ smtp  = NewEnvelope
  /\ drawn = {}
  /\ acked = {}

Recipient(k) == MailboxOf[smtp.rcpts[k]]
Recipients   == {Recipient(k) : k \in 1..Len(smtp.rcpts)}
Box          == Recipient(smtp.k)
File         == WriteOrder[smtp.i]

RecipientsDiffer ==
  \A i, j \in 1..Len(smtp.rcpts) : i # j => Recipient(i) # Recipient(j)

(***************************************************************************)
(* handle_RCPT appends without looking for the address in rcpt_tos.  An    *)
(* address that does not sanitize is answered 553 and changes nothing.     *)
(***************************************************************************)
HandleRcpt(a) ==
  /\ smtp.pc = "rcpt"
  /\ Len(smtp.rcpts) < MaxRcpts
  /\ a \in DOMAIN MailboxOf
  /\ smtp' = [smtp EXCEPT !.rcpts = Append(@, a)]
  /\ UNCHANGED <<drawn, acked, disk>>

\* Mutant: an id that is not fresh, such as one taken from Message-ID.
BeginSaveAnyId(e) ==
  /\ smtp.pc = "rcpt"
  /\ smtp.rcpts # << >>
  /\ e \in Repeats \/ RecipientsDiffer
  /\ drawn' = drawn \cup {e}
  /\ smtp' = [smtp EXCEPT !.pc = "mkdir", !.id = e]
  /\ UNCHANGED <<acked, disk>>

BeginSave(e) ==
  /\ smtp.pc = "rcpt"
  /\ smtp.rcpts # << >>
  /\ e \in Repeats \/ RecipientsDiffer
  /\ e \notin drawn
  /\ drawn' = drawn \cup {e}
  /\ smtp' = [smtp EXCEPT !.pc = "mkdir", !.id = e]
  /\ UNCHANGED <<acked, disk>>

SaveMkdir ==
  /\ smtp.pc = "mkdir"
  /\ MakeDir(Box, smtp.id)
  /\ smtp' = [smtp EXCEPT !.pc = "open", !.i = 1]
  /\ UNCHANGED <<drawn, acked>>

\* _write_private: Path.write_bytes creates or truncates the file, ...
SaveOpen ==
  /\ smtp.pc = "open"
  /\ smtp.id \in entries[Box]
  /\ SetFile(Box, smtp.id, File, Torn)
  /\ smtp' = [smtp EXCEPT !.pc = "fill"]
  /\ UNCHANGED <<drawn, acked>>

\* ... writes it (into nowhere if the file has lost its name meanwhile) ...
SaveFill ==
  /\ smtp.pc = "fill"
  /\ SetFile(Box, smtp.id, File,
             IF File \in Present(Box, smtp.id) THEN smtp.k ELSE Absent)
  /\ smtp' = [smtp EXCEPT !.pc = "chmod"]
  /\ UNCHANGED <<drawn, acked>>

\* Mutants: one file too many; the last recipient forgotten.
SaveChmodPastEnd ==
  /\ smtp.pc = "chmod"
  /\ File \in Present(Box, smtp.id)
  /\ smtp' = IF smtp.i <= Len(WriteOrder)
               THEN [smtp EXCEPT !.pc = "open", !.i = @ + 1]
             ELSE [smtp EXCEPT !.pc = "reply"]
  /\ UNCHANGED <<drawn, acked, disk>>

SaveChmodSkipsLast ==
  /\ smtp.pc = "chmod"
  /\ File \in Present(Box, smtp.id)
  /\ smtp' = IF smtp.i < Len(WriteOrder)
               THEN [smtp EXCEPT !.pc = "open", !.i = @ + 1]
             ELSE IF smtp.k < Len(smtp.rcpts) - 1
               THEN [smtp EXCEPT !.pc = "mkdir", !.k = @ + 1]
             ELSE [smtp EXCEPT !.pc = "reply"]
  /\ UNCHANGED <<drawn, acked, disk>>

\* ... and Path.chmod looks it up again by name.
SaveChmod ==
  /\ smtp.pc = "chmod"
  /\ File \in Present(Box, smtp.id)
  /\ smtp' = IF smtp.i < Len(WriteOrder)
               THEN [smtp EXCEPT !.pc = "open", !.i = @ + 1]
             ELSE IF smtp.k < Len(smtp.rcpts)
               THEN [smtp EXCEPT !.pc = "mkdir", !.k = @ + 1]
             ELSE [smtp EXCEPT !.pc = "reply"]
  /\ UNCHANGED <<drawn, acked, disk>>

\* handle_DATA answers 250; aiosmtpd then starts a new envelope.
ReplyAccepted ==
  /\ smtp.pc = "reply"
  /\ acked' = acked \cup {<<m, smtp.id>> : m \in Recipients}
  /\ smtp' = NewEnvelope
  /\ UNCHANGED <<drawn, disk>>

(***************************************************************************)
(* The message is given up: save_message raised (a message that does not   *)
(* parse, a full disk, a file that another process removed) and the answer *)
(* is 451; or the process was killed, or the sender hung up before DATA.   *)
(* What was written stays.  A sender that tries again begins a new         *)
(* envelope.                                                               *)
(***************************************************************************)
Abandon ==
  /\ smtp # NewEnvelope
  /\ smtp' = NewEnvelope
  /\ UNCHANGED <<drawn, acked, disk>>

SmtpStep ==
  \/ \E a \in Addresses : HandleRcpt(a)
  \/ \E e \in Ids : BeginSave(e)
  \/ SaveMkdir
  \/ SaveOpen
  \/ SaveFill
  \/ SaveChmod
  \/ ReplyAccepted
  \/ Abandon
=============================================================================
