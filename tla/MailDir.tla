------------------------------- MODULE MailDir -------------------------------
(***************************************************************************)
(* The directory tree that EmailStorage (common/storage.py) keeps under    *)
(* mail_dir and that the smtp process and the web process share:           *)
(*                                                                         *)
(*    <mailbox>/emails/<id>/{raw.eml, body.txt, ..., metadata.json}        *)
(*                                                                         *)
(* Both processes reach it only by system calls, so the operators below    *)
(* are those calls: each changes the tree in one indivisible step.         *)
(***************************************************************************)
EXTENDS Integers, Sequences, FiniteSets

CONSTANTS
  Mailboxes,    \* sanitized addresses, the names of the mailbox directories
  Ids,          \* the uuid4 strings save_message draws, never drawn twice
  Parts,        \* the files of an email other than metadata.json, in order
  SharedTicks   \* may two changes of emails/ carry the same mtime?

Metadata == "metadata.json"
Payload  == {Parts[i] : i \in 1..Len(Parts)}
Names    == Payload \cup {Metadata}

ASSUME MailDirAssumption ==
  /\ IsFiniteSet(Ids)
  /\ Parts \in Seq(STRING)
  /\ Parts # << >>
  /\ Metadata \notin Payload
  /\ \A i, j \in 1..Len(Parts) : Parts[i] = Parts[j] => i = j
  /\ SharedTicks \in BOOLEAN

(***************************************************************************)
(* What a file holds: there is none, it is created or truncated and not    *)
(* yet written, or it is whole as written for the k-th recipient of the    *)
(* message, k >= 1.  Two copies of one message in one mailbox differ in    *)
(* the received_at of metadata.json only, so k stands for the contents.    *)
(***************************************************************************)
Absent   == -1
Torn     == 0
Contents == Nat \cup {Absent}

VARIABLES
  entries,   \* entries[m]: the <id> directories in m/emails
  mtime,     \* mtime[m]: st_mtime_ns of m/emails, 0 while it does not exist
  kept,      \* history: kept[m], the mtimes that outlasted a removal
  file       \* file[m][e][f]: what the file f of m/emails/e holds

disk == <<entries, mtime, kept, file>>

DiskTypeOK ==
  /\ entries \in [Mailboxes -> SUBSET Ids]
  /\ mtime   \in [Mailboxes -> Nat]
  /\ kept    \in [Mailboxes -> SUBSET Nat]
  /\ file    \in [Mailboxes -> [Ids -> [Names -> Contents]]]

DiskInit ==
  /\ entries = [m \in Mailboxes |-> {}]
  /\ mtime   = [m \in Mailboxes |-> 0]
  /\ kept    = [m \in Mailboxes |-> {}]
  /\ file    = [m \in Mailboxes |-> [e \in Ids |-> [f \in Names |-> Absent]]]

Whole(m, e, f) == file[m][e][f] > Torn
Readable(m, e) == Whole(m, e, Metadata)
Present(m, e)  == {f \in Names : file[m][e][f] # Absent}

(***************************************************************************)
(* A change of the entries of m/emails stamps it.  The stamp is that of    *)
(* the change before when both fall within the resolution of the file      *)
(* system's clock (the comment at storage.py:175 reports having met this). *)
(***************************************************************************)
Stamp(m) ==
  \E tick \in {0, 1} :
    /\ tick = 0 => SharedTicks /\ mtime[m] > 0
    /\ mtime' = [mtime EXCEPT ![m] = @ + tick]

MakeDir(m, e) ==
  /\ entries' = [entries EXCEPT ![m] = @ \cup {e}]
  /\ IF e \in entries[m] THEN UNCHANGED mtime ELSE Stamp(m)
  /\ UNCHANGED <<kept, file>>

SetFile(m, e, f, contents) ==
  /\ file' = [file EXCEPT ![m][e][f] = contents]
  /\ UNCHANGED <<entries, mtime, kept>>

RemoveDir(m, e) ==
  /\ entries' = [entries EXCEPT ![m] = @ \ {e}]
  /\ Stamp(m)
  /\ kept' = [kept EXCEPT ![m] =
               IF mtime'[m] = mtime[m] THEN @ \cup {mtime[m]} ELSE @]
  /\ UNCHANGED file
=============================================================================
