------------------------------ MODULE MailStore ------------------------------
(***************************************************************************)
(* The smtp process and the web process over one mail directory, and what  *)
(* must hold of the two together.  They share no lock and no memory: each  *)
(* interleaving of their system calls is possible.                         *)
(***************************************************************************)
EXTENDS SmtpReceiver, WebMail

vars == <<disk, smtpVars, webVars>>

Init == DiskInit /\ SmtpInit /\ WebInit

Next ==
  \/ SmtpStep /\ UNCHANGED webVars
  \/ WebStep  /\ UNCHANGED smtpVars

Spec == Init /\ [][Next]_vars

(***************************************************************************)
(* The thread pool serves every request it has started, and a browser that *)
(* shows the inbox asks for the list again every 10 seconds (app.js:210).  *)
(* Requests wait in a queue, so a poll gets a thread although other        *)
(* requests make it wait: strong fairness.  Nothing is assumed of senders. *)
(***************************************************************************)
Fairness ==
  /\ \A t \in Threads : WF_vars(Serve(t) /\ UNCHANGED smtpVars)
  /\ \A m \in Mailboxes :
       SF_vars(\E t \in Threads : ListStat(t, m) /\ UNCHANGED smtpVars)

FairSpec == Spec /\ Fairness

Condemned(m, e) == <<m, e>> \in condemned

\* No removal has left the mtime that request r has read as it was; none does
\* where the clock of the file system is fine enough.
StatTells(r) == r.stat \notin kept[r.mb]

\* The disk, the writer and the readers are in states the code can reach:
\* save_message stays within its files and recipients (storage.py:77-137).
TypeOK == DiskTypeOK /\ SmtpTypeOK /\ WebTypeOK

-----------------------------------------------------------------------------
(* Safety                                                                  *)

\* A copy whose metadata.json parses has every other file, written in full,
\* until a delete of it has begun: save_message writes metadata.json last
\* (storage.py:134), which is what makes an unlocked reader safe.
VisibleIsWhole ==
  \A m \in Mailboxes, e \in Ids :
    Readable(m, e) => Condemned(m, e) \/ \A f \in Payload : Whole(m, e, f)

\* Every copy a 250 answer vouches for has all its files, each written in
\* full, until somebody deletes it: also those of the first recipients, which
\* lay on the disk while the later ones were written, and also when a sender
\* named a mailbox twice (server.py:31-43).
AckedIsStored ==
  \A x \in acked :
    Condemned(x[1], x[2]) \/ \A f \in Names : Whole(x[1], x[2], f)

\* A detail view that answers 200 has the body in full unless a delete of the
\* message began meanwhile, although get_email and get_body_text look at the
\* disk at different times (app.py:153-158).
DetailIsWhole ==
  \A t \in Threads :
    LET m == thread[t].mb  e == thread[t].id
    IN  At(t, "detailed") => thread[t].text > Torn \/ Condemned(m, e)

\* A list request without another beside it would be served from the cache.
Servable(m) ==
  cache[m].mtime = mtime[m] /\ cache[m].count = Cardinality(entries[m])

\* Whenever list_emails would serve the cache (equal mtime, equal count), it
\* lists just the directories there are, with the contents metadata.json has
\* now, but for emails being deleted (storage.py:37-44, 171-186); the count
\* tells what arrived within one tick of the clock, as storage.py:175-178 says.
\* It does not where a removal left the mtime as it was.
CacheSound ==
  \A m \in Mailboxes :
    Servable(m) /\ mtime[m] \notin kept[m]
      => /\ IdsOf(cache[m].emails) = entries[m]
         /\ \A x \in cache[m].emails :
              file[m][x[1]][Metadata] = x[2] \/ Condemned(m, x[1])

\* A list reply does not show an email whose delete had been answered with
\* 204 before the request's first system call (storage.py:206-210), unless the
\* mtime that call returned outlasted a removal.
DeletedNotListed ==
  \A t \in Threads :
    At(t, "listed") /\ StatTells(thread[t]) =>
      IdsOf(thread[t].emails) \cap thread[t].gone = {}

\* A list reply shows every email that could be read when the request's first
\* system call was made and that nobody has begun to delete
\* (storage.py:45-47), unless the mtime that call returned outlasted a
\* removal, or the sender named the mailbox twice, so that metadata.json is
\* written anew.
AcceptedIsListed ==
  \A t \in Threads :
    At(t, "listed") /\ StatTells(thread[t]) =>
      \A e \in thread[t].had \ Repeats :
        e \in IdsOf(thread[t].emails) \/ Condemned(thread[t].mb, e)

\* The save in progress is about to make the directory of its message in m
\* once more: its sender named m twice.
NamedAgain(m, e) ==
  /\ smtp.pc = "mkdir" /\ smtp.id = e
  /\ Box = m
  /\ \E j \in 1..(smtp.k - 1) : Recipient(j) = m

\* A delete that answered 204 is final ("Permanently remove", storage.py:206):
\* nothing makes the directory again, except the very save that is still
\* delivering the message and comes to a second spelling of the mailbox
\* (storage.py:84-85).  After the 250 answer nothing does, whatever a sender
\* names and however often it tries again.
DeleteFinal ==
  [][\A x \in removed :
       x[2] \in entries'[x[1]] =>
         x[2] \in entries[x[1]] \/ NamedAgain(x[1], x[2])]_vars

\* metadata.json is written once: having become readable it is only ever
\* removed, never truncated or replaced (storage.py:38).
MetaWriteOnce ==
  [][\A m \in Mailboxes, e \in Ids :
       Readable(m, e) =>
         file'[m][e][Metadata] \in {file[m][e][Metadata], Absent}]_vars

-----------------------------------------------------------------------------
(* Liveness                                                                *)

\* An accepted message comes to be listed by a browser that polls, or else
\* somebody deletes it first; unless the mailbox comes to rest with an mtime
\* that outlasted a removal.
AcceptedSurfaces ==
  \A m \in Mailboxes :
    \/ <>[](mtime[m] \in kept[m])
    \/ \A e \in Ids :
         <<m, e>> \in acked ~> e \in shown[m] \/ Condemned(m, e)

-----------------------------------------------------------------------------
(* The promise of Inbox.tla, implemented                                   *)

StateOf(m, e) ==
  IF Condemned(m, e) THEN "deleted"
  ELSE IF Readable(m, e) THEN "stored" ELSE "none"

Promise == INSTANCE Inbox WITH
  Copies  <- Mailboxes \X Ids,
  state   <- [c \in Mailboxes \X Ids |-> StateOf(c[1], c[2])],
  vouched <- acked,
  listed  <- {c \in Mailboxes \X Ids : c[2] \in shown[c[1]]}

\* The two processes implement Inbox: each of their steps is one of its
\* steps, or changes nothing that Inbox speaks of.
ImplementsInbox == Promise!Spec

-----------------------------------------------------------------------------
(* The inductive invariant behind VisibleIsWhole, MetaWriteOnce and        *)
(* ImplementsInbox, for senders that name a mailbox once in a message.     *)

Appeared(m, e) == Readable(m, e) \/ Condemned(m, e)

\* Browsers, the cache and the requests have only ever seen copies that have
\* appeared, ...
ShownHasAppeared ==
  \A m \in Mailboxes : \A e \in shown[m] : Appeared(m, e)

CachedHasAppeared ==
  \A m \in Mailboxes : \A x \in cache[m].emails : Appeared(m, x[1])

ReadHasAppeared ==
  \A t \in Threads : thread[t].pc # "idle" =>
    \A x \in thread[t].emails : Appeared(thread[t].mb, x[1])

SeenHasAppeared == ShownHasAppeared /\ CachedHasAppeared /\ ReadHasAppeared

\* ... and rmtree works on condemned copies.
DeletesAreCondemned ==
  \A t \in Threads :
    thread[t].pc \in {"scan", "unlink"} =>
      Condemned(thread[t].mb, thread[t].id)

\* The files the writer has finished in the copy it works on.
Written ==
  CASE smtp.pc \in {"open", "fill"} -> 1..(smtp.i - 1)
    [] smtp.pc = "chmod"            -> 1..smtp.i
    [] OTHER                        -> {}

WrittenIsWhole ==
  /\ \A j \in Written :
       Whole(Box, smtp.id, WriteOrder[j]) \/ Condemned(Box, smtp.id)
  /\ smtp.pc = "fill" =>
       File \in Present(Box, smtp.id) \/ Condemned(Box, smtp.id)

\* The recipients whose copy is done, and those whose copy has not appeared.
Done ==
  {j \in 1..Len(smtp.rcpts) : \/ smtp.pc # "rcpt" /\ j < smtp.k
                              \/ smtp.pc = "reply"}

Pending ==
  {j \in 1..Len(smtp.rcpts) :
     \/ smtp.pc \in {"mkdir", "open", "fill", "chmod"} /\ j > smtp.k
     \/ smtp.pc \in {"mkdir", "open", "fill"} /\ j = smtp.k
     \/ smtp.pc = "chmod" /\ j = smtp.k /\ smtp.i < Len(WriteOrder)}

DoneHasAppeared == \A j \in Done : Appeared(Recipient(j), smtp.id)

PendingHasNotAppeared ==
  /\ \A j \in Pending : ~Appeared(Recipient(j), smtp.id)
  /\ \A m \in Mailboxes, e \in Ids \ drawn : ~Appeared(m, e)

\* No message that is being saved names a mailbox twice.
SavedToDifferent == smtp.pc # "rcpt" => RecipientsDiffer

\* The invariant of the proofs: each clause says how far a copy has come as
\* a function of where its writer, its readers and its deletes are
\* (storage.py:77-137, 188-196, 211-214).
WholeInv ==
  /\ SeenHasAppeared
  /\ DeletesAreCondemned
  /\ WrittenIsWhole
  /\ DoneHasAppeared
  /\ PendingHasNotAppeared
  /\ SavedToDifferent
  /\ VisibleIsWhole

-----------------------------------------------------------------------------
(* The inductive invariant behind AckedIsStored, for all senders.          *)

\* What was vouched for is never the copy being written: ids are not drawn
\* twice, so a retry of the same message has another one.
AckedIsOld ==
  \A x \in acked :
    x[2] \in drawn /\ (smtp.pc # "rcpt" => x[2] # smtp.id)

\* The copies that are done stay whole, but for the one that is being written
\* a second time because its mailbox was named again.
DoneIsWhole ==
  \A j \in Done :
    \/ Condemned(Recipient(j), smtp.id)
    \/ smtp.pc \in {"open", "fill", "chmod"} /\ Recipient(j) = Box
    \/ \A f \in Names : Whole(Recipient(j), smtp.id, f)

AckInv ==
  /\ DeletesAreCondemned
  /\ WrittenIsWhole
  /\ DoneIsWhole
  /\ AckedIsOld
  /\ AckedIsStored

-----------------------------------------------------------------------------
(* The inductive invariant behind DeleteFinal, for all senders.            *)

\* The recipients for whom save_message has made a directory.
Reached ==
  {j \in 1..Len(smtp.rcpts) :
     IF smtp.pc = "mkdir" THEN j < smtp.k ELSE j <= smtp.k}

\* A directory that is there, or was until a delete removed it, is of an id
\* drawn before, and if that is the id of the message being saved, the save
\* has already been to that mailbox.
DirsWereMade ==
  \A m \in Mailboxes, e \in Ids :
    e \in entries[m] \/ <<m, e>> \in removed =>
      /\ e \in drawn
      /\ smtp.pc # "rcpt" /\ smtp.id = e =>
           \E j \in Reached : Recipient(j) = m

-----------------------------------------------------------------------------
(* The inductive invariant behind CacheSound, DeletedNotListed and         *)
(* DetailIsWhole, for senders that name a mailbox once in a message.       *)

\* What a delete has removed has no directory.
RemovedIsGone ==
  \A x \in removed : x \in condemned /\ x[2] \notin entries[x[1]]

\* A list of m that is being made, or was made, from a scan after a stat:
\* todo is what the scan has still to visit.  As long as the mtime is
\* that of the stat, and has not outlasted a removal, there is nothing in it
\* that is not there; what some request must not show was removed after it.
GoodList(m, stat, emails, todo) ==
  /\ stat <= mtime[m]
  /\ stat = mtime[m] /\ stat \notin kept[m] =>
       IdsOf(emails) \cup todo \subseteq entries[m]
  /\ Cardinality(emails) = Cardinality(IdsOf(emails))
  /\ IdsOf(emails) \cap todo = {}
  /\ \A x \in emails : file[m][x[1]][Metadata] = x[2] \/ Condemned(m, x[1])
  /\ \A t \in Threads : thread[t].pc # "idle" /\ thread[t].mb = m =>
       \A e \in thread[t].gone :
         e \in IdsOf(emails) \cup todo =>
           stat < thread[t].stat \/ stat \in kept[m]

CachedIsGood ==
  \A m \in Mailboxes :
    /\ GoodList(m, cache[m].mtime, cache[m].emails, {})
    /\ cache[m].count = Cardinality(cache[m].emails)

ReadIsGood ==
  \A t \in Threads :
    LET r == thread[t]
    IN  r.pc # "idle" => /\ GoodList(r.mb, r.stat, r.emails, r.todo)
                         /\ \A e \in r.gone : <<r.mb, e>> \in removed
                         /\ r.pc = "lookup" => r.todo = {}

\* A detail view is on its way to a copy that has appeared.
DetailIsOfAppeared ==
  \A t \in Threads :
    thread[t].pc \in {"exists", "body"} =>
      Appeared(thread[t].mb, thread[t].id)

ReadersInv ==
  /\ RemovedIsGone
  /\ CachedIsGood
  /\ ReadIsGood
  /\ DetailIsOfAppeared
  /\ DetailIsWhole

-----------------------------------------------------------------------------
(* The inductive invariant behind AcceptedIsListed, for one thread: with a *)
(* second one v_stat_then_count refutes it.                                *)

\* Every file lies in a directory, and a mailbox that was never written to
\* has none.
FilesHaveDirs ==
  \A m \in Mailboxes, e \in Ids : Present(m, e) # {} => e \in entries[m]

NeverWrittenIsEmpty == \A m \in Mailboxes : mtime[m] = 0 => entries[m] = {}

\* Where a list request stands, it has not lost any email it should find.
NothingLost(r) ==
  r.pc \in {"lookup", "count", "glob", "read", "listed"} /\ StatTells(r) =>
    /\ \A e \in r.had : Readable(r.mb, e) /\ ~Condemned(r.mb, e)
    /\ r.pc = "lookup" /\ cache[r.mb].mtime = r.stat =>
         IdsOf(cache[r.mb].emails) \subseteq entries[r.mb]
    /\ r.pc = "count" => /\ IdsOf(r.emails) \subseteq entries[r.mb]
                         /\ r.count = Cardinality(r.emails)
    /\ r.pc = "read"   => r.had \subseteq IdsOf(r.emails) \cup r.todo
    /\ r.pc = "listed" => r.had \subseteq IdsOf(r.emails)

OneReaderInv ==
  /\ FilesHaveDirs
  /\ NeverWrittenIsEmpty
  /\ \A t \in Threads : NothingLost(thread[t])
=============================================================================
