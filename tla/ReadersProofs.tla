---------------------------- MODULE ReadersProofs -----------------------------
(***************************************************************************)
(* Theorems about the lists, the details and the deletes of MailStore, for *)
(* every value of its constants, in ticks of the clock that may cover any  *)
(* number of changes.  Those of the lists and the details are for senders  *)
(* that name a mailbox once in a message; that lists are up to date, for   *)
(* requests that come one at a time.                                       *)
(***************************************************************************)
EXTENDS MailStoreProofs

-----------------------------------------------------------------------------
(* What a step does to the disk                                            *)

\* The two steps that change the entries of a directory.
LEMMA EntriesStep ==
  ASSUME [Next]_vars
  PROVE  \/ UNCHANGED <<entries, mtime, kept, removed>>
         \/ SaveMkdir /\ UNCHANGED webVars
         \/ \E t \in Threads :
              /\ DeleteRmdir(t)
              /\ RemoveDir(thread[t].mb, thread[t].id)
              /\ removed' = removed \cup {<<thread[t].mb, thread[t].id>>}
              /\ UNCHANGED smtpVars
  <1>1. CASE SmtpStep /\ UNCHANGED webVars
    BY <1>1 DEF SmtpStep, HandleRcpt, BeginSave, SaveOpen, SaveFill,
                SaveChmod, ReplyAccepted, Abandon, SetFile, disk, webVars
  <1>2. CASE WebStep /\ UNCHANGED smtpVars
    <2>1. ASSUME NEW t \in Threads, NEW f \in Names, DeleteUnlink(t, f)
          PROVE  UNCHANGED <<entries, mtime, kept, removed>>
      BY <2>1 DEF DeleteUnlink, SetFile, disk
    <2>2. ASSUME NEW t \in Threads, DeleteRmdir(t)
          PROVE  \/ UNCHANGED <<entries, mtime, kept, removed>>
                 \/ /\ RemoveDir(thread[t].mb, thread[t].id)
                    /\ removed' =
                         removed \cup {<<thread[t].mb, thread[t].id>>}
      BY <2>2 DEF DeleteRmdir, disk
    <2>3. ASSUME NEW t \in Threads, Serve(t)
          PROVE  \/ UNCHANGED <<entries, mtime, kept, removed>>
                 \/ \E f \in Names : DeleteUnlink(t, f)
                 \/ DeleteRmdir(t)
      BY <2>3
      DEF Serve, ListLookup, ListCount, ListGlob, ListRead, ListStore,
          ListReply, DetailExists, DetailBody, DetailReply, DeleteScan, disk
    <2>4. ASSUME \/ \E t \in Threads, n \in Mailboxes : ListStat(t, n)
                 \/ \E t \in Threads, n \in Mailboxes, d \in Ids :
                      DetailMeta(t, n, d) \/ DeleteCheck(t, n, d)
                 \/ WebRestart
          PROVE  UNCHANGED <<entries, mtime, kept, removed>>
      BY <2>4 DEF ListStat, DetailMeta, DeleteCheck, WebRestart, disk
    <2> QED BY <1>2, <2>1, <2>2, <2>3, <2>4 DEF WebStep
  <1>3. CASE UNCHANGED vars
    BY <1>3 DEF vars, disk, webVars
  <1> QED BY <1>1, <1>2, <1>3 DEF Next

LEMMA RemovingThread ==
  ASSUME TypeInv, NEW t \in Threads, DeleteRmdir(t)
  PROVE  thread[t].mb \in Mailboxes /\ thread[t].id \in Ids
  BY DEF DeleteRmdir, At, TypeInv, WebInv, WebTypeOK, ThreadTypeOK

\* A stamp never goes back; and while it stays, nothing is removed, or it is
\* remembered as one that outlasted a removal.  A directory that was never
\* stamped has not changed.
StampsTell(m) ==
  /\ mtime[m] \in Nat /\ mtime'[m] \in Nat /\ mtime[m] <= mtime'[m]
  /\ kept[m] \subseteq kept'[m]
  /\ mtime[m] = mtime'[m] =>
       mtime[m] \in kept'[m] \/ entries[m] \subseteq entries'[m]
  /\ mtime'[m] = 0 => entries'[m] = entries[m]

LEMMA StampsGrow ==
  ASSUME TypeInv, [Next]_vars, NEW m \in Mailboxes
  PROVE  StampsTell(m)
  <1>1. /\ mtime \in [Mailboxes -> Nat]
        /\ entries \in [Mailboxes -> SUBSET Ids]
        /\ kept \in [Mailboxes -> SUBSET Nat]
    BY DEF TypeInv, WebInv, DiskTypeOK
  <1>2. ASSUME NEW n \in Mailboxes, Stamp(n)
        PROVE  \A x \in Mailboxes :
                 /\ mtime'[x] \in Nat /\ mtime[x] <= mtime'[x]
                 /\ x # n => mtime'[x] = mtime[x]
                 /\ mtime'[n] # 0
    <2>1. PICK tick \in {0, 1} :
            /\ tick = 0 => mtime[n] > 0
            /\ mtime' = [mtime EXCEPT ![n] = @ + tick]
      BY <1>2 DEF Stamp
    <2> QED BY <1>1, <2>1
  <1>3. CASE UNCHANGED <<entries, mtime, kept>>
    BY <1>1, <1>3 DEF StampsTell
  <1>4. CASE SaveMkdir
    <2>1. Box \in Mailboxes /\ MakeDir(Box, smtp.id)
      BY <1>4, BoxType DEF SaveMkdir, TypeInv
    <2>2. /\ \A x \in Mailboxes \ {Box} : entries'[x] = entries[x]
          /\ \A x \in Mailboxes : entries[x] \subseteq entries'[x]
          /\ kept' = kept
      BY <1>1, <2>1 DEF MakeDir
    <2>3. CASE smtp.id \in entries[Box]
      <3>1. entries'[Box] = entries[Box] /\ mtime' = mtime
        BY <1>1, <2>1, <2>3 DEF MakeDir
      <3> QED BY <1>1, <2>2, <3>1 DEF StampsTell
    <2>4. CASE smtp.id \notin entries[Box]
      <3>1. Stamp(Box)
        BY <2>1, <2>4 DEF MakeDir
      <3> QED BY <1>1, <1>2, <2>1, <2>2, <3>1 DEF StampsTell
    <2> QED BY <2>3, <2>4
  <1>5. ASSUME NEW t \in Threads, DeleteRmdir(t),
               RemoveDir(thread[t].mb, thread[t].id)
        PROVE  StampsTell(m)
    <2> DEFINE b == thread[t].mb
    <2>1. b \in Mailboxes /\ Stamp(b)
      BY <1>5, RemovingThread DEF RemoveDir
    <2>2. \A x \in Mailboxes \ {b} : entries'[x] = entries[x]
      BY <1>1, <1>5, <2>1 DEF RemoveDir
    <2>3. /\ \A x \in Mailboxes : kept[x] \subseteq kept'[x]
          /\ mtime'[b] = mtime[b] => mtime[b] \in kept'[b]
      BY <1>1, <1>5, <2>1 DEF RemoveDir
    <2> HIDE DEF b
    <2> QED BY <1>1, <1>2, <2>1, <2>2, <2>3 DEF StampsTell
  <1> QED BY <1>1, <1>3, <1>4, <1>5, EntriesStep

\* The writer makes directories only for copies that have not appeared.
LEMMA MkdirIsForNew ==
  ASSUME TypeInv, WholeInv, SaveMkdir
  PROVE  Box \in Mailboxes /\ smtp.id \in Ids /\ ~Appeared(Box, smtp.id)
  <1>1. smtp.pc = "mkdir" /\ smtp.k \in 1..Len(smtp.rcpts)
    BY DEF SaveMkdir, TypeInv, SmtpTypeOK
  <1>2. smtp.k \in Pending
    BY <1>1 DEF Pending
  <1>3. ~Appeared(Recipient(smtp.k), smtp.id)
    BY <1>2 DEF WholeInv, PendingHasNotAppeared
  <1> QED BY <1>1, <1>3, BoxType DEF Box, TypeInv

LEMMA CondemnedGrows ==
  ASSUME [Next]_vars
  PROVE  condemned \subseteq condemned' /\ removed \subseteq removed'
  <1>1. CASE SmtpStep /\ UNCHANGED webVars
    BY <1>1 DEF webVars
  <1>2. CASE WebStep /\ UNCHANGED smtpVars
    BY <1>2
    DEF WebStep, ListStat, DetailMeta, DeleteCheck, WebRestart, Serve,
        ListLookup, ListCount, ListGlob, ListRead, ListStore, ListReply,
        DetailExists, DetailBody, DetailReply, DeleteScan, DeleteUnlink,
        DeleteRmdir
  <1>3. CASE UNCHANGED vars
    BY <1>3 DEF vars, webVars
  <1> QED BY <1>1, <1>2, <1>3 DEF Next

\* A copy that has appeared stays: readable, or condemned.
LEMMA AppearedStays ==
  ASSUME TypeInv, WholeInv, [Next]_vars,
         NEW m \in Mailboxes, NEW e \in Ids, Appeared(m, e)
  PROVE  Appeared(m, e)'
  <1>1. CASE SmtpStep /\ UNCHANGED webVars
    <2>1. Condemned(m, e) => Condemned(m, e)'
      BY <1>1 DEF webVars, Condemned
    <2>2. file'[m][e][Metadata] = file[m][e][Metadata]
      <3>1. CASE SaveOpen \/ SaveFill
        BY <1>1, <3>1, WriteStep, WholeInvParts DEF Names
      <3>2. ASSUME NEW x, \/ HandleRcpt(x) \/ BeginSave(x) \/ SaveChmod
                          \/ Abandon \/ ReplyAccepted
            PROVE  UNCHANGED file
        BY <3>2
        DEF HandleRcpt, BeginSave, SaveChmod, Abandon, ReplyAccepted, disk
      <3>3. SaveMkdir => UNCHANGED file
        BY DEF SaveMkdir, MakeDir
      <3> QED BY <1>1, <3>1, <3>2, <3>3 DEF SmtpStep
    <2> QED BY <2>1, <2>2 DEF Appeared, Readable, Whole
  <1>2. CASE WebStep /\ UNCHANGED smtpVars
    BY <1>2, WebKeeps, WholeInvParts DEF SeenInv, CopiesKept
  <1>3. CASE UNCHANGED vars
    BY <1>3 DEF vars, disk, webVars, Appeared, Readable, Whole, Condemned
  <1> QED BY <1>1, <1>2, <1>3 DEF Next

\* What a list has read of a copy is what there is, until the copy is
\* condemned.
LEMMA ReadStaysTrue ==
  ASSUME TypeInv, WholeInv, [Next]_vars,
         NEW m \in Mailboxes, NEW e \in Ids, NEW c, Appeared(m, e),
         file[m][e][Metadata] = c \/ Condemned(m, e)
  PROVE  file'[m][e][Metadata] = c \/ Condemned(m, e)'
  <1>1. Condemned(m, e) => Condemned(m, e)'
    BY CondemnedGrows DEF Condemned
  <1>2. CASE Readable(m, e) /\ ~Condemned(m, e)
    <2>1. file'[m][e][Metadata] \in {c, Absent}
      BY <1>2, StepKeepsMeta
    <2>2. Readable(m, e)' \/ Condemned(m, e)'
      BY AppearedStays DEF Appeared
    <2>3. file'[m][e][Metadata] = Absent => ~Readable(m, e)'
      BY DEF Readable, Whole, Absent, Torn
    <2> QED BY <2>1, <2>2, <2>3
  <1> QED BY <1>1, <1>2 DEF Appeared

-----------------------------------------------------------------------------
(* Deletes are final                                                       *)

LEMMA RemovedStaysGone ==
  ASSUME TypeInv, WholeInv, RemovedIsGone, [Next]_vars
  PROVE  RemovedIsGone'
  <1>1. entries \in [Mailboxes -> SUBSET Ids]
        /\ removed \subseteq Mailboxes \X Ids
    BY DEF TypeInv, WebInv, DiskTypeOK, WebTypeOK
  <1>2. ASSUME removed' = removed,
               \A x \in removed : x[2] \notin entries'[x[1]]
        PROVE  RemovedIsGone'
    BY <1>2, CondemnedGrows DEF RemovedIsGone
  <1>3. ASSUME NEW t \in Threads, DeleteRmdir(t),
               RemoveDir(thread[t].mb, thread[t].id),
               removed' = removed \cup {<<thread[t].mb, thread[t].id>>}
        PROVE  RemovedIsGone'
    <2> DEFINE b == thread[t].mb
               d == thread[t].id
    <2>1. b \in Mailboxes /\ d \in Ids /\ <<b, d>> \in condemned
      BY <1>3, RemovingThread
      DEF DeleteRmdir, At, WholeInv, DeletesAreCondemned, Condemned
    <2>2. entries' = [entries EXCEPT ![b] = @ \ {d}]
      BY <1>3 DEF RemoveDir
    <2>3. removed' = removed \cup {<<b, d>>}
      BY <1>3
    <2> HIDE DEF b, d
    <2>4. ASSUME NEW x \in removed'
          PROVE  x \in condemned' /\ x[2] \notin entries'[x[1]]
      <3>1. x \in condemned
        BY <2>1, <2>3 DEF RemovedIsGone
      <3>2. CASE x = <<b, d>>
        BY <1>1, <2>1, <2>2, <3>1, <3>2, CondemnedGrows
      <3>3. CASE x \in removed
        <4>1. x[1] \in Mailboxes /\ x[2] \notin entries[x[1]]
          BY <1>1, <3>3 DEF RemovedIsGone
        <4> QED BY <1>1, <2>2, <3>1, <4>1, CondemnedGrows
      <3> QED BY <2>3, <3>2, <3>3
    <2> QED BY <2>4 DEF RemovedIsGone
  <1>4. CASE SaveMkdir /\ UNCHANGED webVars
    <2>1. /\ Box \in Mailboxes /\ smtp.id \in Ids
          /\ <<Box, smtp.id>> \notin condemned
      BY <1>4, MkdirIsForNew DEF Appeared, Condemned
    <2>2. entries' = [entries EXCEPT ![Box] = @ \cup {smtp.id}]
      BY <1>4 DEF SaveMkdir, MakeDir
    <2>3. ASSUME NEW x \in removed
          PROVE  x[2] \notin entries'[x[1]]
      <3>1. /\ x[1] \in Mailboxes /\ x = <<x[1], x[2]>>
            /\ x[2] \notin entries[x[1]] /\ x \in condemned
        BY <1>1 DEF RemovedIsGone
      <3> QED BY <1>1, <2>1, <2>2, <3>1
    <2> QED BY <1>2, <1>4, <2>3 DEF webVars
  <1>5. CASE UNCHANGED <<entries, mtime, kept, removed>>
    BY <1>2, <1>5 DEF RemovedIsGone
  <1> QED BY <1>3, <1>4, <1>5, EntriesStep

LEMMA DirsStayMade ==
  ASSUME TypeInv, DirsWereMade, [Next]_vars
  PROVE  DirsWereMade'
  <1>1. /\ entries \in [Mailboxes -> SUBSET Ids]
        /\ removed \subseteq Mailboxes \X Ids
        /\ drawn \subseteq Ids
        /\ smtp \in Envelopes
        /\ smtp.pc # "rcpt" => /\ smtp.id \in drawn
                               /\ smtp.k \in 1..Len(smtp.rcpts)
    BY DEF TypeInv, WebInv, DiskTypeOK, WebTypeOK, SmtpTypeOK
  <1> DEFINE Made(m, e) == e \in entries[m] \/ <<m, e>> \in removed
             Been(m)    == \E j \in Reached : Recipient(j) = m
  \* The writer is where it was, or further, or has let go of the message.
  <1>2. ASSUME drawn \subseteq drawn',
               \/ smtp'.pc = "rcpt"
               \/ /\ smtp.pc # "rcpt" /\ smtp'.id = smtp.id
                  /\ smtp'.rcpts = smtp.rcpts /\ Reached \subseteq Reached',
               \A m \in Mailboxes, e \in Ids :
                 Made(m, e)' =>
                   \/ Made(m, e)
                   \/ e \in drawn' /\ (e = smtp'.id => Been(m)')
        PROVE  DirsWereMade'
    <2>1. smtp'.rcpts = smtp.rcpts /\ Reached \subseteq Reached' =>
            \A m : Been(m) => Been(m)'
      BY DEF Recipient
    <2> QED BY <1>2, <2>1 DEF DirsWereMade
  <1>3. CASE SmtpStep /\ UNCHANGED webVars
    <2>1. CASE SaveMkdir
      <3>1. /\ smtp.pc = "mkdir" /\ smtp'.pc = "open" /\ smtp'.id = smtp.id
            /\ smtp'.rcpts = smtp.rcpts /\ smtp'.k = smtp.k
            /\ drawn' = drawn /\ removed' = removed
            /\ entries' = [entries EXCEPT ![Box] = @ \cup {smtp.id}]
        BY <1>1, <1>3, <2>1 DEF SaveMkdir, MakeDir, Envelopes, webVars
      <3>2. Reached \subseteq Reached' /\ smtp.k \in Reached'
        BY <1>1, <3>1 DEF Reached, Envelopes
      <3>3. \A m : m = Box => Been(m)'
        BY <3>1, <3>2 DEF Box, Recipient
      <3>4. \A m \in Mailboxes, e \in Ids :
              Made(m, e)' => Made(m, e) \/ (m = Box /\ e = smtp.id)
        BY <1>1, <3>1
      <3>5. \A m \in Mailboxes, e \in Ids :
              Made(m, e)' =>
                \/ Made(m, e)
                \/ e \in drawn' /\ (e = smtp'.id => Been(m)')
        BY <1>1, <3>1, <3>3, <3>4
      <3> QED BY <1>2, <3>1, <3>2, <3>5
    <2>2. ASSUME NEW d \in Ids, BeginSave(d)
          PROVE  DirsWereMade'
      <3>1. /\ d \notin drawn /\ drawn' = drawn \cup {d} /\ smtp'.id = d
            /\ entries' = entries /\ removed' = removed
        BY <1>1, <1>3, <2>2 DEF BeginSave, Envelopes, disk, webVars
      <3> QED BY <3>1 DEF DirsWereMade
    <2>3. ASSUME UNCHANGED <<entries, removed, drawn>>,
                 \/ smtp'.pc = "rcpt"
                 \/ /\ smtp.pc # "rcpt" /\ smtp'.id = smtp.id
                    /\ smtp'.rcpts = smtp.rcpts /\ Reached \subseteq Reached'
          PROVE  DirsWereMade'
      BY <1>2, <2>3
    <2>4. CASE SaveOpen \/ SaveFill
      <3>1. /\ UNCHANGED <<entries, removed, drawn>>
            /\ smtp.pc \in {"open", "fill"} /\ smtp'.pc \in {"fill", "chmod"}
            /\ smtp'.id = smtp.id /\ smtp'.rcpts = smtp.rcpts
            /\ smtp'.k = smtp.k
        BY <1>1, <1>3, <2>4
        DEF SaveOpen, SaveFill, SetFile, Envelopes, webVars
      <3>2. Reached \subseteq Reached'
        BY <3>1 DEF Reached
      <3> QED BY <2>3, <3>1, <3>2
    <2>5. CASE SaveChmod
      <3>1. /\ UNCHANGED <<entries, removed, drawn>> /\ smtp.pc = "chmod"
            /\ smtp'.id = smtp.id /\ smtp'.rcpts = smtp.rcpts
            /\ \/ smtp'.pc = "mkdir" /\ smtp'.k = smtp.k + 1
               \/ smtp'.pc \in {"open", "reply"} /\ smtp'.k = smtp.k
        BY <1>1, <1>3, <2>5 DEF SaveChmod, Envelopes, disk, webVars
      <3>2. Reached \subseteq Reached'
        BY <1>1, <3>1 DEF Reached, Envelopes
      <3> QED BY <2>3, <3>1, <3>2
    <2>6. ASSUME NEW a, HandleRcpt(a) \/ ReplyAccepted \/ Abandon
          PROVE  DirsWereMade'
      <3>1. UNCHANGED <<entries, removed, drawn>> /\ smtp'.pc = "rcpt"
        BY <1>1, <1>3, <2>6
        DEF HandleRcpt, ReplyAccepted, Abandon, NewEnvelope, Envelopes, disk,
            webVars
      <3> QED BY <2>3, <3>1
    <2> QED BY <1>3, <2>1, <2>2, <2>4, <2>5, <2>6 DEF SmtpStep
  <1>4. CASE UNCHANGED smtpVars
    <2>1. Reached' = Reached
      BY <1>4 DEF Reached, smtpVars
    <2>2. \A m \in Mailboxes, e \in Ids : Made(m, e)' => Made(m, e)
      <3>1. CASE UNCHANGED <<entries, mtime, kept, removed>>
        BY <3>1
      <3>2. ASSUME NEW t \in Threads, DeleteRmdir(t),
                   RemoveDir(thread[t].mb, thread[t].id),
                   removed' = removed \cup {<<thread[t].mb, thread[t].id>>}
            PROVE  \A m \in Mailboxes, e \in Ids : Made(m, e)' => Made(m, e)
        <4>1. UNCHANGED <<entries, removed>> \/
                thread[t].id \in entries[thread[t].mb]
          BY <3>2 DEF DeleteRmdir, disk
        <4>2. \A m \in Mailboxes : entries'[m] \subseteq entries[m]
          BY <1>1, <3>2, RemovingThread DEF RemoveDir
        <4> QED BY <3>2, <4>1, <4>2
      <3>3. CASE SaveMkdir
        BY <1>1, <1>4, <3>3 DEF SaveMkdir, smtpVars, Envelopes
      <3> QED BY <3>1, <3>2, <3>3, EntriesStep
    <2> QED BY <1>4, <2>1, <2>2 DEF DirsWereMade, Recipient, smtpVars
  <1> QED BY <1>3, <1>4 DEF Next, vars

\* Every directory was made by a save on its way: the inductive invariant of
\* the deletes.
THEOREM SpecDirsWereMade == Spec => []DirsWereMade
  <1>1. Init => DirsWereMade
    BY DEF Init, DiskInit, SmtpInit, WebInit, DirsWereMade
  <1>2. TypeInv /\ DirsWereMade /\ [Next]_vars => DirsWereMade'
    BY DirsStayMade
  <1> QED BY <1>1, <1>2, SpecTypeInv, PTL DEF Spec

-----------------------------------------------------------------------------
(* Lists: how a step changes what a thread has                             *)

\* The request goes on with the list it has.
SameList(r, s) ==
  /\ r.pc # "idle"
  /\ s.mb = r.mb /\ s.stat = r.stat /\ s.gone = r.gone
  /\ s.emails = r.emails /\ s.todo = r.todo
  /\ s.pc = "lookup" => r.pc = "lookup"

\* What becomes of a request r that is s after the step.
NewRequest(s) ==
  /\ s.mb \in Mailboxes /\ s.emails = {} /\ s.todo = {}
  /\ \/ s.stat = 0 /\ s.gone = {}
     \/ s.stat = mtime[s.mb] /\ \A e \in s.gone : <<s.mb, e>> \in removed

SameRequest(r, s) ==
  r.pc # "idle" /\ s.mb = r.mb /\ s.stat = r.stat /\ s.gone = r.gone
    /\ s.pc # "lookup"

FromCache(r, s) ==
  /\ SameRequest(r, s)
  /\ r.pc = "lookup" /\ cache[r.mb].mtime = r.stat
  /\ s.emails = cache[r.mb].emails /\ s.todo = r.todo

FromGlob(r, s) ==
  /\ SameRequest(r, s)
  /\ s.emails = {} /\ s.todo = entries[r.mb]

FromRead(r, s) ==
  /\ SameRequest(r, s)
  /\ \E e \in r.todo :
       /\ s.todo = r.todo \ {e}
       /\ \/ s.emails = r.emails
          \/ /\ Readable(r.mb, e)
             /\ s.emails = r.emails \cup {<<e, file[r.mb][e][Metadata]>>}

Becomes(r, s) ==
  \/ SameList(r, s)
  \/ NewRequest(s)
  \/ FromCache(r, s)
  \/ FromGlob(r, s)
  \/ FromRead(r, s)

LEMMA ListStatBecomes ==
  ASSUME TypeInv, NEW t \in Threads, NEW m \in Mailboxes, ListStat(t, m)
  PROVE  \E r : thread' = [thread EXCEPT ![t] = r] /\ NewRequest(r)
  <1> DEFINE had  == {e \in Ids : Readable(m, e) /\ <<m, e>> \notin condemned}
             gone == {e \in Ids : <<m, e>> \in removed}
             pc   == IF mtime[m] = 0 THEN "listed" ELSE "lookup"
             r    == [Idle EXCEPT !.pc = pc, !.mb = m, !.stat = mtime[m],
                                  !.had = had, !.gone = gone]
  <1>1. thread' = [thread EXCEPT ![t] = r]
    BY DEF ListStat
  <1>2. \A e \in gone : <<m, e>> \in removed
    OBVIOUS
  <1> HIDE DEF had, gone, pc
  <1>3. /\ r.mb = m /\ r.stat = mtime[m] /\ r.gone = gone
        /\ r.emails = {} /\ r.todo = {}
    BY DEF Idle
  <1> HIDE DEF r
  <1>4. NewRequest(r)
    BY <1>2, <1>3 DEF NewRequest
  <1> QED BY <1>1, <1>4

LEMMA OtherBecomes ==
  ASSUME TypeInv, NEW t \in Threads, NEW m \in Mailboxes, NEW e \in Ids,
         DetailMeta(t, m, e) \/ DeleteCheck(t, m, e)
  PROVE  \E r : thread' = [thread EXCEPT ![t] = r] /\ NewRequest(r)
  <1> DEFINE r == [Idle EXCEPT !.pc = "exists", !.mb = m, !.id = e]
             s == [Idle EXCEPT !.pc = "scan", !.mb = m, !.id = e]
  <1>1. \/ thread' = [thread EXCEPT ![t] = r]
        \/ thread' = [thread EXCEPT ![t] = s]
    BY DEF DetailMeta, DeleteCheck
  <1>2. NewRequest(r) /\ NewRequest(s)
    BY DEF NewRequest, Idle
  <1> HIDE DEF r, s
  <1> QED BY <1>1, <1>2

LEMMA ListBecomes ==
  ASSUME TypeInv, NEW t \in Threads,
         \/ ListLookup(t)
         \/ ListCount(t)
         \/ ListGlob(t)
         \/ \E e \in Ids : ListRead(t, e)
         \/ ListStore(t)
  PROVE  \E r : thread' = [thread EXCEPT ![t] = r] /\ Becomes(thread[t], r)
  <1> DEFINE b == thread[t].mb
  <1>1. thread[t] \in Requests /\ thread[t].pc # "idle" /\ b \in Mailboxes
    BY BusyThread
    DEF ListLookup, ListCount, ListGlob, ListRead, ListStore, At, TypeInv
  <1>2. CASE ListLookup(t)
    <2> DEFINE c == cache[b]
               r == [thread[t] EXCEPT !.pc     = "count",
                                      !.count  = c.count,
                                      !.emails = c.emails]
               g == [thread[t] EXCEPT !.pc = "glob"]
    <2>1. \/ thread' = [thread EXCEPT ![t] = r] /\ c.mtime = thread[t].stat
          \/ thread' = [thread EXCEPT ![t] = g]
      BY <1>2 DEF ListLookup
    <2>2. thread[t].pc = "lookup"
      BY <1>2 DEF ListLookup, At
    <2>3. SameList(thread[t], g)
      BY <1>1 DEF SameList, Requests
    <2>4. c.mtime = thread[t].stat => FromCache(thread[t], r)
      BY <1>1, <2>2 DEF FromCache, SameRequest, Requests
    <2> HIDE DEF r, g, c
    <2> QED BY <2>1, <2>3, <2>4 DEF Becomes
  <1>3. CASE ListCount(t)
    <2> DEFINE c == [thread[t] EXCEPT !.pc = "listed"]
               g == [thread[t] EXCEPT !.pc = "glob"]
    <2>1. \/ thread' = [thread EXCEPT ![t] = c]
          \/ thread' = [thread EXCEPT ![t] = g]
      BY <1>3 DEF ListCount
    <2>2. SameList(thread[t], c) /\ SameList(thread[t], g)
      BY <1>1 DEF SameList, Requests
    <2> HIDE DEF c, g
    <2> QED BY <2>1, <2>2 DEF Becomes
  <1>4. CASE ListGlob(t)
    <2> DEFINE todo == entries[b]
               r == [thread[t] EXCEPT !.pc     = "read",
                                      !.emails = {},
                                      !.todo   = todo]
    <2>1. thread' = [thread EXCEPT ![t] = r]
      BY <1>4 DEF ListGlob
    <2>2. FromGlob(thread[t], r)
      BY <1>1 DEF FromGlob, SameRequest, Requests
    <2> HIDE DEF r
    <2> QED BY <2>1, <2>2 DEF Becomes
  <1>5. ASSUME NEW e \in Ids, ListRead(t, e)
        PROVE  \E r : /\ thread' = [thread EXCEPT ![t] = r]
                      /\ Becomes(thread[t], r)
    <2> DEFINE x    == <<e, file[b][e][Metadata]>>
               todo == thread[t].todo \ {e}
               all  == thread[t].emails \cup {x}
               one  == IF Readable(b, e) THEN all ELSE thread[t].emails
               r    == [thread[t] EXCEPT !.todo = todo, !.emails = one]
    <2>1. thread' = [thread EXCEPT ![t] = r] /\ e \in thread[t].todo
      BY <1>5 DEF ListRead
    <2>2. \/ one = thread[t].emails
          \/ Readable(b, e) /\ one = thread[t].emails \cup {x}
      OBVIOUS
    <2>3. thread[t].pc = "read"
      BY <1>5 DEF ListRead, At
    <2> HIDE DEF one
    <2>4. /\ r.pc = "read" /\ r.mb = b /\ r.stat = thread[t].stat
          /\ r.gone = thread[t].gone /\ r.todo = todo /\ r.emails = one
      BY <1>1, <2>3 DEF Requests
    <2> HIDE DEF r
    <2>5. FromRead(thread[t], r)
      BY <1>1, <2>1, <2>2, <2>4 DEF FromRead, SameRequest
    <2> QED BY <2>1, <2>5 DEF Becomes
  <1>6. CASE ListStore(t)
    <2> DEFINE r == [thread[t] EXCEPT !.pc = "listed"]
    <2>1. thread' = [thread EXCEPT ![t] = r]
      BY <1>6 DEF ListStore
    <2>2. SameList(thread[t], r)
      BY <1>1 DEF SameList, Requests
    <2> HIDE DEF r
    <2> QED BY <2>1, <2>2 DEF Becomes
  <1> QED BY <1>2, <1>3, <1>4, <1>5, <1>6

LEMMA NoListBecomes ==
  ASSUME TypeInv, NEW t \in Threads,
         \/ ListReply(t)
         \/ DetailExists(t)
         \/ DetailBody(t)
         \/ DetailReply(t)
         \/ DeleteScan(t)
         \/ \E f \in Names : DeleteUnlink(t, f)
         \/ DeleteRmdir(t)
  PROVE  \E r : /\ thread' = [thread EXCEPT ![t] = r]
                /\ r.pc = "idle" \/ Becomes(thread[t], r)
  <1>1. thread[t] \in Requests /\ thread[t].pc # "idle"
    BY BusyThread
    DEF ListReply, DetailExists, DetailBody, DetailReply, DeleteScan,
        DeleteUnlink, DeleteRmdir, At, TypeInv
  <1>2. ASSUME Finish(t)
        PROVE  \E r : thread' = [thread EXCEPT ![t] = r] /\ r.pc = "idle"
    <2>1. Idle.pc = "idle"
      BY DEF Idle
    <2> QED BY <1>2, <2>1 DEF Finish
  <1>3. CASE DetailExists(t)
    <2> DEFINE c == [thread[t] EXCEPT !.pc = "body"]
               g == [thread[t] EXCEPT !.pc = "detailed"]
    <2>1. \/ thread' = [thread EXCEPT ![t] = c]
          \/ thread' = [thread EXCEPT ![t] = g]
      BY <1>3 DEF DetailExists
    <2>2. SameList(thread[t], c) /\ SameList(thread[t], g)
      BY <1>1 DEF SameList, Requests
    <2> HIDE DEF c, g
    <2> QED BY <2>1, <2>2 DEF Becomes
  <1>4. CASE DetailBody(t)
    <2> DEFINE text == file[thread[t].mb][thread[t].id][Body]
               r    == [thread[t] EXCEPT !.pc = "detailed", !.text = text]
    <2>1. thread' = [thread EXCEPT ![t] = r] \/ Finish(t)
      BY <1>4 DEF DetailBody
    <2> HIDE DEF text
    <2>2. SameList(thread[t], r)
      BY <1>1 DEF SameList, Requests
    <2> HIDE DEF r
    <2> QED BY <1>2, <2>1, <2>2 DEF Becomes
  <1>5. CASE DeleteScan(t)
    <2> DEFINE files == Present(thread[t].mb, thread[t].id)
               r     == [thread[t] EXCEPT !.pc = "unlink", !.files = files]
    <2>1. thread' = [thread EXCEPT ![t] = r] \/ Finish(t)
      BY <1>5 DEF DeleteScan
    <2> HIDE DEF files
    <2>2. SameList(thread[t], r)
      BY <1>1 DEF SameList, Requests
    <2> HIDE DEF r
    <2> QED BY <1>2, <2>1, <2>2 DEF Becomes
  <1>6. ASSUME NEW f \in Names, DeleteUnlink(t, f)
        PROVE  \E r : /\ thread' = [thread EXCEPT ![t] = r]
                      /\ r.pc = "idle" \/ Becomes(thread[t], r)
    <2> DEFINE files == thread[t].files \ {f}
               r     == [thread[t] EXCEPT !.files = files]
    <2>1. thread' = [thread EXCEPT ![t] = r] \/ Finish(t)
      BY <1>6 DEF DeleteUnlink
    <2> HIDE DEF files
    <2>2. SameList(thread[t], r)
      BY <1>1 DEF SameList, Requests
    <2> HIDE DEF r
    <2> QED BY <1>2, <2>1, <2>2 DEF Becomes
  <1>7. CASE ListReply(t) \/ DetailReply(t) \/ DeleteRmdir(t)
    BY <1>2, <1>7 DEF ListReply, DetailReply, DeleteRmdir
  <1> QED BY <1>3, <1>4, <1>5, <1>6, <1>7

\* One thread at a time moves, and how.
LEMMA ThreadStep ==
  ASSUME TypeInv, [Next]_vars, NEW t \in Threads, NEW s,
         s = thread'[t], s.pc # "idle"
  PROVE  Becomes(thread[t], s)
  <1>1. ASSUME UNCHANGED thread
        PROVE  Becomes(thread[t], s)
    BY <1>1 DEF Becomes, SameList
  <1>2. ASSUME NEW u \in Threads, NEW r,
               thread' = [thread EXCEPT ![u] = r],
               r.pc = "idle" \/ Becomes(thread[u], r)
        PROVE  Becomes(thread[t], s)
    <2>1. thread'[t] = IF t = u THEN r ELSE thread[t]
      BY <1>2 DEF TypeInv, WebInv, WebTypeOK, ThreadTypeOK
    <2>2. CASE t = u
      BY <1>2, <2>1, <2>2
    <2>3. CASE t # u
      BY <2>1, <2>3 DEF Becomes, SameList
    <2> QED BY <2>2, <2>3
  <1>3. CASE SmtpStep /\ UNCHANGED webVars
    BY <1>1, <1>3 DEF webVars
  <1>4. CASE WebStep /\ UNCHANGED smtpVars
    <2>1. ASSUME NEW u \in Threads, Serve(u)
          PROVE  Becomes(thread[t], s)
      BY <1>2, <2>1, ListBecomes, NoListBecomes DEF Serve
    <2>2. ASSUME NEW u \in Threads, NEW m \in Mailboxes, ListStat(u, m)
          PROVE  Becomes(thread[t], s)
      BY <1>2, <2>2, ListStatBecomes DEF Becomes
    <2>3. ASSUME NEW u \in Threads, NEW m \in Mailboxes, NEW e \in Ids,
                 DetailMeta(u, m, e) \/ DeleteCheck(u, m, e)
          PROVE  Becomes(thread[t], s)
      BY <1>2, <2>3, OtherBecomes DEF Becomes
    <2>4. CASE WebRestart
      BY <2>4 DEF WebRestart, Idle
    <2> QED BY <1>4, <2>1, <2>2, <2>3, <2>4 DEF WebStep
  <1>5. CASE UNCHANGED vars
    BY <1>1, <1>5 DEF vars, webVars
  <1> QED BY <1>3, <1>4, <1>5 DEF Next

\* What becomes of the cache of a mailbox.
LEMMA CacheStep ==
  ASSUME TypeInv, [Next]_vars, NEW m \in Mailboxes
  PROVE  \/ cache'[m] = cache[m]
         \/ cache'[m] = NoCache
         \/ \E t \in Threads :
              /\ thread[t].pc = "read" /\ thread[t].mb = m
              /\ thread[t].todo = {}
              /\ cache'[m] = [mtime  |-> thread[t].stat,
                              count  |-> Cardinality(thread[t].emails),
                              emails |-> thread[t].emails]
  <1>1. CASE SmtpStep /\ UNCHANGED webVars
    BY <1>1 DEF webVars
  <1>2. CASE WebStep /\ UNCHANGED smtpVars
    <2>1. ASSUME NEW t \in Threads, ListStore(t)
          PROVE  \/ cache'[m] = cache[m]
                 \/ /\ thread[t].pc = "read" /\ thread[t].mb = m
                    /\ thread[t].todo = {}
                    /\ cache'[m] = [mtime  |-> thread[t].stat,
                                    count  |-> Cardinality(thread[t].emails),
                                    emails |-> thread[t].emails]
      BY <2>1 DEF ListStore, At, TypeInv, WebInv, WebTypeOK
    <2>2. ASSUME NEW t \in Threads, Serve(t)
          PROVE  ListStore(t) \/ UNCHANGED cache
      BY <2>2
      DEF Serve, ListLookup, ListCount, ListGlob, ListRead, ListReply,
          DetailExists, DetailBody, DetailReply, DeleteScan, DeleteUnlink,
          DeleteRmdir
    <2>3. WebRestart => cache'[m] = NoCache
      BY DEF WebRestart
    <2> QED
      BY <1>2, <2>1, <2>2, <2>3 DEF WebStep, ListStat, DetailMeta, DeleteCheck
  <1>3. CASE UNCHANGED vars
    BY <1>3 DEF vars, webVars
  <1> QED BY <1>1, <1>2, <1>3 DEF Next
-----------------------------------------------------------------------------
(* Lists: what is known of one stays known                                 *)

\* A list of what has appeared, as GoodList describes it.
TrueList(m, stat, emails, todo) ==
  /\ GoodList(m, stat, emails, todo)
  /\ \A x \in emails : Appeared(m, x[1])

LEMMA TrueListStays ==
  ASSUME TypeInv, WholeInv, RemovedIsGone, [Next]_vars,
         NEW m \in Mailboxes, NEW stat \in Nat, NEW emails \in Lists,
         NEW todo, TrueList(m, stat, emails, todo)
  PROVE  GoodList(m, stat, emails, todo)'
  <1>1. /\ mtime[m] \in Nat /\ mtime'[m] \in Nat /\ mtime[m] <= mtime'[m]
        /\ kept[m] \subseteq kept'[m]
        /\ mtime[m] = mtime'[m] =>
             mtime[m] \in kept'[m] \/ entries[m] \subseteq entries'[m]
    BY StampsGrow DEF StampsTell
  <1>2. /\ stat <= mtime[m]
        /\ stat = mtime[m] /\ stat \notin kept[m] =>
             IdsOf(emails) \cup todo \subseteq entries[m]
        /\ Cardinality(emails) = Cardinality(IdsOf(emails))
        /\ IdsOf(emails) \cap todo = {}
    BY DEF TrueList, GoodList
  <1>3. /\ stat <= mtime'[m]
        /\ stat = mtime'[m] /\ stat \notin kept'[m] =>
             /\ stat = mtime[m] /\ stat \notin kept[m]
             /\ entries[m] \subseteq entries'[m]
    <2>1. stat = mtime'[m] => mtime[m] = mtime'[m]
      BY <1>1, <1>2
    <2> QED BY <1>1, <1>2, <2>1
  <1>4. stat = mtime'[m] /\ stat \notin kept'[m] =>
          IdsOf(emails) \cup todo \subseteq entries'[m]
    BY <1>2, <1>3
  <1>5. ASSUME NEW x \in emails
        PROVE  file'[m][x[1]][Metadata] = x[2] \/ Condemned(m, x[1])'
    <2>1. PICK e \in Ids, c \in Nat : x = <<e, c>>
      BY DEF Lists
    <2>2. Appeared(m, e) /\ (file[m][e][Metadata] = c \/ Condemned(m, e))
      BY <2>1 DEF TrueList, GoodList
    <2>3. file'[m][e][Metadata] = c \/ Condemned(m, e)'
      BY <2>2, ReadStaysTrue
    <2> QED BY <2>1, <2>3 DEF Condemned
  <1>6. ASSUME NEW t \in Threads, NEW s, s = thread'[t], s.pc # "idle",
               s.mb = m, NEW e \in s.gone, e \in IdsOf(emails) \cup todo
        PROVE  stat < s.stat \/ stat \in kept'[m]
    <2>1. Becomes(thread[t], s)
      BY <1>6, ThreadStep
    <2>2. CASE SameList(thread[t], s) \/ SameRequest(thread[t], s)
      BY <1>1, <1>6, <2>2 DEF SameList, SameRequest, TrueList, GoodList
    <2>3. CASE NewRequest(s)
      <3>1. s.stat = mtime[m] /\ <<m, e>> \in removed
        BY <1>6, <2>3 DEF NewRequest
      <3>2. e \notin entries[m]
        BY <3>1 DEF RemovedIsGone
      <3>3. stat # mtime[m] \/ stat \in kept[m]
        BY <1>2, <1>6, <3>2
      <3> QED BY <1>1, <1>2, <3>1, <3>3
    <2> QED
      BY <2>1, <2>2, <2>3 DEF Becomes, FromCache, FromGlob, FromRead
  <1>7. \A t \in Threads : thread'[t].pc # "idle" /\ thread'[t].mb = m =>
          \A e \in thread'[t].gone :
            e \in IdsOf(emails) \cup todo =>
              stat < thread'[t].stat \/ stat \in kept'[m]
    BY <1>6
  <1> QED BY <1>2, <1>3, <1>4, <1>5, <1>7 DEF GoodList, Condemned

LEMMA EmptyIsTrue ==
  ASSUME TypeInv, NEW m \in Mailboxes, NEW stat \in {0, mtime[m]}
  PROVE  TrueList(m, stat, {}, {})
  <1>1. mtime[m] \in Nat
    BY DEF TypeInv, WebInv, DiskTypeOK
  <1>2. IdsOf({}) = {}
    BY DEF IdsOf
  <1> QED BY <1>1, <1>2 DEF TrueList, GoodList

LEMMA CachedIsTrue ==
  ASSUME WholeInv, CachedIsGood, NEW m \in Mailboxes
  PROVE  TrueList(m, cache[m].mtime, cache[m].emails, {})
  BY DEF WholeInv, SeenHasAppeared, CachedHasAppeared, CachedIsGood, TrueList

LEMMA ReadIsTrue ==
  ASSUME WholeInv, ReadIsGood, NEW t \in Threads, thread[t].pc # "idle"
  PROVE  TrueList(thread[t].mb, thread[t].stat, thread[t].emails,
                  thread[t].todo)
  BY DEF WholeInv, SeenHasAppeared, ReadHasAppeared, ReadIsGood, TrueList

\* One more directory is read.
LEMMA ReadOneIsTrue ==
  ASSUME NEW m \in Mailboxes, NEW stat \in Nat, NEW emails \in Lists,
         IsFiniteSet(emails), NEW todo \in SUBSET Ids, NEW e \in todo,
         TrueList(m, stat, emails, todo)
  PROVE  /\ TrueList(m, stat, emails, todo \ {e})
         /\ Readable(m, e) =>
              TrueList(m, stat, emails \cup {<<e, file[m][e][Metadata]>>},
                       todo \ {e})
  <1> DEFINE x == <<e, file[m][e][Metadata]>>
             more == emails \cup {x}
  <1>1. /\ IdsOf(emails) \cap todo = {}
        /\ Cardinality(emails) = Cardinality(IdsOf(emails))
    BY DEF TrueList, GoodList
  <1>2. TrueList(m, stat, emails, todo \ {e})
    BY DEF TrueList, GoodList
  <1>3. ASSUME Readable(m, e)
        PROVE  TrueList(m, stat, more, todo \ {e})
    <2>1. IdsOf(more) = IdsOf(emails) \cup {e}
      <3>1. x[1] = e
        OBVIOUS
      <3> HIDE DEF x
      <3> QED BY <3>1 DEF IdsOf
    <2>2. e \notin IdsOf(emails) /\ x \notin emails
      BY <1>1 DEF IdsOf
    <2>3. IsFiniteSet(IdsOf(emails))
      <3>1. IdsOf(emails) \in SUBSET Ids
        BY DEF IdsOf, Lists
      <3> QED BY <3>1, FS_Subset, MailDirAssumption
    <2>4. Cardinality(more) = Cardinality(emails) + 1
      BY <2>2, FS_AddElement
    <2>5. Cardinality(IdsOf(more)) = Cardinality(IdsOf(emails)) + 1
      BY <2>1, <2>2, <2>3, FS_AddElement
    <2>6. \A y \in more :
            /\ file[m][y[1]][Metadata] = y[2] \/ Condemned(m, y[1])
            /\ Appeared(m, y[1])
      BY <1>3 DEF TrueList, GoodList, Appeared
    <2> HIDE DEF x, more
    <2>7. /\ IdsOf(more) \cup (todo \ {e}) = IdsOf(emails) \cup todo
          /\ IdsOf(more) \cap (todo \ {e}) = {}
      BY <1>1, <2>1
    <2>8. Cardinality(more) = Cardinality(IdsOf(more))
      BY <1>1, <2>4, <2>5
    <2> QED BY <2>6, <2>7, <2>8 DEF TrueList, GoodList
  <1> QED BY <1>2, <1>3

\* Whatever a request becomes, its list is true.
LEMMA BecomesTrue ==
  ASSUME TypeInv, WholeInv, RemovedIsGone, CachedIsGood, ReadIsGood,
         NEW t \in Threads, NEW s, s.pc # "idle", Becomes(thread[t], s)
  PROVE  /\ TrueList(s.mb, s.stat, s.emails, s.todo)
         /\ \A e \in s.gone : <<s.mb, e>> \in removed
         /\ s.pc = "lookup" => s.todo = {}
  <1>1. CASE SameList(thread[t], s)
    BY <1>1, ReadIsTrue DEF SameList, ReadIsGood
  <1>2. CASE NewRequest(s)
    BY <1>2, EmptyIsTrue DEF NewRequest
  <1>3. ASSUME SameRequest(thread[t], s)
        PROVE  /\ thread[t] \in Requests /\ thread[t].mb \in Mailboxes
               /\ IsFiniteSet(thread[t].emails)
               /\ TrueList(s.mb, s.stat, thread[t].emails, thread[t].todo)
               /\ \A e \in s.gone : <<s.mb, e>> \in removed
               /\ s.pc # "lookup"
    BY <1>3, BusyThread, ReadIsTrue DEF SameRequest, ReadIsGood, TypeInv
  <1>4. CASE FromCache(thread[t], s)
    BY <1>3, <1>4, CachedIsTrue DEF FromCache, SameRequest, ReadIsGood
  <1>5. CASE FromGlob(thread[t], s)
    <2>1. IdsOf({}) = {}
      BY DEF IdsOf
    <2>2. \A u \in Threads : thread[u].pc # "idle" /\ thread[u].mb = s.mb =>
            \A e \in thread[u].gone : e \notin entries[s.mb]
      BY DEF ReadIsGood, RemovedIsGone
    <2>3. /\ s.mb = thread[t].mb /\ s.emails = {} /\ s.todo = entries[s.mb]
          /\ SameRequest(thread[t], s)
      BY <1>5 DEF FromGlob, SameRequest
    <2>4. s.stat <= mtime[s.mb]
      BY <1>3, <2>3 DEF TrueList, GoodList
    <2>5. TrueList(s.mb, s.stat, {}, s.todo)
      BY <2>1, <2>2, <2>3, <2>4 DEF TrueList, GoodList
    <2> QED BY <1>3, <2>3, <2>5
  <1>6. CASE FromRead(thread[t], s)
    <2>1. PICK e \in thread[t].todo :
            /\ s.todo = thread[t].todo \ {e}
            /\ \/ s.emails = thread[t].emails
               \/ /\ Readable(s.mb, e)
                  /\ s.emails = thread[t].emails \cup
                                  {<<e, file[s.mb][e][Metadata]>>}
      BY <1>6 DEF FromRead, SameRequest
    <2>2. /\ s.mb \in Mailboxes /\ s.stat \in Nat
          /\ thread[t].emails \in Lists /\ thread[t].todo \in SUBSET Ids
      BY <1>3, <1>6 DEF FromRead, SameRequest, Requests
    <2>3. /\ SameRequest(thread[t], s)
          /\ IsFiniteSet(thread[t].emails)
          /\ TrueList(s.mb, s.stat, thread[t].emails, thread[t].todo)
      BY <1>3, <1>6 DEF FromRead
    <2>4. TrueList(s.mb, s.stat, s.emails, s.todo)
      <3> DEFINE more == thread[t].emails \cup
                           {<<e, file[s.mb][e][Metadata]>>}
      <3>1. /\ TrueList(s.mb, s.stat, thread[t].emails, s.todo)
            /\ Readable(s.mb, e) => TrueList(s.mb, s.stat, more, s.todo)
        <4> DEFINE old  == thread[t].emails
                   todo == thread[t].todo
        <4>1. /\ s.mb \in Mailboxes /\ s.stat \in Nat /\ old \in Lists
              /\ IsFiniteSet(old) /\ todo \in SUBSET Ids /\ e \in todo
              /\ TrueList(s.mb, s.stat, old, todo)
          BY <2>2, <2>3
        <4> HIDE DEF old, todo
        <4>2. /\ TrueList(s.mb, s.stat, old, todo \ {e})
              /\ Readable(s.mb, e) =>
                   TrueList(s.mb, s.stat,
                            old \cup {<<e, file[s.mb][e][Metadata]>>},
                            todo \ {e})
          BY <4>1, ReadOneIsTrue
        <4>3. s.todo = todo \ {e}
          BY <2>1 DEF todo
        <4> QED BY <4>2, <4>3 DEF old
      <3>2. \/ s.emails = thread[t].emails
            \/ Readable(s.mb, e) /\ s.emails = more
        BY <2>1
      <3> HIDE DEF more
      <3> QED BY <3>1, <3>2
    <2> QED BY <1>3, <2>3, <2>4
  <1> QED BY <1>1, <1>2, <1>4, <1>5, <1>6 DEF Becomes
-----------------------------------------------------------------------------
(* Lists: the cache and the requests                                       *)

LEMMA ReadStaysGood ==
  ASSUME TypeInv, TypeInv', WholeInv, RemovedIsGone, CachedIsGood,
         ReadIsGood, [Next]_vars
  PROVE  ReadIsGood'
  <1>1. ASSUME NEW t \in Threads, NEW s, s = thread'[t], s.pc # "idle"
        PROVE  /\ GoodList(s.mb, s.stat, s.emails, s.todo)'
               /\ \A e \in s.gone : <<s.mb, e>> \in removed'
               /\ s.pc = "lookup" => s.todo = {}
    <2>1. /\ TrueList(s.mb, s.stat, s.emails, s.todo)
          /\ \A e \in s.gone : <<s.mb, e>> \in removed
          /\ s.pc = "lookup" => s.todo = {}
      BY <1>1, ThreadStep, BecomesTrue
    <2>2. s.mb \in Mailboxes /\ s.stat \in Nat /\ s.emails \in Lists
      BY <1>1 DEF TypeInv, WebInv, WebTypeOK, ThreadTypeOK, Requests
    <2>3. GoodList(s.mb, s.stat, s.emails, s.todo)'
      BY <2>1, <2>2, TrueListStays
    <2> QED BY <2>1, <2>3, CondemnedGrows
  <1>2. ASSUME NEW t \in Threads, thread'[t].pc # "idle"
        PROVE  /\ GoodList(thread[t].mb, thread[t].stat, thread[t].emails,
                           thread[t].todo)'
               /\ \A e \in thread'[t].gone : <<thread'[t].mb, e>> \in removed'
               /\ thread'[t].pc = "lookup" => thread'[t].todo = {}
    <2>1. PICK s : s = thread'[t]
      OBVIOUS
    <2>2. /\ GoodList(s.mb, s.stat, s.emails, s.todo)'
          /\ \A e \in s.gone : <<s.mb, e>> \in removed'
          /\ s.pc = "lookup" => s.todo = {}
      BY <1>1, <1>2, <2>1
    <2> QED BY <2>1, <2>2 DEF GoodList
  <1> QED BY <1>2 DEF ReadIsGood

LEMMA CacheStaysGood ==
  ASSUME TypeInv, TypeInv', WholeInv, RemovedIsGone, CachedIsGood,
         ReadIsGood, [Next]_vars
  PROVE  CachedIsGood'
  <1>1. ASSUME NEW m \in Mailboxes, NEW c, c = cache'[m]
        PROVE  /\ GoodList(m, c.mtime, c.emails, {})'
               /\ c.count = Cardinality(c.emails)
    <2>1. TrueList(m, c.mtime, c.emails, {}) /\ c.count = Cardinality(c.emails)
      <3>1. CASE c = cache[m]
        BY <3>1, CachedIsTrue DEF CachedIsGood
      <3>2. CASE c = NoCache
        BY <3>2, EmptyIsTrue, FS_EmptySet DEF NoCache
      <3>3. ASSUME NEW t \in Threads, thread[t].pc = "read",
                   thread[t].mb = m, thread[t].todo = {},
                   c = [mtime  |-> thread[t].stat,
                        count  |-> Cardinality(thread[t].emails),
                        emails |-> thread[t].emails]
            PROVE  /\ TrueList(m, c.mtime, c.emails, {})
                   /\ c.count = Cardinality(c.emails)
        <4>1. TrueList(m, thread[t].stat, thread[t].emails, {})
          BY <3>3, ReadIsTrue
        <4> QED BY <3>3, <4>1
      <3> QED BY <1>1, <3>1, <3>2, <3>3, CacheStep
    <2>2. c.mtime \in Nat /\ c.emails \in Lists
      BY <1>1 DEF TypeInv, WebInv, WebTypeOK, CacheEntries
    <2>3. GoodList(m, c.mtime, c.emails, {})'
      BY <2>1, <2>2, TrueListStays
    <2> QED BY <2>1, <2>3
  <1>2. ASSUME NEW m \in Mailboxes
        PROVE  /\ GoodList(m, cache[m].mtime, cache[m].emails, {})'
               /\ cache'[m].count = Cardinality(cache'[m].emails)
    <2>1. PICK c : c = cache'[m]
      OBVIOUS
    <2>2. /\ GoodList(m, c.mtime, c.emails, {})'
          /\ c.count = Cardinality(c.emails)
      BY <1>1, <2>1
    <2> QED BY <2>1, <2>2 DEF GoodList
  <1> QED BY <1>2 DEF CachedIsGood

-----------------------------------------------------------------------------
(* Details                                                                 *)

\* How a request comes to look at a body, and how it comes to have it.
DetailBecomes(r, s) ==
  /\ s.pc \in {"exists", "body"} =>
       \/ r.pc \in {"exists", "body"} /\ s.mb = r.mb /\ s.id = r.id
       \/ s.mb \in Mailboxes /\ s.id \in Ids /\ Readable(s.mb, s.id)
  /\ s.pc = "detailed" =>
       /\ s.mb = r.mb /\ s.id = r.id
       /\ \/ r.pc = "detailed" /\ s.text = r.text
          \/ /\ r.pc = "exists"
             /\ Body \notin Present(r.mb, r.id)
          \/ /\ r.pc = "body"
             /\ s.text = file[r.mb][r.id][Body]
LEMMA DetailExistsBecomes ==
  ASSUME TypeInv, NEW t \in Threads, DetailExists(t) \/ DetailBody(t)
  PROVE  \E r : /\ thread' = [thread EXCEPT ![t] = r]
                /\ DetailBecomes(thread[t], r)
  <1>1. thread[t] \in Requests
    BY BusyThread DEF DetailExists, DetailBody, At, TypeInv
  <1>2. CASE DetailExists(t)
    <2> DEFINE c == [thread[t] EXCEPT !.pc = "body"]
               g == [thread[t] EXCEPT !.pc = "detailed"]
    <2>1. \/ thread' = [thread EXCEPT ![t] = c]
          \/ /\ thread' = [thread EXCEPT ![t] = g]
             /\ Body \notin Present(thread[t].mb, thread[t].id)
      BY <1>2 DEF DetailExists
    <2>2. /\ c.pc = "body" /\ c.mb = thread[t].mb /\ c.id = thread[t].id
          /\ g.pc = "detailed" /\ g.mb = thread[t].mb /\ g.id = thread[t].id
          /\ thread[t].pc = "exists"
      BY <1>1, <1>2 DEF Requests, DetailExists, At
    <2> HIDE DEF c, g
    <2>3. DetailBecomes(thread[t], c)
      BY <2>2 DEF DetailBecomes
    <2>4. Body \notin Present(thread[t].mb, thread[t].id) =>
            DetailBecomes(thread[t], g)
      BY <2>2 DEF DetailBecomes
    <2> QED BY <2>1, <2>3, <2>4
  <1>3. CASE DetailBody(t)
    <2> DEFINE text == file[thread[t].mb][thread[t].id][Body]
               r    == [thread[t] EXCEPT !.pc = "detailed", !.text = text]
    <2>1. thread' = [thread EXCEPT ![t] = r] \/ Finish(t)
      BY <1>3 DEF DetailBody
    <2>2. thread[t].pc = "body"
      BY <1>3 DEF DetailBody, At
    <2>3. r.text = text /\ r.pc = "detailed"
          /\ r.mb = thread[t].mb /\ r.id = thread[t].id
      BY <1>1 DEF Requests
    <2> HIDE DEF r
    <2>4. DetailBecomes(thread[t], r)
      BY <2>2, <2>3 DEF DetailBecomes
    <2>5. DetailBecomes(thread[t], Idle)
      BY DEF DetailBecomes, Idle
    <2> QED BY <2>1, <2>4, <2>5 DEF Finish
  <1> QED BY <1>2, <1>3

LEMMA DetailStep ==
  ASSUME TypeInv, [Next]_vars, NEW t \in Threads, NEW s, s = thread'[t]
  PROVE  DetailBecomes(thread[t], s)
  <1> DEFINE Views == {"exists", "body", "detailed"}
  <1>0. thread \in [Threads -> Requests]
    BY DEF TypeInv, WebInv, WebTypeOK, ThreadTypeOK
  <1>1. ASSUME UNCHANGED thread
        PROVE  DetailBecomes(thread[t], s)
    BY <1>1 DEF DetailBecomes
  <1>2. ASSUME NEW u \in Threads, NEW r,
               thread' = [thread EXCEPT ![u] = r],
               DetailBecomes(thread[u], r)
        PROVE  DetailBecomes(thread[t], s)
    <2>1. thread'[t] = IF t = u THEN r ELSE thread[t]
      BY <1>0, <1>2
    <2>2. CASE t = u
      BY <1>2, <2>1, <2>2
    <2>3. CASE t # u
      BY <2>1, <2>3 DEF DetailBecomes
    <2> QED BY <2>2, <2>3
  <1>3. ASSUME NEW u \in Threads, t # u => thread'[t] = thread[t],
               thread'[u].pc \notin Views
        PROVE  DetailBecomes(thread[t], s)
    BY <1>3 DEF DetailBecomes
  <1>4. CASE SmtpStep /\ UNCHANGED webVars
    BY <1>1, <1>4 DEF webVars
  <1>5. CASE WebStep /\ UNCHANGED smtpVars
    <2>1. ASSUME NEW u \in Threads, Serve(u),
                 ~DetailExists(u), ~DetailBody(u)
          PROVE  DetailBecomes(thread[t], s)
      <3>1. ASSUME Finish(u)
            PROVE  /\ t # u => thread'[t] = thread[t]
                   /\ thread'[u].pc \notin Views
        BY <1>0, <3>1 DEF Finish, Idle
      <3>2. CASE \/ ListLookup(u) \/ ListCount(u) \/ ListGlob(u)
                 \/ (\E e \in Ids : ListRead(u, e)) \/ ListStore(u)
        <4>1. /\ t # u => thread'[t] = thread[t]
              /\ thread'[u].pc \in {"count", "glob", "listed", "read"}
          <5>1. CASE ListLookup(u)
            BY <1>0, <5>1 DEF ListLookup, Requests
          <5>2. CASE ListCount(u)
            BY <1>0, <5>2 DEF ListCount, Requests
          <5>3. CASE ListGlob(u)
            BY <1>0, <5>3 DEF ListGlob, Requests
          <5>4. ASSUME NEW e \in Ids, ListRead(u, e)
                PROVE  /\ t # u => thread'[t] = thread[t]
                       /\ thread'[u].pc = "read"
            <6> DEFINE one == IF Readable(thread[u].mb, e)
                              THEN thread[u].emails \cup
                                     {<<e, file[thread[u].mb][e][Metadata]>>}
                              ELSE thread[u].emails
            <6>1. /\ thread' = [thread EXCEPT ![u] =
                                  [thread[u] EXCEPT
                                     !.todo   = thread[u].todo \ {e},
                                     !.emails = one]]
                  /\ thread[u].pc = "read"
              BY <5>4 DEF ListRead, At
            <6> HIDE DEF one
            <6> QED BY <1>0, <6>1 DEF Requests
          <5>5. CASE ListStore(u)
            BY <1>0, <5>5 DEF ListStore, Requests
          <5> QED BY <3>2, <5>1, <5>2, <5>3, <5>4, <5>5
        <4> QED BY <1>3, <4>1
      <3>3. CASE \/ DeleteScan(u) \/ (\E f \in Names : DeleteUnlink(u, f))
        <4>1. \/ Finish(u)
              \/ /\ t # u => thread'[t] = thread[t]
                 /\ thread'[u].pc = "unlink"
          BY <1>0, <3>3 DEF DeleteScan, DeleteUnlink, At, Requests
        <4> QED BY <1>3, <3>1, <4>1
      <3>4. CASE ListReply(u) \/ DetailReply(u) \/ DeleteRmdir(u)
        BY <1>3, <3>1, <3>4 DEF ListReply, DetailReply, DeleteRmdir
      <3> QED BY <2>1, <3>2, <3>3, <3>4 DEF Serve
    <2>2. ASSUME NEW u \in Threads, DetailExists(u) \/ DetailBody(u)
          PROVE  DetailBecomes(thread[t], s)
      BY <1>2, <2>2, DetailExistsBecomes
    <2>3. ASSUME NEW u \in Threads, NEW m \in Mailboxes,
                 \/ ListStat(u, m)
                 \/ \E e \in Ids : DeleteCheck(u, m, e)
          PROVE  DetailBecomes(thread[t], s)
      <3>1. /\ t # u => thread'[t] = thread[t]
            /\ thread'[u].pc \in {"listed", "lookup", "scan"}
        BY <1>0, <2>3 DEF ListStat, DeleteCheck, Idle
      <3> QED BY <1>3, <3>1
    <2>4. ASSUME NEW u \in Threads, NEW m \in Mailboxes, NEW e \in Ids,
                 DetailMeta(u, m, e)
          PROVE  DetailBecomes(thread[t], s)
      <3> DEFINE r == [Idle EXCEPT !.pc = "exists", !.mb = m, !.id = e]
      <3>1. thread' = [thread EXCEPT ![u] = r] /\ Readable(m, e)
        BY <2>4 DEF DetailMeta
      <3>2. r.pc = "exists" /\ r.mb = m /\ r.id = e
        BY DEF Idle
      <3> HIDE DEF r
      <3>3. DetailBecomes(thread[u], r)
        BY <3>1, <3>2 DEF DetailBecomes
      <3> QED BY <1>2, <3>1, <3>3
    <2>5. CASE WebRestart
      BY <2>5 DEF WebRestart, Idle, DetailBecomes
    <2> QED BY <1>5, <2>1, <2>2, <2>3, <2>4, <2>5 DEF WebStep
  <1>6. CASE UNCHANGED vars
    BY <1>1, <1>6 DEF vars, webVars
  <1> QED BY <1>4, <1>5, <1>6 DEF Next

LEMMA DetailsStayWhole ==
  ASSUME TypeInv, TypeInv', WholeInv, DetailIsOfAppeared, DetailIsWhole,
         [Next]_vars
  PROVE  DetailIsOfAppeared' /\ DetailIsWhole'
  <1>1. ASSUME NEW t \in Threads, NEW s, s = thread'[t]
        PROVE  /\ s.pc \in {"exists", "body"} => Appeared(s.mb, s.id)'
               /\ s.pc = "detailed" => s.text > Torn \/ Condemned(s.mb, s.id)'
    <2>1. DetailBecomes(thread[t], s)
      BY <1>1, DetailStep
    <2>2. s.pc \in {"exists", "body", "detailed"} =>
            s.mb \in Mailboxes /\ s.id \in Ids
      BY <1>1 DEF TypeInv, WebInv, WebTypeOK, ThreadTypeOK
    <2>3. ASSUME s.pc \in {"exists", "body"}
          PROVE  Appeared(s.mb, s.id)'
      <3>1. Appeared(s.mb, s.id)
        BY <2>1, <2>3 DEF DetailBecomes, DetailIsOfAppeared, Appeared
      <3> QED BY <2>2, <2>3, <3>1, AppearedStays
    <2>4. ASSUME s.pc = "detailed"
          PROVE  s.text > Torn \/ Condemned(s.mb, s.id)
      <3>1. s.mb = thread[t].mb /\ s.id = thread[t].id
        BY <2>1, <2>4 DEF DetailBecomes
      <3>2. CASE thread[t].pc = "detailed" /\ s.text = thread[t].text
        BY <3>1, <3>2 DEF DetailIsWhole, At
      <3>3. CASE thread[t].pc \in {"exists", "body"}
                   /\ \/ Body \notin Present(s.mb, s.id)
                      \/ s.text = file[s.mb][s.id][Body]
        <4>1. Appeared(s.mb, s.id)
          BY <3>1, <3>3 DEF DetailIsOfAppeared
        <4>2. Condemned(s.mb, s.id) \/ file[s.mb][s.id][Body] > Torn
          BY <2>2, <2>4, <4>1, WebAssumption
          DEF Appeared, WholeInv, VisibleIsWhole, Whole
        <4>3. Body \in Names
          BY WebAssumption DEF Names
        <4>4. file[s.mb][s.id][Body] > Torn => Body \in Present(s.mb, s.id)
          BY <4>3 DEF Present, Torn, Absent
        <4> QED BY <3>3, <4>2, <4>4
      <3> QED BY <2>1, <2>4, <3>1, <3>2, <3>3 DEF DetailBecomes
    <2>5. Condemned(s.mb, s.id) => Condemned(s.mb, s.id)'
      BY CondemnedGrows DEF Condemned
    <2> QED BY <2>3, <2>4, <2>5
  <1>2. \A t \in Threads :
          /\ thread'[t].pc \in {"exists", "body"} =>
               Appeared(thread[t].mb, thread[t].id)'
          /\ thread'[t].pc = "detailed" =>
               thread'[t].text > Torn
                 \/ Condemned(thread[t].mb, thread[t].id)'
    <2> TAKE t \in Threads
    <2>1. PICK s : s = thread'[t]
      OBVIOUS
    <2> QED BY <1>1, <2>1 DEF Appeared, Readable, Whole, Condemned
  <1> QED BY <1>2 DEF DetailIsOfAppeared, DetailIsWhole, At, Condemned

-----------------------------------------------------------------------------
(* One thread: nothing is lost                                             *)

LEMMA DirsStay ==
  ASSUME TypeInv, FilesHaveDirs, NeverWrittenIsEmpty,
         [Next]_vars
  PROVE  FilesHaveDirs' /\ NeverWrittenIsEmpty'
  <1>1. /\ entries \in [Mailboxes -> SUBSET Ids]
        /\ file \in [Mailboxes -> [Ids -> [Names -> Contents]]]
        /\ mtime \in [Mailboxes -> Nat]
    BY DEF TypeInv, WebInv, DiskTypeOK
  <1>2. NeverWrittenIsEmpty'
    <2> SUFFICES ASSUME NEW m \in Mailboxes, mtime'[m] = 0
                 PROVE  entries'[m] = {}
      BY DEF NeverWrittenIsEmpty
    <2>1. /\ mtime[m] \in Nat /\ mtime'[m] \in Nat /\ mtime[m] <= mtime'[m]
          /\ mtime'[m] = 0 => entries'[m] = entries[m]
      BY StampsGrow DEF StampsTell
    <2>2. mtime[m] = 0
      BY <2>1
    <2> QED BY <2>1, <2>2 DEF NeverWrittenIsEmpty
  <1> SUFFICES FilesHaveDirs'
    BY <1>2
  <1>3. ASSUME UNCHANGED <<entries, file>>
        PROVE  FilesHaveDirs'
    BY <1>3 DEF FilesHaveDirs, Present
  <1>4. ASSUME NEW n \in Mailboxes, NEW d \in Ids, NEW f \in Names, NEW c,
               SetFile(n, d, f, c),
               c # Absent => d \in entries[n]
        PROVE  FilesHaveDirs'
    <2>1. /\ entries' = entries
          /\ \A m \in Mailboxes, e \in Ids, g \in Names :
               file'[m][e][g] = IF m = n /\ e = d /\ g = f THEN c
                                                           ELSE file[m][e][g]
      BY <1>1, <1>4 DEF SetFile
    <2> SUFFICES ASSUME NEW m \in Mailboxes, NEW e \in Ids,
                        NEW g \in Names, file'[m][e][g] # Absent
                 PROVE  e \in entries'[m]
      BY DEF FilesHaveDirs, Present
    <2>2. CASE file[m][e][g] # Absent
      BY <2>1, <2>2 DEF FilesHaveDirs, Present
    <2>3. CASE file[m][e][g] = Absent
      BY <1>4, <2>1, <2>3
    <2> QED BY <2>2, <2>3
  <1>5. CASE SmtpStep /\ UNCHANGED webVars
    <2>1. CASE SaveOpen
      <3>1. Box \in Mailboxes /\ smtp.id \in Ids /\ File \in Names
        BY <2>1, BoxType DEF SaveOpen, TypeInv, SmtpTypeOK
      <3> QED BY <1>4, <2>1, <3>1 DEF SaveOpen
    <2>2. CASE SaveFill
      <3>1. Box \in Mailboxes /\ smtp.id \in Ids /\ File \in Names
        BY <2>2, BoxType DEF SaveFill, TypeInv, SmtpTypeOK
      <3> DEFINE c == IF File \in Present(Box, smtp.id) THEN smtp.k
                      ELSE Absent
      <3>2. SetFile(Box, smtp.id, File, c)
        BY <2>2 DEF SaveFill
      <3>3. c # Absent => smtp.id \in entries[Box]
        BY <3>1 DEF FilesHaveDirs
      <3> HIDE DEF c
      <3> QED BY <1>4, <3>1, <3>2, <3>3
    <2>3. CASE SaveMkdir
      <3>1. /\ file' = file /\ Box \in Mailboxes
            /\ entries' = [entries EXCEPT ![Box] = @ \cup {smtp.id}]
        BY <2>3, BoxType DEF SaveMkdir, MakeDir, TypeInv
      <3>2. \A m \in Mailboxes : entries[m] \subseteq entries'[m]
        BY <1>1, <3>1
      <3> QED BY <3>1, <3>2 DEF FilesHaveDirs, Present
    <2>4. ASSUME NEW x, \/ HandleRcpt(x) \/ BeginSave(x) \/ SaveChmod
                        \/ Abandon \/ ReplyAccepted
          PROVE  UNCHANGED <<entries, file>>
      BY <2>4
      DEF HandleRcpt, BeginSave, SaveChmod, Abandon, ReplyAccepted, disk
    <2> QED BY <1>3, <1>5, <2>1, <2>2, <2>3, <2>4 DEF SmtpStep
  <1>6. CASE WebStep /\ UNCHANGED smtpVars
    <2>1. ASSUME NEW t \in Threads, NEW f \in Names, DeleteUnlink(t, f)
          PROVE  FilesHaveDirs'
      <3>1. thread[t].mb \in Mailboxes /\ thread[t].id \in Ids
        BY <2>1
        DEF DeleteUnlink, At, TypeInv, WebInv, WebTypeOK, ThreadTypeOK
      <3>2. \/ SetFile(thread[t].mb, thread[t].id, f, Absent)
            \/ UNCHANGED <<entries, file>>
        BY <2>1 DEF DeleteUnlink, disk
      <3> QED BY <1>3, <1>4, <3>1, <3>2
    <2>2. ASSUME NEW t \in Threads, DeleteRmdir(t)
          PROVE  FilesHaveDirs'
      <3> DEFINE b == thread[t].mb
                 d == thread[t].id
      <3>1. b \in Mailboxes /\ d \in Ids
        BY <2>2, RemovingThread
      <3>2. \/ UNCHANGED <<entries, file>>
            \/ /\ Present(b, d) = {} /\ file' = file
               /\ entries' = [entries EXCEPT ![b] = @ \ {d}]
        BY <2>2 DEF DeleteRmdir, RemoveDir, disk
      <3> HIDE DEF b, d
      <3>3. ASSUME Present(b, d) = {}, file' = file,
                   entries' = [entries EXCEPT ![b] = @ \ {d}]
            PROVE  FilesHaveDirs'
        <4> SUFFICES ASSUME NEW m \in Mailboxes, NEW e \in Ids,
                            Present(m, e) # {}
                     PROVE  e \in entries'[m]
          BY <3>3 DEF FilesHaveDirs, Present
        <4>1. e \in entries[m] /\ (m # b \/ e # d)
          BY <3>3 DEF FilesHaveDirs
        <4> QED BY <1>1, <3>1, <3>3, <4>1
      <3> QED BY <1>3, <3>2, <3>3
    <2>3. ASSUME NEW t \in Threads, Serve(t)
          PROVE  \/ UNCHANGED <<entries, file>>
                 \/ \E f \in Names : DeleteUnlink(t, f)
                 \/ DeleteRmdir(t)
      BY <2>3
      DEF Serve, ListLookup, ListCount, ListGlob, ListRead, ListStore,
          ListReply, DetailExists, DetailBody, DetailReply, DeleteScan, disk
    <2>4. ASSUME \/ \E t \in Threads, n \in Mailboxes : ListStat(t, n)
                 \/ \E t \in Threads, n \in Mailboxes, d \in Ids :
                      DetailMeta(t, n, d) \/ DeleteCheck(t, n, d)
                 \/ WebRestart
          PROVE  UNCHANGED <<entries, file>>
      BY <2>4 DEF ListStat, DetailMeta, DeleteCheck, WebRestart, disk
    <2> QED BY <1>3, <1>6, <2>1, <2>2, <2>3, <2>4 DEF WebStep
  <1>7. CASE UNCHANGED vars
    BY <1>3, <1>7 DEF vars, disk
  <1> QED BY <1>2, <1>5, <1>6, <1>7 DEF Next

LEMMA ReadableHasDir ==
  ASSUME FilesHaveDirs, NEW m \in Mailboxes, NEW e \in Ids, Readable(m, e)
  PROVE  e \in entries[m]
  <1>1. Metadata \in Present(m, e)
    BY DEF Readable, Whole, Present, Names, Torn, Absent
  <1> QED BY <1>1 DEF FilesHaveDirs

Listing == {"lookup", "count", "glob", "read", "listed"}

\* The writer takes nothing away.
LEMMA WriterLosesNothing ==
  ASSUME TypeInv, WholeInv, SmtpStep, UNCHANGED webVars,
         NEW r \in Requests, r.pc # "idle" => r.mb \in Mailboxes,
         NothingLost(r)
  PROVE  NothingLost(r)'
  <1>0. kept' = kept
    BY DEF SmtpStep, HandleRcpt, BeginSave, SaveMkdir, MakeDir, SaveOpen,
           SaveFill, SaveChmod, ReplyAccepted, Abandon, SetFile, disk
  <1>1. CASE r.pc \notin Listing \/ ~StatTells(r)
    BY <1>0, <1>1 DEF NothingLost, Listing, StatTells
  <1>2. CASE r.pc \in Listing /\ StatTells(r)
    <2>1. r.mb \in Mailboxes /\ r.had \in SUBSET Ids
      BY <1>2 DEF Listing, Requests
    <2>2. UNCHANGED <<condemned, cache>> /\ [Next]_vars
      BY DEF webVars, Next
    <2>3. \A e \in r.had : Readable(r.mb, e)' /\ ~Condemned(r.mb, e)'
      <3> SUFFICES ASSUME NEW e \in r.had
                   PROVE  Readable(r.mb, e)' /\ ~Condemned(r.mb, e)'
        OBVIOUS
      <3>1. Readable(r.mb, e) /\ ~Condemned(r.mb, e)
        BY <1>2 DEF NothingLost, Listing
      <3>2. Appeared(r.mb, e)'
        BY <2>1, <2>2, <3>1, AppearedStays DEF Appeared
      <3>3. ~Condemned(r.mb, e)'
        BY <2>2, <3>1 DEF Condemned
      <3> QED BY <3>2, <3>3 DEF Appeared
    <2>4. entries[r.mb] \subseteq entries'[r.mb]
      <3>1. \/ UNCHANGED entries
            \/ entries' = [entries EXCEPT ![Box] = @ \cup {smtp.id}]
        BY DEF SmtpStep, HandleRcpt, BeginSave, SaveMkdir, MakeDir, SaveOpen,
               SaveFill, SaveChmod, ReplyAccepted, Abandon, SetFile, disk
      <3>2. entries \in [Mailboxes -> SUBSET Ids]
        BY DEF TypeInv, WebInv, DiskTypeOK
      <3> QED BY <2>1, <3>1, <3>2
    <2> QED
      BY <1>2, <2>2, <2>3, <2>4 DEF NothingLost, Readable, Whole, Condemned
  <1> QED BY <1>1, <1>2

\* A list request goes on as s.
\* A list request keeps the mtime it started with.
LEMMA ListKeepsStat ==
  ASSUME TypeInv, NEW t \in Threads,
         \/ ListLookup(t)
         \/ ListCount(t)
         \/ ListGlob(t)
         \/ \E e \in Ids : ListRead(t, e)
         \/ ListStore(t)
  PROVE  thread'[t].stat = thread[t].stat /\ thread'[t].mb = thread[t].mb
  <1>1. thread \in [Threads -> Requests]
    BY DEF TypeInv, WebInv, WebTypeOK, ThreadTypeOK
  <1>2. ASSUME NEW e \in Ids, ListRead(t, e)
        PROVE  thread'[t].stat = thread[t].stat /\ thread'[t].mb = thread[t].mb
    <2> DEFINE b    == thread[t].mb
               all  == thread[t].emails \cup {<<e, file[b][e][Metadata]>>}
               one  == IF Readable(b, e) THEN all ELSE thread[t].emails
               todo == thread[t].todo \ {e}
    <2>1. thread' = [thread EXCEPT ![t] =
                       [thread[t] EXCEPT !.todo = todo, !.emails = one]]
      BY <1>2 DEF ListRead
    <2> HIDE DEF one
    <2> QED BY <1>1, <2>1 DEF Requests
  <1>3. CASE ListLookup(t)
    BY <1>1, <1>3 DEF ListLookup, Requests
  <1>4. CASE ListCount(t)
    BY <1>1, <1>4 DEF ListCount, Requests
  <1>5. CASE ListGlob(t)
    BY <1>1, <1>5 DEF ListGlob, Requests
  <1>6. CASE ListStore(t)
    BY <1>1, <1>6 DEF ListStore, Requests
  <1> QED BY <1>2, <1>3, <1>4, <1>5, <1>6

LEMMA ListLosesNothing ==
  ASSUME TypeInv, ReadersInv, FilesHaveDirs, NeverWrittenIsEmpty,
         NEW t \in Threads, NothingLost(thread[t]),
         \/ \E m \in Mailboxes : ListStat(t, m)
         \/ ListLookup(t)
         \/ ListCount(t)
         \/ ListGlob(t)
         \/ \E e \in Ids : ListRead(t, e)
         \/ ListStore(t),
         NEW s, s = thread'[t]
  PROVE  NothingLost(s)'
  <1> DEFINE b == thread[t].mb
  <1>1. /\ thread \in [Threads -> Requests]
        /\ entries \in [Mailboxes -> SUBSET Ids]
        /\ mtime \in [Mailboxes -> Nat]
    BY DEF TypeInv, WebInv, WebTypeOK, ThreadTypeOK, DiskTypeOK
  <1>2. UNCHANGED <<disk, condemned>>
    BY DEF ListStat, ListLookup, ListCount, ListGlob, ListRead, ListStore
  <1>3. ASSUME NothingLost(s), s.pc = "lookup" => UNCHANGED cache
        PROVE  NothingLost(s)'
    BY <1>2, <1>3
    DEF NothingLost, StatTells, Readable, Whole, Condemned, disk
  <1> SUFFICES ASSUME StatTells(s)
               PROVE  NothingLost(s)'
    BY <1>2 DEF NothingLost, StatTells, disk
  <1>4. ASSUME thread[t].pc \in Listing
        PROVE  /\ thread[t] \in Requests /\ b \in Mailboxes
               /\ \A e \in thread[t].had : Readable(b, e) /\ ~Condemned(b, e)
               /\ StatTells(thread[t])
    <2>1. \A m \in Mailboxes : ~ListStat(t, m)
      BY <1>4 DEF ListStat, At, Listing
    <2>2. s.stat = thread[t].stat /\ s.mb = b
      BY <2>1, ListKeepsStat
    <2>3. StatTells(thread[t])
      BY <2>2 DEF StatTells
    <2> QED BY <1>4, <2>3, BusyThread DEF Listing, NothingLost, TypeInv
  <1>5. ASSUME NEW m \in Mailboxes, ListStat(t, m)
        PROVE  NothingLost(s)'
    <2> DEFINE had  == {e \in Ids : /\ Readable(m, e)
                                    /\ <<m, e>> \notin condemned}
               gone == {e \in Ids : <<m, e>> \in removed}
               pc   == IF mtime[m] = 0 THEN "listed" ELSE "lookup"
               r    == [Idle EXCEPT !.pc = pc, !.mb = m, !.stat = mtime[m],
                                    !.had = had, !.gone = gone]
    <2>1. s = r
      BY <1>1, <1>5 DEF ListStat
    <2>2. \A e \in had :
            e \in Ids /\ Readable(m, e) /\ ~Condemned(m, e)
      BY DEF Condemned
    <2>3. (pc = "listed" /\ mtime[m] = 0) \/ pc = "lookup"
      OBVIOUS
    <2> HIDE DEF had, gone, pc
    <2>4. /\ s.pc = pc /\ s.mb = m /\ s.stat = mtime[m] /\ s.had = had
          /\ s.emails = {}
      BY <2>1 DEF Idle
    <2>5. pc = "listed" => had = {}
      <3> SUFFICES ASSUME pc = "listed", NEW e \in had
                   PROVE  FALSE
        OBVIOUS
      <3>1. entries[m] = {}
        BY <2>3 DEF NeverWrittenIsEmpty
      <3> QED BY <2>2, <3>1, ReadableHasDir
    <2>6. cache[m].mtime = mtime[m] =>
            IdsOf(cache[m].emails) \subseteq entries[m]
      BY <2>4 DEF ReadersInv, CachedIsGood, GoodList, StatTells
    <2>7. NothingLost(s)
      BY <2>2, <2>3, <2>4, <2>5, <2>6 DEF NothingLost
    <2> QED BY <1>3, <1>5, <2>7 DEF ListStat
  <1>6. CASE ListLookup(t)
    <2> DEFINE c == cache[b]
               r == [thread[t] EXCEPT !.pc     = "count",
                                      !.count  = c.count,
                                      !.emails = c.emails]
               g == [thread[t] EXCEPT !.pc = "glob"]
    <2>1. thread[t].pc = "lookup" /\ thread[t].pc \in Listing
      BY <1>6 DEF ListLookup, At, Listing
    <2>2. \/ s = r /\ c.mtime = thread[t].stat
          \/ s = g
      BY <1>1, <1>6 DEF ListLookup
    <2>3. /\ r.pc = "count" /\ r.mb = b /\ r.had = thread[t].had
          /\ r.count = c.count /\ r.emails = c.emails
          /\ g.pc = "glob" /\ g.mb = b /\ g.had = thread[t].had
      BY <1>4, <2>1 DEF Requests
    <2> HIDE DEF r, g
    <2>4. c.mtime = thread[t].stat => IdsOf(c.emails) \subseteq entries[b]
      BY <1>4, <2>1 DEF NothingLost
    <2>5. c.count = Cardinality(c.emails)
      BY <1>4, <2>1 DEF ReadersInv, CachedIsGood
    <2> HIDE DEF c
    <2>6. NothingLost(s)
      BY <1>4, <2>1, <2>2, <2>3, <2>4, <2>5 DEF NothingLost
    <2> QED BY <1>3, <2>2, <2>3, <2>6
  <1>7. CASE ListCount(t)
    <2> DEFINE c == [thread[t] EXCEPT !.pc = "listed"]
               g == [thread[t] EXCEPT !.pc = "glob"]
    <2>1. thread[t].pc = "count" /\ thread[t].pc \in Listing
      BY <1>7 DEF ListCount, At, Listing
    <2>2. \/ s = c /\ Cardinality(entries[b]) = thread[t].count
          \/ s = g
      BY <1>1, <1>7 DEF ListCount
    <2>3. /\ c.pc = "listed" /\ c.mb = b /\ c.had = thread[t].had
          /\ c.emails = thread[t].emails
          /\ g.pc = "glob" /\ g.mb = b /\ g.had = thread[t].had
      BY <1>4, <2>1 DEF Requests
    <2> HIDE DEF c, g
    <2>4. \A e \in thread[t].had : e \in entries[b]
      <3>1. thread[t].had \subseteq Ids
        BY <1>4, <2>1 DEF Requests
      <3> QED BY <1>4, <2>1, <3>1, ReadableHasDir
    <2>5. ASSUME Cardinality(entries[b]) = thread[t].count
          PROVE  IdsOf(thread[t].emails) = entries[b]
      <3>1. /\ IdsOf(thread[t].emails) \in SUBSET entries[b]
            /\ thread[t].count = Cardinality(thread[t].emails)
        BY <1>4, <2>1 DEF NothingLost
      <3>2. Cardinality(thread[t].emails) =
              Cardinality(IdsOf(thread[t].emails))
        BY <1>4, <2>1 DEF ReadersInv, ReadIsGood, GoodList
      <3>3. IsFiniteSet(entries[b])
        <4>1. entries[b] \in SUBSET Ids
          BY <1>1, <1>4, <2>1
        <4> QED BY <4>1, FS_Subset, MailDirAssumption
      <3> QED BY <2>5, <3>1, <3>2, <3>3, FS_Subset
    <2>6. NothingLost(s)
      BY <1>4, <2>1, <2>2, <2>3, <2>4, <2>5 DEF NothingLost
    <2> QED BY <1>3, <2>2, <2>3, <2>6
  <1>8. CASE ListGlob(t)
    <2> DEFINE todo == entries[b]
               r == [thread[t] EXCEPT !.pc     = "read",
                                      !.emails = {},
                                      !.todo   = todo]
    <2>1. thread[t].pc \in Listing
      BY <1>8 DEF ListGlob, At, Listing
    <2>2. s = r
      BY <1>1, <1>8 DEF ListGlob
    <2>3. /\ s.pc = "read" /\ s.mb = b /\ s.had = thread[t].had
          /\ s.todo = entries[b]
      BY <1>4, <2>1, <2>2 DEF Requests
    <2> HIDE DEF r
    <2>4. thread[t].had \subseteq entries[b]
      <3>1. thread[t].had \subseteq Ids
        BY <1>4, <2>1 DEF Requests
      <3> QED BY <1>4, <2>1, <3>1, ReadableHasDir
    <2>5. NothingLost(s)
      BY <1>4, <2>1, <2>3, <2>4 DEF NothingLost
    <2> QED BY <1>3, <2>3, <2>5
  <1>9. ASSUME NEW e \in Ids, ListRead(t, e)
        PROVE  NothingLost(s)'
    <2> DEFINE x    == <<e, file[b][e][Metadata]>>
               todo == thread[t].todo \ {e}
               all  == thread[t].emails \cup {x}
               one  == IF Readable(b, e) THEN all ELSE thread[t].emails
               r    == [thread[t] EXCEPT !.todo = todo, !.emails = one]
    <2>1. thread[t].pc = "read" /\ thread[t].pc \in Listing
      BY <1>9 DEF ListRead, At, Listing
    <2>2. s = r
      BY <1>1, <1>9 DEF ListRead
    <2>3. /\ IdsOf(thread[t].emails) \subseteq IdsOf(one)
          /\ Readable(b, e) => e \in IdsOf(one)
      <3>1. x[1] = e
        OBVIOUS
      <3> HIDE DEF x
      <3> QED BY <3>1 DEF IdsOf
    <2> HIDE DEF one
    <2>4. /\ s.pc = "read" /\ s.mb = b /\ s.had = thread[t].had
          /\ s.todo = todo /\ s.emails = one
      BY <1>4, <2>1, <2>2 DEF Requests
    <2> HIDE DEF r
    <2>5. thread[t].had \subseteq IdsOf(thread[t].emails) \cup thread[t].todo
      BY <1>4, <2>1 DEF NothingLost
    <2>6. thread[t].had \subseteq IdsOf(one) \cup todo
      BY <1>4, <2>1, <2>3, <2>5
    <2>7. NothingLost(s)
      BY <1>4, <2>1, <2>4, <2>6 DEF NothingLost
    <2> QED BY <1>3, <2>4, <2>7
  <1>10. CASE ListStore(t)
    <2> DEFINE r == [thread[t] EXCEPT !.pc = "listed"]
    <2>1. /\ thread[t].pc = "read" /\ thread[t].pc \in Listing
          /\ thread[t].todo = {}
      BY <1>10 DEF ListStore, At, Listing
    <2>2. s = r
      BY <1>1, <1>10 DEF ListStore
    <2>3. /\ s.pc = "listed" /\ s.mb = b /\ s.had = thread[t].had
          /\ s.emails = thread[t].emails
      BY <1>4, <2>1, <2>2 DEF Requests
    <2> HIDE DEF r
    <2>4. NothingLost(s)
      BY <1>4, <2>1, <2>3 DEF NothingLost
    <2> QED BY <1>3, <2>3, <2>4
  <1> QED BY <1>5, <1>6, <1>7, <1>8, <1>9, <1>10

\* The other steps of the thread leave it no list.
LEMMA OthersHaveNoList ==
  ASSUME TypeInv, NEW t \in Threads,
         \/ ListReply(t)
         \/ \E m \in Mailboxes, e \in Ids :
              DetailMeta(t, m, e) \/ DeleteCheck(t, m, e)
         \/ DetailExists(t)
         \/ DetailBody(t)
         \/ DetailReply(t)
         \/ DeleteScan(t)
         \/ \E f \in Names : DeleteUnlink(t, f)
         \/ DeleteRmdir(t)
         \/ WebRestart
  PROVE  thread'[t].pc \notin Listing
  <1>1. thread \in [Threads -> Requests]
    BY DEF TypeInv, WebInv, WebTypeOK, ThreadTypeOK
  <1>2. ASSUME Finish(t)
        PROVE  thread'[t].pc \notin Listing
    BY <1>1, <1>2 DEF Finish, Idle, Listing
  <1>3. ASSUME NEW m \in Mailboxes, NEW e \in Ids,
               DetailMeta(t, m, e) \/ DeleteCheck(t, m, e)
        PROVE  thread'[t].pc \notin Listing
    <2> DEFINE r == [Idle EXCEPT !.pc = "exists", !.mb = m, !.id = e]
               d == [Idle EXCEPT !.pc = "scan", !.mb = m, !.id = e]
    <2>1. \/ thread' = [thread EXCEPT ![t] = r]
          \/ thread' = [thread EXCEPT ![t] = d]
      BY <1>3 DEF DetailMeta, DeleteCheck
    <2>2. r.pc = "exists" /\ d.pc = "scan"
      BY DEF Idle
    <2> HIDE DEF r, d
    <2> QED BY <1>1, <2>1, <2>2 DEF Listing
  <1>4. CASE DetailExists(t)
    BY <1>1, <1>4 DEF DetailExists, Requests, Listing
  <1>5. CASE DetailBody(t)
    <2> DEFINE text == file[thread[t].mb][thread[t].id][Body]
               r    == [thread[t] EXCEPT !.pc = "detailed", !.text = text]
    <2>1. thread' = [thread EXCEPT ![t] = r] \/ Finish(t)
      BY <1>5 DEF DetailBody
    <2> HIDE DEF text
    <2>2. r.pc = "detailed"
      BY <1>1 DEF Requests
    <2> HIDE DEF r
    <2> QED BY <1>1, <1>2, <2>1, <2>2 DEF Listing
  <1>6. CASE DeleteScan(t) \/ \E f \in Names : DeleteUnlink(t, f)
    <2>1. Finish(t) \/ thread'[t].pc = "unlink"
      BY <1>1, <1>6 DEF DeleteScan, DeleteUnlink, At, Requests
    <2> QED BY <1>2, <2>1 DEF Listing
  <1>7. CASE WebRestart
    BY <1>7 DEF WebRestart, Idle, Listing
  <1>8. CASE ListReply(t) \/ DetailReply(t) \/ DeleteRmdir(t)
    BY <1>2, <1>8 DEF ListReply, DetailReply, DeleteRmdir
  <1> QED BY <1>3, <1>4, <1>5, <1>6, <1>7, <1>8

LEMMA NextOneReader ==
  ASSUME \A t, u \in Threads : t = u,
         TypeInv, WholeInv, ReadersInv, OneReaderInv, [Next]_vars
  PROVE  OneReaderInv'
  <1>1. FilesHaveDirs' /\ NeverWrittenIsEmpty'
    BY DirsStay DEF OneReaderInv
  <1>2. ASSUME NEW t \in Threads, NEW s, s = thread'[t]
        PROVE  NothingLost(s)'
    <2>1. /\ thread[t] \in Requests
          /\ thread[t].pc # "idle" => thread[t].mb \in Mailboxes
          /\ NothingLost(thread[t])
      BY DEF TypeInv, WebInv, WebTypeOK, ThreadTypeOK, OneReaderInv
    <2>2. ASSUME s.pc \notin Listing
          PROVE  NothingLost(s)'
      BY <2>2 DEF NothingLost, Listing
    <2>3. CASE SmtpStep /\ UNCHANGED webVars
      <3>1. PICK r : r = thread[t]
        OBVIOUS
      <3>2. s = r
        BY <1>2, <2>3, <3>1 DEF webVars
      <3>3. NothingLost(r)'
        BY <2>1, <2>3, <3>1, WriterLosesNothing
      <3> QED BY <3>2, <3>3
    <2>4. CASE WebStep /\ UNCHANGED smtpVars
      <3>1. ASSUME NEW u \in Threads, Serve(u)
            PROVE  NothingLost(s)'
        <4>1. u = t
          OBVIOUS
        <4>2. CASE \/ ListLookup(t) \/ ListCount(t) \/ ListGlob(t)
                   \/ (\E e \in Ids : ListRead(t, e)) \/ ListStore(t)
          BY <1>2, <2>1, <4>2, ListLosesNothing DEF OneReaderInv
        <4>3. CASE \/ ListReply(t) \/ DetailExists(t) \/ DetailBody(t)
                   \/ DetailReply(t) \/ DeleteScan(t)
                   \/ (\E f \in Names : DeleteUnlink(t, f))
                   \/ DeleteRmdir(t)
          BY <1>2, <2>2, <4>3, OthersHaveNoList
        <4> QED BY <3>1, <4>1, <4>2, <4>3 DEF Serve
      <3>2. ASSUME NEW u \in Threads, NEW m \in Mailboxes, ListStat(u, m)
            PROVE  NothingLost(s)'
        <4>1. u = t
          OBVIOUS
        <4> QED BY <1>2, <2>1, <3>2, <4>1, ListLosesNothing DEF OneReaderInv
      <3>3. ASSUME NEW u \in Threads, NEW m \in Mailboxes, NEW e \in Ids,
                   DetailMeta(u, m, e) \/ DeleteCheck(u, m, e)
            PROVE  NothingLost(s)'
        <4>1. u = t
          OBVIOUS
        <4> QED BY <1>2, <2>2, <3>3, <4>1, OthersHaveNoList
      <3>4. CASE WebRestart
        BY <1>2, <2>2, <3>4, OthersHaveNoList
      <3> QED BY <2>4, <3>1, <3>2, <3>3, <3>4 DEF WebStep
    <2>5. CASE UNCHANGED vars
      BY <1>2, <2>1, <2>5
      DEF vars, webVars, disk, NothingLost, StatTells, Readable, Whole,
          Condemned
    <2> QED BY <2>3, <2>4, <2>5 DEF Next
  <1>3. \A t \in Threads : NothingLost(thread[t])'
    <2> TAKE t \in Threads
    <2>1. PICK s : s = thread'[t]
      OBVIOUS
    <2>2. NothingLost(s)'
      BY <1>2, <2>1
    <2> QED
      BY <2>1, <2>2 DEF NothingLost, StatTells, Readable, Whole, Condemned
  <1> QED BY <1>1, <1>3 DEF OneReaderInv

-----------------------------------------------------------------------------
(* The theorems                                                            *)

LEMMA InitReaders == Init => ReadersInv
  <1> SUFFICES ASSUME Init PROVE ReadersInv
    OBVIOUS
  <1>1. TypeInv
    BY InitType
  <1>2. /\ \A t \in Threads : thread[t].pc = "idle"
        /\ removed = {} /\ mtime = [m \in Mailboxes |-> 0]
        /\ cache = [m \in Mailboxes |-> NoCache]
    BY DEF Init, WebInit, DiskInit, Idle
  <1>3. CachedIsGood
    <2> SUFFICES ASSUME NEW m \in Mailboxes
                 PROVE  /\ GoodList(m, cache[m].mtime, cache[m].emails, {})
                        /\ cache[m].count = Cardinality(cache[m].emails)
      BY DEF CachedIsGood
    <2>1. cache[m].mtime = 0 /\ cache[m].emails = {} /\ cache[m].count = 0
      BY <1>2 DEF NoCache
    <2>2. GoodList(m, 0, {}, {})
      BY <1>1, EmptyIsTrue DEF TrueList
    <2> QED BY <2>1, <2>2, FS_EmptySet
  <1> QED
    BY <1>2, <1>3
    DEF ReadersInv, RemovedIsGone, ReadIsGood, DetailIsOfAppeared,
        DetailIsWhole, At

\* The inductive invariant of the readers: a list that was made after a stat
\* shows nothing that was removed before it, and as long as the stamp has not
\* moved everything in it is still there; both unless a removal left that
\* stamp as it was, in one tick of the clock with the change before.
THEOREM SpecReadersInv ==
  ASSUME Repeats = {} PROVE Spec => []ReadersInv
  <1>1. TypeInv /\ TypeInv' /\ WholeInv /\ ReadersInv /\ [Next]_vars
          => ReadersInv'
    BY RemovedStaysGone, CacheStaysGood, ReadStaysGood, DetailsStayWhole
    DEF ReadersInv
  <1> QED BY InitReaders, <1>1, SpecTypeInv, SpecWholeInv, PTL DEF Spec

\* What a delete has removed comes back only by the hand of the save that is
\* still delivering that message and finds its mailbox named a second time:
\* not by a retry, nor by another message, nor after the 250 answer, whatever
\* senders name and however many deletes and restarts overlap.
THEOREM DeletesAreFinal == Spec => DeleteFinal
  <1>1. ASSUME TypeInv, DirsWereMade, [Next]_vars, NEW x \in removed,
               x[2] \in entries'[x[1]], x[2] \notin entries[x[1]]
        PROVE  NamedAgain(x[1], x[2])
    <2>1. /\ x[1] \in Mailboxes /\ x[2] \in Ids /\ <<x[1], x[2]>> \in removed
          /\ entries \in [Mailboxes -> SUBSET Ids]
      <3>1. /\ removed \subseteq Mailboxes \X Ids
            /\ entries \in [Mailboxes -> SUBSET Ids]
        BY <1>1 DEF TypeInv, WebInv, WebTypeOK, DiskTypeOK
      <3>2. PICK m \in Mailboxes, d \in Ids : x = <<m, d>>
        BY <3>1
      <3> QED BY <3>1, <3>2
    <2>2. SaveMkdir
      <3>1. ASSUME NEW t \in Threads, RemoveDir(thread[t].mb, thread[t].id)
            PROVE  entries'[x[1]] \subseteq entries[x[1]]
        BY <2>1, <3>1 DEF RemoveDir
      <3>2. ~UNCHANGED entries
        BY <1>1
      <3> QED BY <1>1, <3>1, <3>2, EntriesStep
    <2>3. /\ smtp.pc = "mkdir" /\ smtp.k \in 1..Len(smtp.rcpts)
          /\ entries' = [entries EXCEPT ![Box] = @ \cup {smtp.id}]
      BY <1>1, <2>2 DEF SaveMkdir, MakeDir, TypeInv, SmtpTypeOK
    <2>4. Box = x[1] /\ smtp.id = x[2]
      BY <1>1, <2>1, <2>3
    <2>5. PICK j \in Reached : Recipient(j) = x[1]
      BY <1>1, <2>1, <2>3, <2>4 DEF DirsWereMade
    <2>6. j \in 1..(smtp.k - 1)
      <3>1. j \in 1..Len(smtp.rcpts) /\ j < smtp.k
        BY <2>3, <2>5 DEF Reached
      <3>2. Len(smtp.rcpts) \in Nat
        BY <1>1 DEF TypeInv, SmtpTypeOK, Envelopes
      <3> QED BY <2>3, <3>1, <3>2
    <2> QED BY <2>3, <2>4, <2>5, <2>6 DEF NamedAgain
  <1>2. TypeInv /\ DirsWereMade /\ [Next]_vars
          => [\A x \in removed :
                x[2] \in entries'[x[1]] =>
                  x[2] \in entries[x[1]] \/ NamedAgain(x[1], x[2])]_vars
    BY <1>1
  <1> QED BY <1>2, SpecTypeInv, SpecDirsWereMade, PTL DEF Spec, DeleteFinal

\* A detail view never answers with half a body or without one, unless a
\* delete of the message had begun.
THEOREM DetailsAreWhole == ASSUME Repeats = {} PROVE Spec => []DetailIsWhole
  <1> DEFINE Views == DetailIsOfAppeared /\ DetailIsWhole
  <1>1. TypeInv /\ TypeInv' /\ WholeInv /\ Views /\ [Next]_vars => Views'
    BY DetailsStayWhole
  <1>2. Init => Views
    BY InitReaders DEF ReadersInv
  <1>3. Views => DetailIsWhole
    OBVIOUS
  <1> HIDE DEF Views
  <1> QED BY <1>1, <1>2, <1>3, SpecTypeInv, SpecWholeInv, PTL DEF Spec

\* A list reply shows no email whose delete was answered before the request
\* came, whichever requests share the cache with it, unless the mtime that the
\* request has read is one that a removal left as it was.
THEOREM DeletedAreNotListed ==
  ASSUME Repeats = {} PROVE Spec => []DeletedNotListed
  <1>1. ASSUME TypeInv, ReadersInv, NEW t \in Threads, At(t, "listed"),
               StatTells(thread[t])
        PROVE  IdsOf(thread[t].emails) \cap thread[t].gone = {}
    <2>1. thread[t].pc # "idle" /\ thread[t].stat \in Nat
      BY <1>1 DEF At, TypeInv, WebInv, WebTypeOK, ThreadTypeOK, Requests
    <2>2. \A e \in thread[t].gone :
            e \in IdsOf(thread[t].emails) => thread[t].stat < thread[t].stat
      BY <1>1, <2>1 DEF ReadersInv, ReadIsGood, GoodList, StatTells
    <2> QED BY <2>1, <2>2
  <1>2. TypeInv /\ ReadersInv => DeletedNotListed
    BY <1>1 DEF DeletedNotListed
  <1> QED BY SpecTypeInv, SpecReadersInv, <1>2, PTL

\* Equal stamps and equal counts are enough: whenever list_emails would serve
\* its cache, the cache lists exactly the directories there are, as they are,
\* although the count is of emails read and not of directories, and although
\* emails arrive in one tick (storage.py:175-178).  A removal that leaves the
\* stamp as it was is the exception: with the next arrival the count is as it
\* was too.
THEOREM CachedListsAreSound ==
  ASSUME Repeats = {} PROVE Spec => []CacheSound
  <1>1. ASSUME TypeInv, ReadersInv, NEW m \in Mailboxes,
               Servable(m), mtime[m] \notin kept[m]
        PROVE  /\ IdsOf(cache[m].emails) = entries[m]
               /\ \A x \in cache[m].emails :
                    file[m][x[1]][Metadata] = x[2] \/ Condemned(m, x[1])
    <2>1. /\ GoodList(m, cache[m].mtime, cache[m].emails, {})
          /\ cache[m].count = Cardinality(cache[m].emails)
          /\ cache[m].mtime = mtime[m]
          /\ cache[m].count = Cardinality(entries[m])
      BY <1>1 DEF ReadersInv, CachedIsGood, Servable
    <2>2. IdsOf(cache[m].emails) \in SUBSET entries[m]
      BY <1>1, <2>1 DEF GoodList
    <2>3. IsFiniteSet(entries[m])
      <3>1. entries[m] \in SUBSET Ids
        BY <1>1 DEF TypeInv, WebInv, DiskTypeOK
      <3> QED BY <3>1, FS_Subset, MailDirAssumption
    <2>4. Cardinality(entries[m]) = Cardinality(IdsOf(cache[m].emails))
      BY <1>1, <2>1 DEF GoodList
    <2>5. IdsOf(cache[m].emails) = entries[m]
      BY <2>2, <2>3, <2>4, FS_Subset
    <2> QED BY <2>1, <2>5 DEF GoodList
  <1>2. TypeInv /\ ReadersInv => CacheSound
    BY <1>1 DEF CacheSound
  <1> QED BY SpecTypeInv, SpecReadersInv, <1>2, PTL

\* Where requests come one at a time and senders name a mailbox once, a list
\* reply shows every email that could be read when its request came: "a write
\* from the smtp process is visible to the web process's very next
\* list_emails() call" (storage.py:45-47), also of two within one tick; unless
\* the mtime that the request has read is one that a removal left as it was.
\* A second thread refutes it.
THEOREM ListsAreUpToDate ==
  ASSUME Repeats = {}, \A t, u \in Threads : t = u
  PROVE  Spec => []AcceptedIsListed
  <1>1. Init => OneReaderInv
    BY DEF Init, DiskInit, WebInit, Idle, OneReaderInv, FilesHaveDirs,
           Present, NeverWrittenIsEmpty, NothingLost
  <1>2. TypeInv /\ WholeInv /\ ReadersInv /\ OneReaderInv /\ [Next]_vars
          => OneReaderInv'
    BY NextOneReader
  <1>3. OneReaderInv => AcceptedIsListed
    <2> SUFFICES ASSUME OneReaderInv, NEW t \in Threads,
                        thread[t].pc = "listed", StatTells(thread[t])
                 PROVE  thread[t].had \subseteq IdsOf(thread[t].emails)
      BY DEF AcceptedIsListed, At
    <2> QED BY DEF OneReaderInv, NothingLost
  <1> QED
    BY <1>1, <1>2, <1>3, SpecTypeInv, SpecWholeInv, SpecReadersInv, PTL
    DEF Spec
=============================================================================
