--------------------------- MODULE MailStoreProofs ----------------------------
(***************************************************************************)
(* Theorems about MailStore, for every value of its constants.             *)
(***************************************************************************)
EXTENDS MailStore, TLAPS, FiniteSetTheorems

\* list_emails caches the number of emails it read, so a list must be finite
\* for the cache to be well typed.
FiniteLists ==
  /\ \A t \in Threads : IsFiniteSet(thread[t].emails)
  /\ \A m \in Mailboxes : IsFiniteSet(cache[m].emails)

WebInv  == DiskTypeOK /\ WebTypeOK /\ FiniteLists
TypeInv == SmtpTypeOK /\ WebInv

-----------------------------------------------------------------------------
(* What the file system calls preserve                                     *)

LEMMA OrderType ==
  /\ WriteOrder \in Seq(Names)
  /\ Len(WriteOrder) \in Nat \ {0}
  /\ \A j \in 1..Len(WriteOrder) : WriteOrder[j] \in Names
  BY MailDirAssumption DEF WriteOrder, Names, Payload

LEMMA MakeDirType ==
  ASSUME DiskTypeOK, NEW m \in Mailboxes, NEW e \in Ids, MakeDir(m, e)
  PROVE  DiskTypeOK'
  <1>1. entries' \in [Mailboxes -> SUBSET Ids] /\ file' = file
    BY DEF DiskTypeOK, MakeDir
  <1>2. ASSUME Stamp(m)
        PROVE  mtime' \in [Mailboxes -> Nat]
    BY <1>2 DEF DiskTypeOK, Stamp
  <1>3. mtime' \in [Mailboxes -> Nat] /\ kept' = kept
    BY <1>2 DEF DiskTypeOK, MakeDir
  <1> QED BY <1>1, <1>3 DEF DiskTypeOK

LEMMA SetFileType ==
  ASSUME DiskTypeOK, NEW m \in Mailboxes, NEW e \in Ids, NEW f \in Names,
         NEW contents \in Contents, SetFile(m, e, f, contents)
  PROVE  DiskTypeOK'
  BY DEF DiskTypeOK, SetFile

LEMMA RemoveDirType ==
  ASSUME DiskTypeOK, NEW m \in Mailboxes, NEW e \in Ids, RemoveDir(m, e)
  PROVE  DiskTypeOK'
  BY DEF DiskTypeOK, RemoveDir, Stamp

\* The recipient the writer serves has a mailbox, and the message an id.
LEMMA BoxType ==
  ASSUME SmtpTypeOK, smtp.pc # "rcpt"
  PROVE  Box \in Mailboxes /\ smtp.id \in Ids /\ File \in Names
  <1>1. smtp.rcpts[smtp.k] \in DOMAIN MailboxOf
    BY DEF SmtpTypeOK, Envelopes
  <1>2. Box \in Mailboxes
    BY <1>1, SmtpAssumption DEF Box, Recipient
  <1>3. smtp.id \in Ids
    BY DEF SmtpTypeOK, Envelopes
  <1>4. File \in Names
    BY OrderType DEF SmtpTypeOK, Envelopes, File
  <1> QED BY <1>2, <1>3, <1>4

-----------------------------------------------------------------------------
(* Type correctness of the smtp process                                    *)

LEMMA SmtpType ==
  ASSUME TypeInv, SmtpStep, UNCHANGED webVars
  PROVE  TypeInv'
  <1> USE DEF TypeInv, WebInv
  <1>1. WebTypeOK' /\ FiniteLists'
    BY DEF webVars, WebTypeOK, ThreadTypeOK, FiniteLists
  <1>2. ASSUME NEW a \in Addresses, HandleRcpt(a)
        PROVE  DiskTypeOK' /\ SmtpTypeOK'
    <2>1. /\ smtp' = [smtp EXCEPT !.rcpts = Append(@, a)]
          /\ a \in DOMAIN MailboxOf
      BY <1>2 DEF HandleRcpt
    <2>2. smtp' \in Envelopes
      <3>1. Append(smtp.rcpts, a) \in Seq(DOMAIN MailboxOf)
        BY <2>1 DEF SmtpTypeOK, Envelopes
      <3> QED BY <2>1, <3>1 DEF SmtpTypeOK, Envelopes
    <2>3. SmtpTypeOK'
      BY <1>2, <2>1, <2>2 DEF HandleRcpt, SmtpTypeOK, Envelopes
    <2> QED BY <1>2, <2>3 DEF HandleRcpt, DiskTypeOK, disk
  <1>3. ASSUME NEW e \in Ids, BeginSave(e)
        PROVE  DiskTypeOK' /\ SmtpTypeOK'
    <2>1. smtp.rcpts # << >> => 1 \in 1..Len(smtp.rcpts)
      BY DEF SmtpTypeOK, Envelopes
    <2>2. SmtpTypeOK'
      BY <1>3, <2>1 DEF BeginSave, SmtpTypeOK, Envelopes
    <2> QED BY <1>3, <2>2 DEF BeginSave, DiskTypeOK, disk
  <1>4. CASE SaveMkdir
    <2>1. DiskTypeOK'
      BY <1>4, BoxType, MakeDirType DEF SaveMkdir
    <2>2. SmtpTypeOK'
      <3>1. 1 \in 1..Len(WriteOrder)
        BY OrderType
      <3>2. smtp' = [smtp EXCEPT !.pc = "open", !.i = 1]
        BY <1>4 DEF SaveMkdir
      <3>3. smtp' \in Envelopes
        BY <3>1, <3>2 DEF SmtpTypeOK, Envelopes
      <3> QED BY <1>4, <3>2, <3>3 DEF SaveMkdir, SmtpTypeOK, Envelopes
    <2> QED BY <1>1, <2>1, <2>2
  <1>5. CASE SaveOpen
    <2>1. DiskTypeOK'
      BY <1>5, BoxType, SetFileType DEF SaveOpen, Contents, Torn
    <2>2. SmtpTypeOK'
      BY <1>5 DEF SaveOpen, SmtpTypeOK, Envelopes
    <2> QED BY <1>1, <2>1, <2>2
  <1>6. CASE SaveFill
    <2>1. smtp.k \in Contents /\ Absent \in Contents
      BY DEF SmtpTypeOK, Envelopes, Contents
    <2>2. DiskTypeOK'
      BY <1>6, <2>1, BoxType, SetFileType DEF SaveFill
    <2>3. SmtpTypeOK'
      BY <1>6 DEF SaveFill, SmtpTypeOK, Envelopes
    <2> QED BY <1>1, <2>2, <2>3
  <1>7. CASE SaveChmod
    <2>1. smtp.i \in 1..Len(WriteOrder) /\ smtp.k \in 1..Len(smtp.rcpts)
      BY <1>7 DEF SaveChmod, SmtpTypeOK, Envelopes
    <2>2. ASSUME smtp.i < Len(WriteOrder)
          PROVE  SmtpTypeOK'
      <3>1. smtp' = [smtp EXCEPT !.pc = "open", !.i = @ + 1]
        BY <1>7, <2>2 DEF SaveChmod
      <3>2. smtp.i + 1 \in 1..Len(WriteOrder)
        BY <2>1, <2>2, OrderType
      <3>3. smtp' \in Envelopes
        BY <3>1, <3>2 DEF SmtpTypeOK, Envelopes
      <3> QED BY <1>7, <2>1, <3>1, <3>3 DEF SaveChmod, SmtpTypeOK, Envelopes
    <2>3. ASSUME ~(smtp.i < Len(WriteOrder)), smtp.k < Len(smtp.rcpts)
          PROVE  SmtpTypeOK'
      <3>1. smtp' = [smtp EXCEPT !.pc = "mkdir", !.k = @ + 1]
        BY <1>7, <2>3 DEF SaveChmod
      <3>2. smtp.k + 1 \in Nat \ {0} /\ smtp.k + 1 \in 1..Len(smtp.rcpts)
        BY <2>1, <2>3 DEF SmtpTypeOK, Envelopes
      <3>3. smtp' \in Envelopes
        BY <3>1, <3>2 DEF SmtpTypeOK, Envelopes
      <3> QED BY <1>7, <3>1, <3>2, <3>3 DEF SaveChmod, SmtpTypeOK, Envelopes
    <2>4. ASSUME ~(smtp.i < Len(WriteOrder)), ~(smtp.k < Len(smtp.rcpts))
          PROVE  SmtpTypeOK'
      <3>1. smtp' = [smtp EXCEPT !.pc = "reply"]
        BY <1>7, <2>4 DEF SaveChmod
      <3>2. smtp' \in Envelopes
        BY <3>1 DEF SmtpTypeOK, Envelopes
      <3> QED BY <1>7, <2>1, <3>1, <3>2 DEF SaveChmod, SmtpTypeOK, Envelopes
    <2>5. DiskTypeOK'
      BY <1>7 DEF SaveChmod, DiskTypeOK, disk
    <2> QED BY <1>1, <2>2, <2>3, <2>4, <2>5
  <1>8. CASE ReplyAccepted
    <2>1. DiskTypeOK'
      BY <1>8 DEF ReplyAccepted, DiskTypeOK, disk
    <2>2. \A m \in Recipients : m \in Mailboxes
      BY SmtpAssumption DEF Recipients, Recipient, SmtpTypeOK, Envelopes
    <2>3. acked' \subseteq Mailboxes \X Ids
      BY <1>8, <2>2 DEF ReplyAccepted, SmtpTypeOK, Envelopes
    <2>4. SmtpTypeOK'
      BY <1>8, <2>3, OrderType
      DEF ReplyAccepted, SmtpTypeOK, Envelopes, NewEnvelope
    <2> QED BY <1>1, <2>1, <2>4
  <1>9. CASE Abandon
    BY <1>1, <1>9, OrderType
    DEF Abandon, DiskTypeOK, SmtpTypeOK, Envelopes, NewEnvelope, disk
  <1> QED
    BY <1>1, <1>2, <1>3, <1>4, <1>5, <1>6, <1>7, <1>8, <1>9 DEF SmtpStep

-----------------------------------------------------------------------------
(* Type correctness of the web process                                     *)

\* A request may become r if r is a request of a known mailbox and message.
GoodRequest(r) ==
  /\ r \in Requests
  /\ r.pc # "idle" => r.mb \in Mailboxes
  /\ r.pc \in {"exists", "body", "detailed", "scan", "unlink"} => r.id \in Ids
  /\ IsFiniteSet(r.emails)

LEMMA UpdateType ==
  ASSUME WebInv, NEW t \in Threads, NEW r, GoodRequest(r),
         thread' = [thread EXCEPT ![t] = r]
  PROVE  ThreadTypeOK' /\ \A s \in Threads : IsFiniteSet(thread'[s].emails)
  BY DEF WebInv, WebTypeOK, ThreadTypeOK, FiniteLists, GoodRequest

LEMMA ThreadIsGood ==
  ASSUME WebInv, NEW t \in Threads
  PROVE  GoodRequest(thread[t])
  BY DEF WebInv, WebTypeOK, ThreadTypeOK, FiniteLists, GoodRequest

LEMMA BusyThread ==
  ASSUME WebInv, NEW t \in Threads, thread[t].pc # "idle"
  PROVE  /\ thread[t] \in Requests
         /\ thread[t].mb \in Mailboxes
         /\ IsFiniteSet(thread[t].emails)
  BY DEF WebInv, WebTypeOK, ThreadTypeOK, FiniteLists

LEMMA IdleIsGood == GoodRequest(Idle)
  BY FS_EmptySet DEF GoodRequest, Idle, Requests, Lists, Contents, Absent

\* A step of one thread that leaves the disk, the cache and the histories
\* alone keeps WebInv if it leaves the thread a good request.
LEMMA LocalStepType ==
  ASSUME WebInv, NEW t \in Threads, NEW r, GoodRequest(r),
         thread' = [thread EXCEPT ![t] = r],
         UNCHANGED <<cache, shown, condemned, removed, disk>>
  PROVE  WebInv'
  <1>1. ThreadTypeOK' /\ \A s \in Threads : IsFiniteSet(thread'[s].emails)
    BY UpdateType
  <1> QED
    BY <1>1 DEF WebInv, DiskTypeOK, WebTypeOK, FiniteLists, disk

LEMMA ListStatType ==
  ASSUME WebInv, NEW t \in Threads, NEW m \in Mailboxes, ListStat(t, m)
  PROVE  WebInv'
  <1> DEFINE had  == {e \in Ids : Readable(m, e) /\ <<m, e>> \notin condemned}
             gone == {e \in Ids : <<m, e>> \in removed}
             pc   == IF mtime[m] = 0 THEN "listed" ELSE "lookup"
             r    == [Idle EXCEPT !.pc = pc, !.mb = m, !.stat = mtime[m],
                                  !.had = had, !.gone = gone]
  <1>1. thread' = [thread EXCEPT ![t] = r]
    BY DEF ListStat
  <1>2. /\ pc \in {"listed", "lookup"}
        /\ had \in SUBSET Ids
        /\ gone \in SUBSET Ids
        /\ mtime[m] \in Nat
    BY DEF WebInv, DiskTypeOK
  <1> HIDE DEF had, gone, pc
  <1>3. GoodRequest(r)
    BY <1>2, IdleIsGood DEF GoodRequest, Requests, Idle
  <1> HIDE DEF r
  <1> QED
    BY <1>1, <1>3, LocalStepType DEF ListStat

LEMMA ListLookupType ==
  ASSUME WebInv, NEW t \in Threads, ListLookup(t)
  PROVE  WebInv'
  <1> DEFINE c == cache[thread[t].mb]
             r == [thread[t] EXCEPT !.pc     = "count",
                                    !.count  = c.count,
                                    !.emails = c.emails]
             g == [thread[t] EXCEPT !.pc = "glob"]
  <1>1. /\ thread[t].mb \in Mailboxes
        /\ c \in CacheEntries
        /\ IsFiniteSet(c.emails)
    BY DEF ListLookup, At, WebInv, WebTypeOK, ThreadTypeOK, FiniteLists
  <1>2. GoodRequest(r) /\ GoodRequest(g)
    BY <1>1, ThreadIsGood DEF GoodRequest, CacheEntries, Requests
  <1>3. \/ thread' = [thread EXCEPT ![t] = r]
        \/ thread' = [thread EXCEPT ![t] = g]
    BY DEF ListLookup, WebInv, WebTypeOK, ThreadTypeOK
  <1> HIDE DEF r, g
  <1> QED
    BY <1>2, <1>3, LocalStepType DEF ListLookup

LEMMA ListCountType ==
  ASSUME WebInv, NEW t \in Threads, ListCount(t)
  PROVE  WebInv'
  <1> DEFINE c == [thread[t] EXCEPT !.pc = "listed"]
             g == [thread[t] EXCEPT !.pc = "glob"]
  <1>1. GoodRequest(c) /\ GoodRequest(g)
    BY ThreadIsGood DEF ListCount, At, GoodRequest, Requests
  <1>2. \/ thread' = [thread EXCEPT ![t] = c]
        \/ thread' = [thread EXCEPT ![t] = g]
    BY DEF ListCount
  <1> HIDE DEF c, g
  <1> QED
    BY <1>1, <1>2, LocalStepType DEF ListCount

LEMMA ListGlobType ==
  ASSUME WebInv, NEW t \in Threads, ListGlob(t)
  PROVE  WebInv'
  <1> DEFINE todo == entries[thread[t].mb]
             r == [thread[t] EXCEPT !.pc     = "read",
                                    !.emails = {},
                                    !.todo   = todo]
  <1>1. todo \in SUBSET Ids
    BY BusyThread DEF ListGlob, At, WebInv, DiskTypeOK
  <1>3. thread' = [thread EXCEPT ![t] = r]
    BY DEF ListGlob
  <1> HIDE DEF todo
  <1>2. GoodRequest(r)
    <2>1. {} \in Lists /\ IsFiniteSet({})
      BY FS_EmptySet DEF Lists
    <2>2. r \in Requests
      BY <1>1, <2>1, BusyThread DEF ListGlob, At, Requests
    <2> QED
      BY <2>1, <2>2, BusyThread DEF ListGlob, At, GoodRequest, Requests
  <1> HIDE DEF r
  <1> QED
    BY <1>2, <1>3, LocalStepType DEF ListGlob

LEMMA ListReadType ==
  ASSUME WebInv, NEW t \in Threads, NEW e \in Ids, ListRead(t, e)
  PROVE  WebInv'
  <1> DEFINE m    == thread[t].mb
             x    == <<e, file[m][e][Metadata]>>
             todo == thread[t].todo \ {e}
             all  == thread[t].emails \cup {x}
             one  == IF Readable(m, e) THEN all ELSE thread[t].emails
             r    == [thread[t] EXCEPT !.todo = todo, !.emails = one]
  <1>1. /\ m \in Mailboxes /\ thread[t] \in Requests
        /\ IsFiniteSet(thread[t].emails)
    BY BusyThread DEF ListRead, At
  <1>2. Readable(m, e) => x \in Ids \X Nat
    <2>1. file[m][e][Metadata] \in Contents
      BY <1>1 DEF WebInv, DiskTypeOK, Names
    <2> QED BY <2>1 DEF Readable, Whole, Torn, Absent, Contents
  <1>3. one \in Lists /\ todo \in SUBSET Ids
    <2>1. thread[t].emails \in Lists /\ todo \in SUBSET Ids
      BY <1>1 DEF Requests
    <2> HIDE DEF x, todo
    <2> QED BY <1>2, <2>1 DEF Lists
  <1>4. IsFiniteSet(one)
    BY <1>1, FS_AddElement
  <1>5. thread' = [thread EXCEPT ![t] = r]
    BY DEF ListRead
  <1> HIDE DEF one, todo
  <1>6. GoodRequest(r)
    <2>1. thread[t].pc = "read"
      BY DEF ListRead, At
    <2>2. r \in Requests
      BY <1>1, <1>3 DEF Requests
    <2>3. r.emails = one /\ r.pc = "read" /\ r.mb = thread[t].mb
      BY <1>1, <2>1 DEF Requests
    <2> HIDE DEF r
    <2> QED BY <1>1, <1>4, <2>2, <2>3 DEF GoodRequest
  <1> HIDE DEF r
  <1> QED
    BY <1>5, <1>6, LocalStepType DEF ListRead

LEMMA ListStoreType ==
  ASSUME WebInv, NEW t \in Threads, ListStore(t)
  PROVE  WebInv'
  <1> DEFINE r == [thread[t] EXCEPT !.pc = "listed"]
             c == [mtime  |-> thread[t].stat,
                   count  |-> Cardinality(thread[t].emails),
                   emails |-> thread[t].emails]
  <1>1. thread[t] \in Requests /\ IsFiniteSet(thread[t].emails)
    BY DEF WebInv, WebTypeOK, ThreadTypeOK, FiniteLists
  <1>2. c \in CacheEntries
    BY <1>1, FS_CardinalityType DEF CacheEntries, Requests
  <1>3. GoodRequest(r)
    BY ThreadIsGood DEF ListStore, At, GoodRequest, Requests
  <1>4. ThreadTypeOK' /\ \A s \in Threads : IsFiniteSet(thread'[s].emails)
    <2>1. thread' = [thread EXCEPT ![t] = r]
      BY DEF ListStore
    <2> HIDE DEF r
    <2> QED BY <1>3, <2>1, UpdateType
  <1>5. cache' = [cache EXCEPT ![thread[t].mb] = c]
    BY DEF ListStore
  <1>6. \A m \in Mailboxes : IsFiniteSet(cache'[m].emails)
    BY <1>1, <1>5 DEF WebInv, WebTypeOK, FiniteLists
  <1> HIDE DEF c
  <1>7. cache' \in [Mailboxes -> CacheEntries]
    BY <1>2, <1>5 DEF WebInv, WebTypeOK
  <1> QED
    BY <1>4, <1>6, <1>7
    DEF WebInv, DiskTypeOK, WebTypeOK, FiniteLists, ListStore, disk

LEMMA FinishType ==
  ASSUME WebInv, NEW t \in Threads, Finish(t)
  PROVE  ThreadTypeOK' /\ \A s \in Threads : IsFiniteSet(thread'[s].emails)
  BY IdleIsGood, UpdateType DEF Finish

LEMMA ListReplyType ==
  ASSUME WebInv, NEW t \in Threads, ListReply(t)
  PROVE  WebInv'
  <1>1. ThreadTypeOK' /\ \A s \in Threads : IsFiniteSet(thread'[s].emails)
    BY FinishType DEF ListReply
  <1>2. IdsOf(thread[t].emails) \in SUBSET Ids
    BY DEF WebInv, WebTypeOK, ThreadTypeOK, Requests, Lists, IdsOf
  <1>3. shown' \in [Mailboxes -> SUBSET Ids]
    BY <1>2 DEF ListReply, WebInv, WebTypeOK
  <1> QED
    BY <1>1, <1>3
    DEF WebInv, DiskTypeOK, WebTypeOK, FiniteLists, ListReply, disk

LEMMA DetailMetaType ==
  ASSUME WebInv, NEW t \in Threads, NEW m \in Mailboxes, NEW e \in Ids,
         DetailMeta(t, m, e)
  PROVE  WebInv'
  <1> DEFINE r == [Idle EXCEPT !.pc = "exists", !.mb = m, !.id = e]
  <1>1. GoodRequest(r)
    BY IdleIsGood DEF GoodRequest, Requests, Idle
  <1>2. thread' = [thread EXCEPT ![t] = r]
    BY DEF DetailMeta
  <1> HIDE DEF r
  <1> QED
    BY <1>1, <1>2, LocalStepType DEF DetailMeta

LEMMA DetailExistsType ==
  ASSUME WebInv, NEW t \in Threads, DetailExists(t)
  PROVE  WebInv'
  <1> DEFINE r == [thread[t] EXCEPT !.pc = "body"]
             d == [thread[t] EXCEPT !.pc = "detailed"]
  <1>1. GoodRequest(r) /\ GoodRequest(d)
    BY ThreadIsGood DEF DetailExists, At, GoodRequest, Requests
  <1>2. \/ thread' = [thread EXCEPT ![t] = r]
        \/ thread' = [thread EXCEPT ![t] = d]
    BY DEF DetailExists
  <1> HIDE DEF r, d
  <1> QED
    BY <1>1, <1>2, LocalStepType DEF DetailExists

LEMMA DetailBodyType ==
  ASSUME WebInv, NEW t \in Threads, DetailBody(t)
  PROVE  WebInv'
  <1> DEFINE text == file[thread[t].mb][thread[t].id][Body]
             r    == [thread[t] EXCEPT !.pc = "detailed", !.text = text]
  <1>1. thread[t].mb \in Mailboxes /\ thread[t].id \in Ids
    BY DEF DetailBody, At, WebInv, WebTypeOK, ThreadTypeOK
  <1>2. text \in Contents
    BY <1>1, WebAssumption DEF WebInv, DiskTypeOK, Names
  <1>3. \/ thread' = [thread EXCEPT ![t] = r]
        \/ thread' = [thread EXCEPT ![t] = Idle]
    BY DEF DetailBody, Finish
  <1> HIDE DEF text
  <1>4. GoodRequest(r)
    BY <1>2, ThreadIsGood DEF DetailBody, At, GoodRequest, Requests
  <1> HIDE DEF r
  <1> QED
    BY <1>3, <1>4, IdleIsGood, LocalStepType DEF DetailBody

LEMMA DetailReplyType ==
  ASSUME WebInv, NEW t \in Threads, DetailReply(t)
  PROVE  WebInv'
  BY IdleIsGood, LocalStepType DEF DetailReply, Finish

LEMMA DeleteCheckType ==
  ASSUME WebInv, NEW t \in Threads, NEW m \in Mailboxes, NEW e \in Ids,
         DeleteCheck(t, m, e)
  PROVE  WebInv'
  <1> DEFINE r == [Idle EXCEPT !.pc = "scan", !.mb = m, !.id = e]
  <1>1. GoodRequest(r)
    BY IdleIsGood DEF GoodRequest, Requests, Idle
  <1>2. thread' = [thread EXCEPT ![t] = r]
    BY DEF DeleteCheck
  <1> HIDE DEF r
  <1>3. ThreadTypeOK' /\ \A s \in Threads : IsFiniteSet(thread'[s].emails)
    BY <1>1, <1>2, UpdateType
  <1> QED
    BY <1>3 DEF WebInv, DiskTypeOK, WebTypeOK, FiniteLists, DeleteCheck, disk

LEMMA DeleteScanType ==
  ASSUME WebInv, NEW t \in Threads, DeleteScan(t)
  PROVE  WebInv'
  <1> DEFINE files == Present(thread[t].mb, thread[t].id)
             r     == [thread[t] EXCEPT !.pc = "unlink", !.files = files]
  <1>1. files \in SUBSET Names
    BY DEF Present
  <1>2. \/ thread' = [thread EXCEPT ![t] = r]
        \/ thread' = [thread EXCEPT ![t] = Idle]
    BY DEF DeleteScan, Finish
  <1> HIDE DEF files
  <1>3. GoodRequest(r)
    BY <1>1, ThreadIsGood DEF DeleteScan, At, GoodRequest, Requests
  <1> HIDE DEF r
  <1> QED
    BY <1>2, <1>3, IdleIsGood, LocalStepType DEF DeleteScan

LEMMA DeleteUnlinkType ==
  ASSUME WebInv, NEW t \in Threads, NEW f \in Names, DeleteUnlink(t, f)
  PROVE  WebInv'
  <1> DEFINE m == thread[t].mb
             e == thread[t].id
             r == [thread[t] EXCEPT !.files = thread[t].files \ {f}]
  <1>1. m \in Mailboxes /\ e \in Ids
    BY DEF DeleteUnlink, At, WebInv, WebTypeOK, ThreadTypeOK
  <1>2. GoodRequest(r)
    BY ThreadIsGood DEF DeleteUnlink, At, GoodRequest, Requests
  <1>3. \/ thread' = [thread EXCEPT ![t] = r] /\ SetFile(m, e, f, Absent)
        \/ thread' = [thread EXCEPT ![t] = Idle] /\ UNCHANGED disk
    BY DEF DeleteUnlink, Finish
  <1>4. Absent \in Contents
    BY DEF Contents
  <1>5. DiskTypeOK'
    <2>1. CASE SetFile(m, e, f, Absent)
      BY <1>1, <1>4, <2>1, SetFileType DEF WebInv
    <2>2. CASE UNCHANGED disk
      BY <2>2 DEF WebInv, DiskTypeOK, disk
    <2> QED BY <1>3, <2>1, <2>2
  <1> HIDE DEF m, e, r
  <1>6. ThreadTypeOK' /\ \A s \in Threads : IsFiniteSet(thread'[s].emails)
    BY <1>2, <1>3, IdleIsGood, UpdateType
  <1> QED
    BY <1>5, <1>6 DEF WebInv, WebTypeOK, FiniteLists, DeleteUnlink

LEMMA DeleteRmdirType ==
  ASSUME WebInv, NEW t \in Threads, DeleteRmdir(t)
  PROVE  WebInv'
  <1> DEFINE m == thread[t].mb
             e == thread[t].id
  <1>1. m \in Mailboxes /\ e \in Ids
    BY DEF DeleteRmdir, At, WebInv, WebTypeOK, ThreadTypeOK
  <1>2. \/ RemoveDir(m, e) /\ removed' = removed \cup {<<m, e>>}
        \/ UNCHANGED <<disk, removed>>
    BY DEF DeleteRmdir
  <1> HIDE DEF m, e
  <1>3. DiskTypeOK' /\ removed' \subseteq Mailboxes \X Ids
    <2>1. CASE RemoveDir(m, e) /\ removed' = removed \cup {<<m, e>>}
      BY <1>1, <2>1, RemoveDirType DEF WebInv, WebTypeOK
    <2>2. CASE UNCHANGED <<disk, removed>>
      BY <2>2 DEF WebInv, WebTypeOK, DiskTypeOK, disk
    <2> QED BY <1>2, <2>1, <2>2
  <1>4. ThreadTypeOK' /\ \A s \in Threads : IsFiniteSet(thread'[s].emails)
    BY FinishType DEF DeleteRmdir
  <1> QED
    BY <1>3, <1>4 DEF WebInv, WebTypeOK, FiniteLists, DeleteRmdir

LEMMA WebRestartType ==
  ASSUME WebInv, WebRestart
  PROVE  WebInv'
  <1>1. ThreadTypeOK' /\ \A t \in Threads : IsFiniteSet(thread'[t].emails)
    BY IdleIsGood DEF WebRestart, GoodRequest, ThreadTypeOK
  <1>2. NoCache \in CacheEntries /\ IsFiniteSet(NoCache.emails)
    BY FS_EmptySet DEF NoCache, CacheEntries, Lists
  <1>3. cache' = [m \in Mailboxes |-> NoCache]
    BY DEF WebRestart
  <1> QED
    BY <1>1, <1>2, <1>3
    DEF WebInv, DiskTypeOK, WebTypeOK, FiniteLists, WebRestart, disk

LEMMA WebType ==
  ASSUME TypeInv, WebStep, UNCHANGED smtpVars
  PROVE  TypeInv'
  <1>1. SmtpTypeOK'
    BY DEF TypeInv, SmtpTypeOK, Envelopes, smtpVars
  <1>2. WebInv'
    <2> USE DEF TypeInv
    <2>1. ASSUME NEW t \in Threads, NEW m \in Mailboxes, ListStat(t, m)
          PROVE  WebInv'
      BY <2>1, ListStatType
    <2>2. ASSUME NEW t \in Threads, NEW m \in Mailboxes, NEW e \in Ids,
                 DetailMeta(t, m, e) \/ DeleteCheck(t, m, e)
          PROVE  WebInv'
      BY <2>2, DetailMetaType, DeleteCheckType
    <2>3. ASSUME NEW t \in Threads, Serve(t)
          PROVE  WebInv'
      BY <2>3, ListLookupType, ListCountType, ListGlobType, ListReadType,
         ListStoreType, ListReplyType, DetailExistsType, DetailBodyType,
         DetailReplyType, DeleteScanType, DeleteUnlinkType, DeleteRmdirType
      DEF Serve
    <2> QED
      BY <2>1, <2>2, <2>3, WebRestartType DEF WebStep
  <1> QED BY <1>1, <1>2 DEF TypeInv

-----------------------------------------------------------------------------

LEMMA InitType == Init => TypeInv
  <1> SUFFICES ASSUME Init PROVE TypeInv
    OBVIOUS
  <1>1. DiskTypeOK
    BY DEF Init, DiskInit, DiskTypeOK, Contents, Absent
  <1>2. SmtpTypeOK
    BY OrderType DEF Init, SmtpInit, SmtpTypeOK, Envelopes, NewEnvelope
  <1>3. \A t \in Threads : GoodRequest(thread[t])
    BY IdleIsGood DEF Init, WebInit
  <1>4. NoCache \in CacheEntries /\ IsFiniteSet(NoCache.emails)
    BY FS_EmptySet DEF NoCache, CacheEntries, Lists
  <1>5. WebTypeOK /\ FiniteLists
    BY <1>3, <1>4
    DEF Init, WebInit, WebTypeOK, ThreadTypeOK, FiniteLists, GoodRequest
  <1> QED BY <1>1, <1>2, <1>5 DEF TypeInv, WebInv

LEMMA StutterType == TypeInv /\ UNCHANGED vars => TypeInv'
  BY DEF TypeInv, WebInv, vars, disk, smtpVars, webVars, DiskTypeOK,
         SmtpTypeOK, Envelopes, WebTypeOK, ThreadTypeOK, FiniteLists

\* The type invariant with what it needs to be inductive: list_emails puts
\* len(emails) into the cache, so lists have to be finite.
THEOREM SpecTypeInv == Spec => []TypeInv
  <1>1. TypeInv /\ [Next]_vars => TypeInv'
    BY SmtpType, WebType, StutterType DEF Next
  <1> QED BY InitType, <1>1, PTL DEF Spec

\* Every variable keeps its type, whatever the processes and crashes do.  A
\* copy is in particular never written outside the mailboxes and ids there
\* are, and a cached count is always that of a finite list.
THEOREM TypeCorrect == Spec => []TypeOK
  <1>1. TypeInv => TypeOK
    BY DEF TypeInv, WebInv, TypeOK
  <1> QED BY SpecTypeInv, <1>1, PTL

-----------------------------------------------------------------------------
(* Whole copies: the steps of the web process                              *)

\* What may become of the copies in a step: none is forgotten by the history,
\* none appears or disappears, and only a condemned one loses files.
CopiesKept ==
  \A m \in Mailboxes, e \in Ids :
    /\ Condemned(m, e) => Condemned(m, e)'
    /\ Appeared(m, e)' <=> Appeared(m, e)
    /\ \A f \in Names :
         /\ Whole(m, e, f)' => Whole(m, e, f)
         /\ Whole(m, e, f) => Whole(m, e, f)' \/ Condemned(m, e)
         /\ f \in Present(m, e) => f \in Present(m, e)' \/ Condemned(m, e)

LEMMA KeptIfUnchanged ==
  ASSUME UNCHANGED <<file, condemned>>
  PROVE  CopiesKept
  BY DEF CopiesKept, Condemned, Appeared, Readable, Whole, Present

LEMMA DeleteCheckKeeps ==
  ASSUME TypeInv, SeenHasAppeared,
         NEW t \in Threads, NEW m \in Mailboxes, NEW e \in Ids,
         DeleteCheck(t, m, e)
  PROVE  CopiesKept
  <1>1. Appeared(m, e)
    BY DEF DeleteCheck, SeenHasAppeared, ShownHasAppeared
  <1>2. file' = file /\ condemned' = condemned \cup {<<m, e>>}
    BY DEF DeleteCheck, disk
  <1> QED
    BY <1>1, <1>2
    DEF CopiesKept, Condemned, Appeared, Readable, Whole, Present

LEMMA DeleteUnlinkKeeps ==
  ASSUME TypeInv, DeletesAreCondemned,
         NEW t \in Threads, NEW f \in Names, DeleteUnlink(t, f)
  PROVE  CopiesKept
  <1> DEFINE m == thread[t].mb
             e == thread[t].id
  <1>1. m \in Mailboxes /\ e \in Ids /\ Condemned(m, e)
    BY DEF DeleteUnlink, At, TypeInv, WebInv, WebTypeOK, ThreadTypeOK,
           DeletesAreCondemned
  <1>2. condemned' = condemned
    BY DEF DeleteUnlink
  <1>3. CASE file' = file
    BY <1>2, <1>3, KeptIfUnchanged
  <1>4. CASE file' = [file EXCEPT ![m][e][f] = Absent]
    <2>1. file \in [Mailboxes -> [Ids -> [Names -> Contents]]]
      BY DEF TypeInv, WebInv, DiskTypeOK
    <2>2. \A n \in Mailboxes, d \in Ids, g \in Names :
            file'[n][d][g] = IF n = m /\ d = e /\ g = f THEN Absent
                                                        ELSE file[n][d][g]
      BY <1>1, <1>4, <2>1
    <2> HIDE DEF m, e
    <2>3. \A n \in Mailboxes, d \in Ids, g \in Names :
            /\ Whole(n, d, g)' => Whole(n, d, g)
            /\ Whole(n, d, g) => Whole(n, d, g)' \/ Condemned(n, d)
            /\ g \in Present(n, d) => g \in Present(n, d)' \/ Condemned(n, d)
      BY <1>1, <2>2 DEF Whole, Present, Absent, Torn
    <2>4. \A n \in Mailboxes, d \in Ids : Condemned(n, d)' <=> Condemned(n, d)
      BY <1>2 DEF Condemned
    <2> QED
      BY <2>3, <2>4 DEF CopiesKept, Appeared, Readable, Names
  <1> QED
    BY <1>3, <1>4 DEF DeleteUnlink, SetFile, disk

\* Every step of the web process keeps the copies; DeleteCheck does too, but
\* the argument for it needs what browsers have been shown.
LEMMA WebKeepsOrChecks ==
  ASSUME TypeInv, DeletesAreCondemned, WebStep
  PROVE  \/ CopiesKept
         \/ \E t \in Threads, m \in Mailboxes, e \in Ids : DeleteCheck(t, m, e)
  <1>1. ASSUME NEW t \in Threads, NEW m \in Mailboxes, ListStat(t, m)
        PROVE  CopiesKept
    BY <1>1, KeptIfUnchanged DEF ListStat, disk
  <1>2. ASSUME NEW t \in Threads, NEW m \in Mailboxes, NEW e \in Ids,
               DetailMeta(t, m, e)
        PROVE  CopiesKept
    BY <1>2, KeptIfUnchanged DEF DetailMeta, disk
  <1>3. ASSUME NEW t \in Threads, Serve(t)
        PROVE  CopiesKept
    <2>1. ASSUME NEW f \in Names, DeleteUnlink(t, f)
          PROVE  CopiesKept
      BY <2>1, DeleteUnlinkKeeps
    <2>2. CASE DeleteRmdir(t)
      BY <2>2, KeptIfUnchanged DEF DeleteRmdir, RemoveDir, disk
    <2>3. CASE \/ ListLookup(t) \/ ListCount(t) \/ ListGlob(t)
               \/ \E e \in Ids : ListRead(t, e)
      BY <2>3, KeptIfUnchanged
      DEF ListLookup, ListCount, ListGlob, ListRead, disk
    <2>4. CASE \/ ListStore(t) \/ ListReply(t) \/ DetailExists(t)
               \/ DetailBody(t) \/ DetailReply(t) \/ DeleteScan(t)
      BY <2>4, KeptIfUnchanged
      DEF ListStore, ListReply, DetailExists, DetailBody, DetailReply,
          DeleteScan, disk
    <2> QED
      BY <1>3, <2>1, <2>2, <2>3, <2>4 DEF Serve
  <1>4. CASE WebRestart
    BY <1>4, KeptIfUnchanged DEF WebRestart, disk
  <1> QED
    BY <1>1, <1>2, <1>3, <1>4 DEF WebStep

LEMMA WebKeeps ==
  ASSUME TypeInv, SeenHasAppeared, DeletesAreCondemned, WebStep
  PROVE  CopiesKept
  BY WebKeepsOrChecks, DeleteCheckKeeps

\* A thread that becomes r has read only what has appeared, and deletes only
\* what is condemned.
LEMMA ThreadKeepsSeen ==
  ASSUME TypeInv, CopiesKept, ReadHasAppeared, DeletesAreCondemned,
         NEW t \in Threads, NEW r, GoodRequest(r),
         thread' = [thread EXCEPT ![t] = r],
         r.pc # "idle" => \A x \in r.emails : Appeared(r.mb, x[1]),
         r.pc \in {"scan", "unlink"} => <<r.mb, r.id>> \in condemned'
  PROVE  ReadHasAppeared' /\ DeletesAreCondemned'
  <1>1. \A s \in Threads : thread'[s] = IF s = t THEN r ELSE thread[s]
    BY DEF TypeInv, WebInv, WebTypeOK, ThreadTypeOK
  <1>2. \A s \in Threads : GoodRequest(thread[s])
    BY ThreadIsGood DEF TypeInv
  <1>3. ASSUME NEW s \in Threads, thread'[s].pc # "idle",
               NEW x \in thread'[s].emails,
               NEW m \in Mailboxes, NEW e \in Ids,
               m = thread'[s].mb, e = x[1]
        PROVE  Appeared(m, e)'
    <2>1. Appeared(m, e)
      BY <1>1, <1>3 DEF ReadHasAppeared
    <2> QED BY <2>1 DEF CopiesKept
  <1>4. ASSUME NEW s \in Threads, thread'[s].pc \in {"scan", "unlink"},
               NEW m \in Mailboxes, NEW e \in Ids,
               m = thread'[s].mb, e = thread'[s].id
        PROVE  Condemned(m, e)'
    <2>1. CASE s = t
      BY <1>1, <1>4, <2>1 DEF Condemned
    <2>2. CASE s # t
      BY <1>1, <1>4, <2>2 DEF CopiesKept, DeletesAreCondemned
    <2> QED BY <2>1, <2>2
  <1>5. \A s \in Threads : thread'[s].pc # "idle" =>
          /\ thread'[s].mb \in Mailboxes
          /\ \A x \in thread'[s].emails : x[1] \in Ids
    BY <1>1, <1>2 DEF GoodRequest, Requests, Lists
  <1>6. \A s \in Threads :
          thread'[s].pc \in {"scan", "unlink"} => thread'[s].id \in Ids
    BY <1>1, <1>2 DEF GoodRequest
  <1>7. ReadHasAppeared'
    BY <1>3, <1>5
    DEF ReadHasAppeared, Appeared, Readable, Whole, Condemned
  <1>8. DeletesAreCondemned'
    BY <1>4, <1>5, <1>6 DEF DeletesAreCondemned, Condemned
  <1> QED BY <1>7, <1>8

LEMMA ShownKept ==
  ASSUME TypeInv, CopiesKept, ShownHasAppeared, UNCHANGED shown
  PROVE  ShownHasAppeared'
  BY DEF TypeInv, WebInv, WebTypeOK, CopiesKept, ShownHasAppeared

LEMMA CachedKept ==
  ASSUME TypeInv, CopiesKept, CachedHasAppeared, UNCHANGED cache
  PROVE  CachedHasAppeared'
  BY DEF TypeInv, WebInv, WebTypeOK, CacheEntries, Lists, CopiesKept,
         CachedHasAppeared

SeenInv == SeenHasAppeared /\ DeletesAreCondemned

LEMMA LocalKeepsSeen ==
  ASSUME TypeInv, CopiesKept, SeenInv,
         NEW t \in Threads, NEW r, GoodRequest(r),
         thread' = [thread EXCEPT ![t] = r],
         r.pc # "idle" => \A x \in r.emails : Appeared(r.mb, x[1]),
         r.pc \in {"scan", "unlink"} => <<r.mb, r.id>> \in condemned',
         UNCHANGED <<cache, shown>>
  PROVE  SeenInv'
  BY ThreadKeepsSeen, ShownKept, CachedKept DEF SeenInv, SeenHasAppeared

LEMMA FinishKeepsSeen ==
  ASSUME TypeInv, CopiesKept, SeenInv, NEW t \in Threads, Finish(t)
  PROVE  ReadHasAppeared' /\ DeletesAreCondemned'
  <1>1. Idle.pc = "idle" /\ GoodRequest(Idle)
    BY IdleIsGood DEF Idle
  <1>2. thread' = [thread EXCEPT ![t] = Idle]
    BY DEF Finish
  <1> QED
    BY <1>1, <1>2, ThreadKeepsSeen DEF SeenInv, SeenHasAppeared

\* A request that goes on with the emails it has and deletes nothing new.
LEMMA SameEmailsKeepSeen ==
  ASSUME TypeInv, CopiesKept, SeenInv, NEW t \in Threads, NEW r,
         GoodRequest(r), thread' = [thread EXCEPT ![t] = r],
         thread[t].pc # "idle",
         r.mb = thread[t].mb, r.id = thread[t].id,
         r.emails \subseteq thread[t].emails,
         r.pc \in {"scan", "unlink"} => thread[t].pc \in {"scan", "unlink"}
  PROVE  ReadHasAppeared' /\ DeletesAreCondemned'
  <1>1. r.pc # "idle" => \A x \in r.emails : Appeared(r.mb, x[1])
    BY DEF SeenInv, SeenHasAppeared, ReadHasAppeared
  <1>2. ASSUME r.pc \in {"scan", "unlink"}
        PROVE  <<r.mb, r.id>> \in condemned'
    <2>1. r.mb \in Mailboxes /\ r.id \in Ids
      BY <1>2 DEF GoodRequest
    <2>2. Condemned(r.mb, r.id)
      BY <1>2 DEF SeenInv, DeletesAreCondemned
    <2> QED BY <2>1, <2>2 DEF CopiesKept, Condemned
  <1> QED
    BY <1>1, <1>2, ThreadKeepsSeen DEF SeenInv, SeenHasAppeared

LEMMA NextThreadIsGood ==
  ASSUME WebInv, WebInv', NEW t \in Threads, NEW r,
         thread' = [thread EXCEPT ![t] = r]
  PROVE  GoodRequest(r)
  BY DEF WebInv, WebTypeOK, ThreadTypeOK, FiniteLists, GoodRequest

LEMMA ListStatSeen ==
  ASSUME TypeInv, TypeInv', CopiesKept, SeenInv,
         NEW t \in Threads, NEW m \in Mailboxes, ListStat(t, m)
  PROVE  SeenInv'
  <1> DEFINE had  == {e \in Ids : Readable(m, e) /\ <<m, e>> \notin condemned}
             gone == {e \in Ids : <<m, e>> \in removed}
             pc   == IF mtime[m] = 0 THEN "listed" ELSE "lookup"
             r    == [Idle EXCEPT !.pc = pc, !.mb = m, !.stat = mtime[m],
                                  !.had = had, !.gone = gone]
  <1>1. thread' = [thread EXCEPT ![t] = r]
    BY DEF ListStat
  <1>2. r.emails = {} /\ r.pc \in {"listed", "lookup"}
    BY DEF Idle
  <1>3. UNCHANGED <<cache, shown>>
    BY DEF ListStat
  <1> HIDE DEF r
  <1>4. GoodRequest(r)
    BY <1>1, NextThreadIsGood DEF TypeInv
  <1> QED
    BY <1>1, <1>2, <1>3, <1>4, LocalKeepsSeen

LEMMA ListLookupSeen ==
  ASSUME TypeInv, TypeInv', CopiesKept, SeenInv,
         NEW t \in Threads, ListLookup(t)
  PROVE  SeenInv'
  <1> DEFINE c == cache[thread[t].mb]
             r == [thread[t] EXCEPT !.pc     = "count",
                                    !.count  = c.count,
                                    !.emails = c.emails]
             g == [thread[t] EXCEPT !.pc = "glob"]
  <1>1. thread[t] \in Requests /\ thread[t].mb \in Mailboxes
    BY BusyThread DEF ListLookup, At, TypeInv
  <1>2. /\ r.pc = "count" /\ r.mb = thread[t].mb /\ r.emails = c.emails
        /\ g.pc = "glob" /\ g.mb = thread[t].mb /\ g.id = thread[t].id
        /\ g.emails = thread[t].emails
    BY <1>1 DEF Requests
  <1>3. \A x \in c.emails : Appeared(thread[t].mb, x[1])
    BY <1>1 DEF SeenInv, SeenHasAppeared, CachedHasAppeared
  <1>4. \/ thread' = [thread EXCEPT ![t] = r]
        \/ thread' = [thread EXCEPT ![t] = g]
    BY DEF ListLookup
  <1>5. UNCHANGED <<cache, shown>> /\ thread[t].pc = "lookup"
    BY DEF ListLookup, At
  <1> HIDE DEF c, r, g
  <1>6. CASE thread' = [thread EXCEPT ![t] = r]
    BY <1>2, <1>3, <1>5, <1>6, NextThreadIsGood, LocalKeepsSeen DEF TypeInv
  <1>7. CASE thread' = [thread EXCEPT ![t] = g]
    BY <1>2, <1>5, <1>7, NextThreadIsGood, SameEmailsKeepSeen, ShownKept,
       CachedKept
    DEF TypeInv, SeenInv, SeenHasAppeared
  <1> QED BY <1>4, <1>6, <1>7

LEMMA ListCountSeen ==
  ASSUME TypeInv, TypeInv', CopiesKept, SeenInv,
         NEW t \in Threads, ListCount(t)
  PROVE  SeenInv'
  <1> DEFINE c == [thread[t] EXCEPT !.pc = "listed"]
             g == [thread[t] EXCEPT !.pc = "glob"]
  <1>1. thread[t] \in Requests /\ thread[t].pc = "count"
    BY BusyThread DEF ListCount, At, TypeInv
  <1>2. /\ c.pc = "listed" /\ c.mb = thread[t].mb /\ c.id = thread[t].id
        /\ c.emails = thread[t].emails
        /\ g.pc = "glob" /\ g.mb = thread[t].mb /\ g.id = thread[t].id
        /\ g.emails = thread[t].emails
    BY <1>1 DEF Requests
  <1>3. \/ thread' = [thread EXCEPT ![t] = c]
        \/ thread' = [thread EXCEPT ![t] = g]
    BY DEF ListCount
  <1>4. UNCHANGED <<cache, shown>>
    BY DEF ListCount
  <1> HIDE DEF c, g
  <1>5. ReadHasAppeared' /\ DeletesAreCondemned'
    BY <1>1, <1>2, <1>3, NextThreadIsGood, SameEmailsKeepSeen DEF TypeInv
  <1> QED
    BY <1>4, <1>5, ShownKept, CachedKept DEF SeenInv, SeenHasAppeared

LEMMA ListGlobSeen ==
  ASSUME TypeInv, TypeInv', CopiesKept, SeenInv,
         NEW t \in Threads, ListGlob(t)
  PROVE  SeenInv'
  <1> DEFINE todo == entries[thread[t].mb]
             r == [thread[t] EXCEPT !.pc     = "read",
                                    !.emails = {},
                                    !.todo   = todo]
  <1>1. thread[t] \in Requests
    BY BusyThread DEF ListGlob, At, TypeInv
  <1>2. r.pc = "read" /\ r.emails = {}
    BY <1>1 DEF Requests
  <1>3. thread' = [thread EXCEPT ![t] = r] /\ UNCHANGED <<cache, shown>>
    BY DEF ListGlob
  <1> HIDE DEF r
  <1> QED
    BY <1>2, <1>3, NextThreadIsGood, LocalKeepsSeen DEF TypeInv

LEMMA ListReadSeen ==
  ASSUME TypeInv, TypeInv', CopiesKept, SeenInv,
         NEW t \in Threads, NEW e \in Ids, ListRead(t, e)
  PROVE  SeenInv'
  <1> DEFINE m    == thread[t].mb
             x    == <<e, file[m][e][Metadata]>>
             todo == thread[t].todo \ {e}
             all  == thread[t].emails \cup {x}
             one  == IF Readable(m, e) THEN all ELSE thread[t].emails
             r    == [thread[t] EXCEPT !.todo = todo, !.emails = one]
  <1>1. thread[t] \in Requests /\ thread[t].pc = "read"
    BY BusyThread DEF ListRead, At, TypeInv
  <1>2. thread' = [thread EXCEPT ![t] = r] /\ UNCHANGED <<cache, shown>>
    BY DEF ListRead
  <1>3. \A y \in one : Appeared(m, y[1])
    <2>1. \A y \in thread[t].emails : Appeared(m, y[1])
      BY <1>1 DEF SeenInv, SeenHasAppeared, ReadHasAppeared
    <2>2. Readable(m, e) => Appeared(m, x[1])
      BY DEF Appeared
    <2> HIDE DEF x, m
    <2> QED BY <2>1, <2>2
  <1> HIDE DEF one, todo
  <1>4. r.pc = "read" /\ r.emails = one /\ r.mb = m
    BY <1>1 DEF Requests
  <1> HIDE DEF r, m
  <1> QED
    BY <1>2, <1>3, <1>4, NextThreadIsGood, LocalKeepsSeen DEF TypeInv

LEMMA ListStoreSeen ==
  ASSUME TypeInv, TypeInv', CopiesKept, SeenInv,
         NEW t \in Threads, ListStore(t)
  PROVE  SeenInv'
  <1> DEFINE r == [thread[t] EXCEPT !.pc = "listed"]
             b == thread[t].mb
  <1>1. thread[t] \in Requests /\ thread[t].pc = "read" /\ b \in Mailboxes
    BY BusyThread DEF ListStore, At, TypeInv
  <1>2. ReadHasAppeared' /\ DeletesAreCondemned'
    <2>1. /\ r.pc = "listed" /\ r.mb = thread[t].mb /\ r.id = thread[t].id
          /\ r.emails = thread[t].emails
      BY <1>1 DEF Requests
    <2>2. thread' = [thread EXCEPT ![t] = r]
      BY DEF ListStore
    <2> HIDE DEF r
    <2> QED
      BY <1>1, <2>1, <2>2, NextThreadIsGood, SameEmailsKeepSeen DEF TypeInv
  <1>3. CachedHasAppeared'
    <2>1. \A m \in Mailboxes :
            cache'[m].emails = IF m = b THEN thread[t].emails
                                        ELSE cache[m].emails
      BY DEF ListStore, TypeInv, WebInv, WebTypeOK
    <2>2. \A x \in thread[t].emails : x[1] \in Ids /\ Appeared(b, x[1])
      BY <1>1
      DEF Requests, Lists, SeenInv, SeenHasAppeared, ReadHasAppeared
    <2>3. \A m \in Mailboxes : \A x \in cache[m].emails :
            x[1] \in Ids /\ Appeared(m, x[1])
      BY DEF TypeInv, WebInv, WebTypeOK, CacheEntries, Lists, SeenInv,
             SeenHasAppeared, CachedHasAppeared
    <2> HIDE DEF b
    <2>4. ASSUME NEW m \in Mailboxes, NEW x \in cache'[m].emails
          PROVE  x[1] \in Ids /\ Appeared(m, x[1])
      BY <2>1, <2>2, <2>3, <2>4
    <2> QED BY <2>4 DEF CachedHasAppeared, CopiesKept
  <1>4. ShownHasAppeared'
    BY ShownKept DEF ListStore, SeenInv, SeenHasAppeared
  <1> QED BY <1>2, <1>3, <1>4 DEF SeenInv, SeenHasAppeared

LEMMA ListReplySeen ==
  ASSUME TypeInv, CopiesKept, SeenInv, NEW t \in Threads, ListReply(t)
  PROVE  SeenInv'
  <1> DEFINE b == thread[t].mb
  <1>1. thread[t] \in Requests /\ thread[t].pc = "listed" /\ b \in Mailboxes
    BY BusyThread DEF ListReply, At, TypeInv
  <1>2. ReadHasAppeared' /\ DeletesAreCondemned'
    BY FinishKeepsSeen DEF ListReply
  <1>3. ShownHasAppeared'
    <2>1. \A m \in Mailboxes :
            shown'[m] = IF m = b THEN shown[m] \cup IdsOf(thread[t].emails)
                                 ELSE shown[m]
      BY DEF ListReply, TypeInv, WebInv, WebTypeOK
    <2>2. \A e \in IdsOf(thread[t].emails) : e \in Ids /\ Appeared(b, e)
      BY <1>1
      DEF Requests, Lists, SeenInv, SeenHasAppeared, ReadHasAppeared, IdsOf
    <2>3. \A m \in Mailboxes : \A e \in shown[m] : e \in Ids /\ Appeared(m, e)
      BY DEF TypeInv, WebInv, WebTypeOK, SeenInv, SeenHasAppeared,
             ShownHasAppeared
    <2> HIDE DEF b
    <2>4. ASSUME NEW m \in Mailboxes, NEW e \in shown'[m]
          PROVE  e \in Ids /\ Appeared(m, e)
      BY <2>1, <2>2, <2>3, <2>4
    <2> QED BY <2>4 DEF ShownHasAppeared, CopiesKept
  <1>4. CachedHasAppeared'
    BY CachedKept DEF ListReply, SeenInv, SeenHasAppeared
  <1> QED BY <1>2, <1>3, <1>4 DEF SeenInv, SeenHasAppeared

LEMMA DetailSeen ==
  ASSUME TypeInv, TypeInv', CopiesKept, SeenInv, NEW t \in Threads,
         \/ \E m \in Mailboxes, e \in Ids : DetailMeta(t, m, e)
         \/ DetailExists(t)
         \/ DetailBody(t)
         \/ DetailReply(t)
  PROVE  SeenInv'
  <1>1. UNCHANGED <<cache, shown>>
    BY DEF DetailMeta, DetailExists, DetailBody, DetailReply
  <1>2. ASSUME NEW m \in Mailboxes, NEW e \in Ids, DetailMeta(t, m, e)
        PROVE  SeenInv'
    <2> DEFINE r == [Idle EXCEPT !.pc = "exists", !.mb = m, !.id = e]
    <2>1. r.pc = "exists" /\ r.emails = {}
      BY DEF Idle
    <2>2. thread' = [thread EXCEPT ![t] = r]
      BY <1>2 DEF DetailMeta
    <2> HIDE DEF r
    <2> QED
      BY <1>1, <2>1, <2>2, NextThreadIsGood, LocalKeepsSeen DEF TypeInv
  <1>3. ASSUME Finish(t)
        PROVE  SeenInv'
    BY <1>1, <1>3, FinishKeepsSeen, ShownKept, CachedKept
    DEF SeenInv, SeenHasAppeared
  <1>4. ASSUME NEW r, thread' = [thread EXCEPT ![t] = r],
               thread[t].pc # "idle", r.mb = thread[t].mb, r.id = thread[t].id,
               r.emails = thread[t].emails, r.pc \in {"body", "detailed"}
        PROVE  SeenInv'
    BY <1>1, <1>4, NextThreadIsGood, SameEmailsKeepSeen, ShownKept, CachedKept
    DEF TypeInv, SeenInv, SeenHasAppeared
  <1>5. CASE DetailExists(t)
    <2> DEFINE r == [thread[t] EXCEPT !.pc = "body"]
               d == [thread[t] EXCEPT !.pc = "detailed"]
    <2>1. thread[t] \in Requests /\ thread[t].pc = "exists"
      BY <1>5, BusyThread DEF DetailExists, At, TypeInv
    <2>2. /\ r.pc = "body" /\ r.mb = thread[t].mb /\ r.id = thread[t].id
          /\ r.emails = thread[t].emails
          /\ d.pc = "detailed" /\ d.mb = thread[t].mb /\ d.id = thread[t].id
          /\ d.emails = thread[t].emails
      BY <2>1 DEF Requests
    <2>3. \/ thread' = [thread EXCEPT ![t] = r]
          \/ thread' = [thread EXCEPT ![t] = d]
      BY <1>5 DEF DetailExists
    <2> HIDE DEF r, d
    <2> QED BY <1>4, <2>1, <2>2, <2>3
  <1>6. CASE DetailBody(t)
    <2> DEFINE text == file[thread[t].mb][thread[t].id][Body]
               r    == [thread[t] EXCEPT !.pc = "detailed", !.text = text]
    <2>1. thread[t] \in Requests /\ thread[t].pc = "body"
      BY <1>6, BusyThread DEF DetailBody, At, TypeInv
    <2>2. /\ r.pc = "detailed" /\ r.mb = thread[t].mb /\ r.id = thread[t].id
          /\ r.emails = thread[t].emails
      BY <2>1 DEF Requests
    <2>3. thread' = [thread EXCEPT ![t] = r] \/ Finish(t)
      BY <1>6 DEF DetailBody
    <2> HIDE DEF text, r
    <2> QED BY <1>3, <1>4, <2>1, <2>2, <2>3
  <1> QED
    BY <1>2, <1>3, <1>5, <1>6 DEF DetailReply

LEMMA DeleteCheckSeen ==
  ASSUME TypeInv, TypeInv', CopiesKept, SeenInv,
         NEW t \in Threads, NEW m \in Mailboxes, NEW e \in Ids,
         DeleteCheck(t, m, e)
  PROVE  SeenInv'
  <1> DEFINE r == [Idle EXCEPT !.pc = "scan", !.mb = m, !.id = e]
  <1>1. r.pc = "scan" /\ r.mb = m /\ r.id = e /\ r.emails = {}
    BY DEF Idle
  <1>2. thread' = [thread EXCEPT ![t] = r]
    BY DEF DeleteCheck
  <1>3. <<m, e>> \in condemned' /\ UNCHANGED <<cache, shown>>
    BY DEF DeleteCheck
  <1> HIDE DEF r
  <1> QED
    BY <1>1, <1>2, <1>3, NextThreadIsGood, LocalKeepsSeen DEF TypeInv

LEMMA DeleteSeen ==
  ASSUME TypeInv, TypeInv', CopiesKept, SeenInv, NEW t \in Threads,
         \/ DeleteScan(t)
         \/ \E f \in Names : DeleteUnlink(t, f)
         \/ DeleteRmdir(t)
  PROVE  SeenInv'
  <1>1. UNCHANGED <<cache, shown>>
    BY DEF DeleteScan, DeleteUnlink, DeleteRmdir
  <1>2. ASSUME Finish(t)
        PROVE  SeenInv'
    BY <1>1, <1>2, FinishKeepsSeen, ShownKept, CachedKept
    DEF SeenInv, SeenHasAppeared
  <1>3. ASSUME NEW r, thread' = [thread EXCEPT ![t] = r],
               thread[t].pc \in {"scan", "unlink"}, r.pc = "unlink",
               r.mb = thread[t].mb, r.id = thread[t].id,
               r.emails = thread[t].emails
        PROVE  SeenInv'
    BY <1>1, <1>3, NextThreadIsGood, SameEmailsKeepSeen, ShownKept, CachedKept
    DEF TypeInv, SeenInv, SeenHasAppeared
  <1>4. CASE DeleteScan(t)
    <2> DEFINE files == Present(thread[t].mb, thread[t].id)
               r     == [thread[t] EXCEPT !.pc = "unlink", !.files = files]
    <2>1. thread[t] \in Requests /\ thread[t].pc = "scan"
      BY <1>4, BusyThread DEF DeleteScan, At, TypeInv
    <2>2. /\ r.pc = "unlink" /\ r.mb = thread[t].mb /\ r.id = thread[t].id
          /\ r.emails = thread[t].emails
      BY <2>1 DEF Requests
    <2>3. thread' = [thread EXCEPT ![t] = r] \/ Finish(t)
      BY <1>4 DEF DeleteScan
    <2> HIDE DEF files, r
    <2> QED BY <1>2, <1>3, <2>1, <2>2, <2>3
  <1>5. ASSUME NEW f \in Names, DeleteUnlink(t, f)
        PROVE  SeenInv'
    <2> DEFINE r == [thread[t] EXCEPT !.files = thread[t].files \ {f}]
    <2>1. thread[t] \in Requests /\ thread[t].pc = "unlink"
      BY <1>5, BusyThread DEF DeleteUnlink, At, TypeInv
    <2>2. /\ r.pc = "unlink" /\ r.mb = thread[t].mb /\ r.id = thread[t].id
          /\ r.emails = thread[t].emails
      BY <2>1 DEF Requests
    <2>3. thread' = [thread EXCEPT ![t] = r] \/ Finish(t)
      BY <1>5 DEF DeleteUnlink
    <2> HIDE DEF r
    <2> QED BY <1>2, <1>3, <2>1, <2>2, <2>3
  <1>6. CASE DeleteRmdir(t)
    BY <1>2, <1>6 DEF DeleteRmdir
  <1> QED BY <1>4, <1>5, <1>6

LEMMA RestartSeen ==
  ASSUME TypeInv, CopiesKept, SeenInv, WebRestart
  PROVE  SeenInv'
  <1>1. /\ \A t \in Threads : thread'[t].pc = "idle"
        /\ \A m \in Mailboxes : cache'[m].emails = {}
    BY DEF WebRestart, Idle, NoCache
  <1>2. ShownHasAppeared'
    BY ShownKept DEF WebRestart, SeenInv, SeenHasAppeared
  <1>3. ReadHasAppeared' /\ DeletesAreCondemned'
    BY <1>1 DEF ReadHasAppeared, DeletesAreCondemned
  <1>4. CachedHasAppeared'
    BY <1>1 DEF CachedHasAppeared
  <1> QED BY <1>2, <1>3, <1>4 DEF SeenInv, SeenHasAppeared

LEMMA WebSeen ==
  ASSUME TypeInv, TypeInv', CopiesKept, SeenInv, WebStep
  PROVE  SeenInv'
  <1>1. ASSUME NEW t \in Threads, Serve(t)
        PROVE  SeenInv'
    BY <1>1, ListLookupSeen, ListCountSeen, ListGlobSeen, ListReadSeen,
       ListStoreSeen, ListReplySeen, DetailSeen, DeleteSeen
    DEF Serve
  <1> QED
    BY <1>1, ListStatSeen, DetailSeen, DeleteCheckSeen, RestartSeen
    DEF WebStep

-----------------------------------------------------------------------------
(* Whole copies: the clauses about the writer                              *)

WriterInv ==
  /\ WrittenIsWhole
  /\ DoneHasAppeared
  /\ PendingHasNotAppeared
  /\ SavedToDifferent
  /\ VisibleIsWhole

LEMMA RecipientType ==
  ASSUME SmtpTypeOK, NEW j \in 1..Len(smtp.rcpts)
  PROVE  Recipient(j) \in Mailboxes
  BY SmtpAssumption DEF Recipient, SmtpTypeOK, Envelopes

LEMMA WebKeepsWriter ==
  ASSUME TypeInv, CopiesKept, WriterInv, UNCHANGED smtpVars
  PROVE  WriterInv'
  <1>1. UNCHANGED <<smtp, drawn, acked>>
    BY DEF smtpVars
  <1>2. SmtpTypeOK
    BY DEF TypeInv
  <1>3. WrittenIsWhole'
    <2>1. Box' = Box /\ File' = File /\ Written' = Written
      BY <1>1 DEF Box, Recipient, File, Written
    <2>2. CASE smtp.pc \in {"open", "fill", "chmod"}
      <3>1. Box \in Mailboxes /\ smtp.id \in Ids /\ File \in Names
        BY <1>2, <2>2, BoxType
      <3>2. \A j \in Written : WriteOrder[j] \in Names
        BY <1>2, <2>2, OrderType DEF Written, SmtpTypeOK, Envelopes
      <3>3. ASSUME NEW m \in Mailboxes, NEW e \in Ids, NEW f \in Names,
                   m = Box, e = smtp.id
            PROVE  /\ \A j \in Written : f = WriteOrder[j] =>
                        Whole(m, e, f)' \/ Condemned(m, e)'
                   /\ smtp.pc = "fill" /\ f = File =>
                        f \in Present(m, e)' \/ Condemned(m, e)'
        BY <3>3 DEF WriterInv, WrittenIsWhole, CopiesKept
      <3> QED
        BY <1>1, <2>1, <3>1, <3>2, <3>3
        DEF WrittenIsWhole, Whole, Present, Condemned
    <2>3. CASE smtp.pc \notin {"open", "fill", "chmod"}
      BY <1>1, <2>3 DEF WrittenIsWhole, Written
    <2> QED BY <2>2, <2>3
  <1>4. \A j : Recipient(j)' = Recipient(j)
    BY <1>1 DEF Recipient
  <1>5. Done' = Done /\ Pending' = Pending
    BY <1>1 DEF Done, Pending
  <1>6. DoneHasAppeared'
    <2>1. \A j \in Done : Recipient(j) \in Mailboxes /\ smtp.id \in Ids
      BY <1>2, RecipientType DEF Done, SmtpTypeOK, Envelopes
    <2>2. ASSUME NEW j \in Done, NEW m \in Mailboxes, NEW e \in Ids,
                 m = Recipient(j), e = smtp.id
          PROVE  Appeared(m, e)'
      BY <2>2 DEF WriterInv, DoneHasAppeared, CopiesKept
    <2> QED
      BY <1>1, <1>5, <2>1, <2>2
      DEF DoneHasAppeared, Appeared, Readable, Whole, Condemned, Recipient
  <1>7. PendingHasNotAppeared'
    <2>1. \A j \in Pending : Recipient(j) \in Mailboxes /\ smtp.id \in Ids
      BY <1>2, RecipientType DEF Pending, SmtpTypeOK, Envelopes
    <2>2. ASSUME NEW j \in Pending, NEW m \in Mailboxes, NEW e \in Ids,
                 m = Recipient(j), e = smtp.id
          PROVE  ~Appeared(m, e)'
      BY <2>2 DEF WriterInv, PendingHasNotAppeared, CopiesKept
    <2>3. \A j \in Pending' : ~Appeared(Recipient(j), smtp.id)'
      BY <1>1, <1>5, <2>1, <2>2
      DEF Appeared, Readable, Whole, Condemned, Recipient
    <2>4. \A m \in Mailboxes, e \in Ids \ drawn : ~Appeared(m, e)'
      BY DEF WriterInv, PendingHasNotAppeared, CopiesKept
    <2> QED BY <1>1, <2>3, <2>4 DEF PendingHasNotAppeared
  <1>8. SavedToDifferent'
    BY <1>1 DEF WriterInv, SavedToDifferent, RecipientsDiffer, Recipient
  <1>9. VisibleIsWhole'
    BY DEF WriterInv, VisibleIsWhole, CopiesKept, Readable, Names
  <1> QED
    BY <1>3, <1>6, <1>7, <1>8, <1>9 DEF WriterInv

\* metadata.json is the last file in the order, and no file is written twice.
LEMMA OrderFacts ==
  /\ WriteOrder[Len(WriteOrder)] = Metadata
  /\ \A j \in 1..Len(WriteOrder) :
       WriteOrder[j] = Metadata => j = Len(WriteOrder)
  /\ \A i, j \in 1..Len(WriteOrder) : WriteOrder[i] = WriteOrder[j] => i = j
  /\ \A f \in Payload : \E j \in 1..(Len(WriteOrder) - 1) : f = WriteOrder[j]
  <1>1. /\ Len(WriteOrder) = Len(Parts) + 1 /\ Len(Parts) \in Nat
        /\ WriteOrder[Len(Parts) + 1] = Metadata
        /\ \A j \in 1..Len(Parts) : WriteOrder[j] = Parts[j]
    BY MailDirAssumption DEF WriteOrder
  <1>2. \A j \in 1..Len(Parts) : Parts[j] \in Payload /\ Parts[j] # Metadata
    BY MailDirAssumption DEF Payload
  <1>3. \A j \in 1..Len(WriteOrder) : j \in 1..Len(Parts) \/ j = Len(Parts) + 1
    BY <1>1
  <1> QED
    BY <1>1, <1>2, <1>3, MailDirAssumption DEF Payload

\* What a step of the writer that touches no file keeps.
LEMMA NoFileStep ==
  ASSUME TypeInv, SeenInv, WriterInv, UNCHANGED <<file, webVars>>
  PROVE  /\ SeenInv'
         /\ VisibleIsWhole'
         /\ \A m, e : Appeared(m, e)' <=> Appeared(m, e)
  <1>1. \A m, e : /\ Condemned(m, e)' <=> Condemned(m, e)
                  /\ Readable(m, e)' <=> Readable(m, e)
                  /\ \A f : Whole(m, e, f)' <=> Whole(m, e, f)
    BY DEF webVars, Condemned, Readable, Whole
  <1>2. \A m, e : Appeared(m, e)' <=> Appeared(m, e)
    BY <1>1 DEF Appeared
  <1>3. SeenInv'
    BY DEF SeenInv, SeenHasAppeared, ShownHasAppeared, CachedHasAppeared,
           ReadHasAppeared, DeletesAreCondemned, Appeared, Readable, Whole,
           Condemned, webVars
  <1>4. VisibleIsWhole'
    BY <1>1 DEF WriterInv, VisibleIsWhole
  <1> QED BY <1>2, <1>3, <1>4

LEMMA HandleRcptKeeps ==
  ASSUME TypeInv, SeenInv, WriterInv, UNCHANGED webVars,
         NEW a \in Addresses, HandleRcpt(a)
  PROVE  SeenInv' /\ WriterInv'
  <1>1. /\ smtp.pc = "rcpt" /\ smtp'.pc = "rcpt" /\ smtp'.id = smtp.id
        /\ smtp'.rcpts = Append(smtp.rcpts, a)
        /\ smtp.rcpts \in Seq(DOMAIN MailboxOf)
        /\ UNCHANGED <<drawn, acked, file>>
    BY DEF HandleRcpt, disk, TypeInv, SmtpTypeOK, Envelopes
  <1>2. /\ SeenInv' /\ VisibleIsWhole'
        /\ \A m, e : Appeared(m, e)' <=> Appeared(m, e)
    BY <1>1, NoFileStep
  <1>3. WrittenIsWhole' /\ DoneHasAppeared'
    BY <1>1 DEF WrittenIsWhole, Written, DoneHasAppeared, Done
  <1>4. PendingHasNotAppeared'
    BY <1>1, <1>2
    DEF WriterInv, PendingHasNotAppeared, Pending
  <1>5. SavedToDifferent'
    BY <1>1 DEF SavedToDifferent
  <1> QED BY <1>2, <1>3, <1>4, <1>5 DEF WriterInv

LEMMA BeginSaveKeeps ==
  ASSUME TypeInv, SeenInv, WriterInv, Repeats = {}, UNCHANGED webVars,
         NEW e \in Ids, BeginSave(e)
  PROVE  SeenInv' /\ WriterInv'
  <1>1. /\ smtp.pc = "rcpt" /\ smtp.k = 1 /\ e \notin drawn
        /\ smtp'.pc = "mkdir" /\ smtp'.id = e /\ smtp'.k = 1
        /\ smtp'.rcpts = smtp.rcpts /\ RecipientsDiffer
        /\ drawn' = drawn \cup {e}
        /\ UNCHANGED <<acked, file>>
    BY DEF BeginSave, disk, TypeInv, SmtpTypeOK, Envelopes
  <1>2. /\ SeenInv' /\ VisibleIsWhole'
        /\ \A m, d : Appeared(m, d)' <=> Appeared(m, d)
    BY <1>1, NoFileStep
  <1>3. WrittenIsWhole'
    BY <1>1 DEF WrittenIsWhole, Written
  <1>4. Done' = {}
    BY <1>1 DEF Done
  <1>5. \A m \in Mailboxes : ~Appeared(m, e)
    BY <1>1 DEF WriterInv, PendingHasNotAppeared
  <1>6. PendingHasNotAppeared'
    <2>1. \A j \in 1..Len(smtp'.rcpts) :
            MailboxOf[smtp'.rcpts[j]] \in Mailboxes
      BY <1>1, RecipientType DEF Recipient, TypeInv
    <2>2. \A j \in Pending' : j \in 1..Len(smtp'.rcpts)
      BY DEF Pending
    <2>3. \A m, d : d = e /\ m \in Mailboxes => ~Appeared(m, d)'
      BY <1>2, <1>5
    <2>4. \A j \in Pending' : ~Appeared(Recipient(j), smtp.id)'
      BY <1>1, <2>1, <2>2, <2>3
      DEF Recipient, Appeared, Readable, Whole, Condemned
    <2>5. \A m \in Mailboxes, d \in Ids \ drawn' : ~Appeared(m, d)'
      BY <1>1, <1>2 DEF WriterInv, PendingHasNotAppeared
    <2> QED BY <2>4, <2>5 DEF PendingHasNotAppeared
  <1>7. SavedToDifferent' /\ DoneHasAppeared'
    BY <1>1, <1>4
    DEF SavedToDifferent, RecipientsDiffer, Recipient, DoneHasAppeared
  <1> QED BY <1>2, <1>3, <1>6, <1>7 DEF WriterInv

\* Done and Pending, as sets of mailboxes: what the clauses about them need.
LEMMA CopiesOfStep ==
  ASSUME UNCHANGED <<file, condemned>>, smtp'.rcpts = smtp.rcpts,
         smtp'.id = smtp.id, UNCHANGED drawn, WriterInv, smtp.pc # "rcpt",
         Done' \subseteq Done, Pending' \subseteq Pending
  PROVE  DoneHasAppeared' /\ PendingHasNotAppeared' /\ SavedToDifferent'
  BY DEF WriterInv, DoneHasAppeared, PendingHasNotAppeared,
         SavedToDifferent, RecipientsDiffer, Recipient, Appeared, Readable,
         Whole, Condemned

LEMMA SaveMkdirKeeps ==
  ASSUME TypeInv, SeenInv, WriterInv, UNCHANGED webVars, SaveMkdir
  PROVE  SeenInv' /\ WriterInv'
  <1>1. /\ smtp.pc = "mkdir" /\ smtp'.pc = "open" /\ smtp'.i = 1
        /\ smtp'.id = smtp.id /\ smtp'.rcpts = smtp.rcpts /\ smtp'.k = smtp.k
        /\ UNCHANGED <<drawn, acked, file, condemned>>
    BY DEF SaveMkdir, MakeDir, TypeInv, SmtpTypeOK, Envelopes, webVars
  <1>2. SeenInv' /\ VisibleIsWhole'
    BY <1>1, NoFileStep
  <1>3. Written' = {}
    BY <1>1 DEF Written
  <1>4. WrittenIsWhole'
    BY <1>1, <1>3 DEF WrittenIsWhole
  <1>5. Done' = Done /\ Pending' = Pending
    BY <1>1 DEF Done, Pending
  <1> QED BY <1>1, <1>2, <1>4, <1>5, CopiesOfStep DEF WriterInv

LEMMA GiveUpKeeps ==
  ASSUME TypeInv, SeenInv, WriterInv, UNCHANGED webVars,
         Abandon \/ ReplyAccepted
  PROVE  SeenInv' /\ WriterInv'
  <1>1. /\ smtp'.pc = "rcpt" /\ smtp'.rcpts = << >>
        /\ UNCHANGED <<drawn, file, condemned>>
    BY DEF Abandon, ReplyAccepted, NewEnvelope, disk, webVars
  <1>2. /\ SeenInv' /\ VisibleIsWhole'
        /\ \A m, e : Appeared(m, e)' <=> Appeared(m, e)
    BY <1>1, NoFileStep
  <1>3. Written' = {} /\ Done' = {} /\ Pending' = {}
    BY <1>1 DEF Written, Done, Pending
  <1>4. WrittenIsWhole' /\ DoneHasAppeared' /\ SavedToDifferent'
    BY <1>1, <1>3 DEF WrittenIsWhole, DoneHasAppeared, SavedToDifferent
  <1>5. PendingHasNotAppeared'
    BY <1>1, <1>2, <1>3 DEF WriterInv, PendingHasNotAppeared
  <1> QED BY <1>2, <1>4, <1>5 DEF WriterInv

LEMMA SaveChmodKeeps ==
  ASSUME TypeInv, SeenInv, WriterInv, UNCHANGED webVars, SaveChmod
  PROVE  SeenInv' /\ WriterInv'
  <1>1. /\ smtp.pc = "chmod"
        /\ smtp'.id = smtp.id /\ smtp'.rcpts = smtp.rcpts
        /\ UNCHANGED <<drawn, acked, file, condemned>>
    BY DEF SaveChmod, disk, TypeInv, SmtpTypeOK, Envelopes, webVars
  <1>2. /\ SeenInv' /\ VisibleIsWhole'
        /\ \A m, e : Appeared(m, e)' <=> Appeared(m, e)
    BY <1>1, NoFileStep
  <1>3. /\ smtp.i \in 1..Len(WriteOrder) /\ Len(WriteOrder) \in Nat \ {0}
        /\ smtp.k \in 1..Len(smtp.rcpts) /\ Len(smtp.rcpts) \in Nat
    BY <1>1, OrderType DEF TypeInv, SmtpTypeOK, Envelopes
  <1>4. CASE smtp.i < Len(WriteOrder)
    <2>1. smtp'.pc = "open" /\ smtp'.k = smtp.k /\ smtp'.i = smtp.i + 1
      BY <1>4 DEF SaveChmod, TypeInv, SmtpTypeOK, Envelopes
    <2>2. Written' = Written
      BY <1>1, <1>3, <2>1 DEF Written
    <2>3. WrittenIsWhole'
      BY <1>1, <2>1, <2>2
      DEF WriterInv, WrittenIsWhole, Box, Recipient, Whole, Condemned
    <2>4. Done' = Done /\ Pending' = Pending
      BY <1>1, <1>4, <2>1 DEF Done, Pending
    <2> QED BY <1>1, <1>2, <2>3, <2>4, CopiesOfStep DEF WriterInv
  <1>5. CASE ~(smtp.i < Len(WriteOrder))
    <2>1. smtp.i = Len(WriteOrder)
      BY <1>3, <1>5
    <2>2. \/ smtp'.pc = "mkdir" /\ smtp'.k = smtp.k + 1
          \/ smtp'.pc = "reply" /\ smtp.k = Len(smtp.rcpts) /\ smtp'.k = smtp.k
      BY <1>3, <1>5 DEF SaveChmod, TypeInv, SmtpTypeOK, Envelopes
    <2>3. Written' = {} /\ smtp'.pc # "fill"
      BY <2>2 DEF Written
    <2>4. WrittenIsWhole'
      BY <2>3 DEF WrittenIsWhole
    <2>5. Appeared(Box, smtp.id)
      <3>1. smtp.i \in Written /\ WriteOrder[smtp.i] = Metadata
        BY <1>1, <1>3, <2>1, OrderFacts DEF Written
      <3> QED
        BY <3>1 DEF WriterInv, WrittenIsWhole, Appeared, Readable
    <2>6. \A j \in Done' : j \in Done \/ j = smtp.k
      BY <1>1, <1>3, <2>2 DEF Done
    <2>7. \A j \in Pending' : j \in Pending
      BY <1>1, <1>3, <2>2 DEF Pending
    <2>8. \A j \in Done' : Appeared(Recipient(j), smtp.id)
      BY <2>5, <2>6 DEF WriterInv, DoneHasAppeared, Box
    <2>9. DoneHasAppeared'
      BY <1>1, <2>8
      DEF DoneHasAppeared, Recipient, Appeared, Readable, Whole, Condemned
    <2>10. PendingHasNotAppeared' /\ SavedToDifferent'
      BY <1>1, <2>7
      DEF WriterInv, PendingHasNotAppeared, SavedToDifferent,
          RecipientsDiffer, Recipient, Appeared, Readable, Whole, Condemned
    <2> QED BY <1>2, <2>4, <2>9, <2>10 DEF WriterInv
  <1> QED BY <1>4, <1>5

\* A write goes to a copy that has not appeared, so nobody else can tell.
LEMMA WriteStep ==
  ASSUME TypeInv, SeenInv, WriterInv, UNCHANGED webVars,
         SaveOpen \/ SaveFill
  PROVE  /\ Box \in Mailboxes /\ smtp.id \in Ids /\ File \in Names
         /\ smtp.k \in Pending /\ ~Appeared(Box, smtp.id)
         /\ smtp'.id = smtp.id /\ smtp'.rcpts = smtp.rcpts
         /\ smtp'.k = smtp.k /\ smtp'.i = smtp.i
         /\ UNCHANGED <<drawn, acked, condemned>>
         /\ \A m \in Mailboxes, e \in Ids, f \in Names :
              m # Box \/ e # smtp.id \/ f # File =>
                file'[m][e][f] = file[m][e][f]
         /\ SeenInv' /\ SavedToDifferent'
         /\ \A j \in Done : Appeared(Recipient(j), smtp.id)'
         /\ \A j \in Pending \ {smtp.k} : ~Appeared(Recipient(j), smtp.id)'
         /\ \A m \in Mailboxes, e \in Ids \ drawn : ~Appeared(m, e)'
  <1> DEFINE id == smtp.id
  <1>1. /\ smtp.pc \in {"open", "fill"}
        /\ smtp'.id = smtp.id /\ smtp'.rcpts = smtp.rcpts
        /\ smtp'.k = smtp.k /\ smtp'.i = smtp.i
        /\ UNCHANGED <<drawn, acked, condemned>>
    BY DEF SaveOpen, SaveFill, TypeInv, SmtpTypeOK, Envelopes, webVars
  <1>2. /\ Box \in Mailboxes /\ id \in Ids /\ File \in Names
        /\ id \in drawn /\ smtp.k \in 1..Len(smtp.rcpts)
    BY <1>1, BoxType DEF TypeInv, SmtpTypeOK
  <1>3. smtp.k \in Pending
    BY <1>1, <1>2 DEF Pending
  <1>4. ~Appeared(Box, id)
    BY <1>3 DEF WriterInv, PendingHasNotAppeared, Box
  <1>5. \E c : file' = [file EXCEPT ![Box][id][File] = c]
    BY DEF SaveOpen, SaveFill, SetFile
  <1>6. \A m \in Mailboxes, e \in Ids, f \in Names :
          m # Box \/ e # id \/ f # File => file'[m][e][f] = file[m][e][f]
    BY <1>2, <1>5 DEF TypeInv, WebInv, DiskTypeOK
  <1> HIDE DEF id
  <1>7. ASSUME NEW m \in Mailboxes, NEW e \in Ids, m # Box \/ e # id
        PROVE  Appeared(m, e)' <=> Appeared(m, e)
    BY <1>1, <1>6, <1>7
    DEF Appeared, Readable, Whole, Condemned, Names
  <1>8. ASSUME NEW m \in Mailboxes, NEW e \in Ids, Appeared(m, e)
        PROVE  Appeared(m, e)'
    BY <1>4, <1>7, <1>8
  <1>9. SeenInv'
    <2>1. ShownHasAppeared'
      BY <1>8 DEF SeenInv, SeenHasAppeared, ShownHasAppeared, webVars,
                  TypeInv, WebInv, WebTypeOK
    <2>2. CachedHasAppeared'
      <3>1. \A m \in Mailboxes : \A x \in cache[m].emails :
              x[1] \in Ids /\ Appeared(m, x[1])
        BY DEF TypeInv, WebInv, WebTypeOK, CacheEntries, Lists, SeenInv,
               SeenHasAppeared, CachedHasAppeared
      <3> QED BY <1>8, <3>1 DEF CachedHasAppeared, webVars
    <2>3. ReadHasAppeared'
      <3>1. \A t \in Threads : thread[t].pc # "idle" =>
              /\ thread[t].mb \in Mailboxes
              /\ \A x \in thread[t].emails :
                   x[1] \in Ids /\ Appeared(thread[t].mb, x[1])
        BY BusyThread DEF TypeInv, Requests, Lists, SeenInv, SeenHasAppeared,
                          ReadHasAppeared
      <3>2. thread' = thread
        BY DEF webVars
      <3> QED
        BY <1>8, <3>1, <3>2
        DEF ReadHasAppeared, Appeared, Readable, Whole, Condemned
    <2>4. DeletesAreCondemned'
      BY DEF SeenInv, DeletesAreCondemned, Condemned, webVars
    <2> QED BY <2>1, <2>2, <2>3, <2>4 DEF SeenInv, SeenHasAppeared
  <1>11. SavedToDifferent'
    BY <1>1 DEF WriterInv, SavedToDifferent, RecipientsDiffer, Recipient
  <1>12. \A j \in 1..Len(smtp.rcpts) : Recipient(j) \in Mailboxes
    BY RecipientType DEF TypeInv
  <1>13. ASSUME NEW j \in Done
         PROVE  Appeared(Recipient(j), smtp.id)'
    <2>1. Recipient(j) \in Mailboxes /\ Appeared(Recipient(j), id)
      BY <1>12 DEF Done, WriterInv, DoneHasAppeared, id
    <2> QED
      BY <1>1, <1>2, <1>8, <2>1
      DEF id, Recipient, Appeared, Readable, Whole, Condemned
  <1>14. ASSUME NEW j \in Pending \ {smtp.k}
         PROVE  ~Appeared(Recipient(j), smtp.id)'
    <2>1. /\ j \in 1..Len(smtp.rcpts) /\ Recipient(j) \in Mailboxes
          /\ ~Appeared(Recipient(j), id)
      BY <1>12 DEF Pending, WriterInv, PendingHasNotAppeared, id
    <2>2. Recipient(j) # Box
      BY <1>1, <1>2, <2>1
      DEF WriterInv, SavedToDifferent, RecipientsDiffer, Box
    <2> QED
      BY <1>1, <1>2, <1>7, <2>1, <2>2
      DEF id, Recipient, Appeared, Readable, Whole, Condemned
  <1>15. \A m \in Mailboxes, e \in Ids \ drawn : ~Appeared(m, e)'
    BY <1>2, <1>7 DEF WriterInv, PendingHasNotAppeared
  <1> QED
    BY <1>1, <1>2, <1>3, <1>4, <1>6, <1>9, <1>11, <1>13, <1>14, <1>15
    DEF id

\* The other copies stay whole while the writer writes in its own.
LEMMA OthersStayWhole ==
  ASSUME TypeInv, SeenInv, WriterInv, UNCHANGED webVars, SaveOpen \/ SaveFill,
         NEW m \in Mailboxes, NEW e \in Ids, m # Box \/ e # smtp.id,
         Readable(m, e)'
  PROVE  Condemned(m, e)' \/ \A f \in Payload : Whole(m, e, f)'
  <1>1. \A f \in Names : file'[m][e][f] = file[m][e][f]
    BY WriteStep
  <1>2. condemned' = condemned
    BY WriteStep
  <1> QED
    BY <1>1, <1>2
    DEF WriterInv, VisibleIsWhole, Readable, Whole, Condemned, Names

\* The files the writer has finished stay as they are.
LEMMA WrittenStays ==
  ASSUME TypeInv, SeenInv, WriterInv, UNCHANGED webVars, SaveOpen \/ SaveFill,
         NEW j \in 1..(smtp.i - 1)
  PROVE  /\ Whole(Box, smtp.id, WriteOrder[j])
         /\ file'[Box][smtp.id][WriteOrder[j]] =
              file[Box][smtp.id][WriteOrder[j]]
  <1>1. /\ smtp.i \in 1..Len(WriteOrder) /\ j \in 1..Len(WriteOrder)
        /\ j # smtp.i
    BY OrderType DEF TypeInv, SmtpTypeOK, Envelopes
  <1>2. WriteOrder[j] \in Names /\ WriteOrder[j] # File
    BY <1>1, OrderType, OrderFacts DEF File
  <1>3. j \in Written
    BY DEF Written, SaveOpen, SaveFill
  <1>4. ~Condemned(Box, smtp.id)
    BY WriteStep DEF Appeared
  <1>5. Whole(Box, smtp.id, WriteOrder[j])
    BY <1>3, <1>4 DEF WriterInv, WrittenIsWhole
  <1> QED BY <1>2, <1>5, WriteStep

LEMMA SaveOpenKeeps ==
  ASSUME TypeInv, SeenInv, WriterInv, UNCHANGED webVars, SaveOpen
  PROVE  SeenInv' /\ WriterInv'
  <1>1. /\ Box \in Mailboxes /\ smtp.id \in Ids /\ File \in Names
        /\ smtp'.id = smtp.id /\ smtp'.rcpts = smtp.rcpts
        /\ smtp'.k = smtp.k /\ smtp'.i = smtp.i
        /\ smtp.pc = "open" /\ smtp'.pc = "fill"
        /\ ~Appeared(Box, smtp.id)
        /\ UNCHANGED <<drawn, condemned>>
    BY WriteStep DEF SaveOpen, TypeInv, SmtpTypeOK, Envelopes
  <1>2. file'[Box][smtp.id][File] = Torn
    BY <1>1 DEF SaveOpen, SetFile, TypeInv, WebInv, DiskTypeOK
  <1>3. ~Appeared(Box, smtp.id)'
    <2>1. Box' = Box /\ Metadata \in Names
      BY <1>1 DEF Box, Recipient, Names
    <2>2. file'[Box][smtp.id][Metadata] = Torn \/
          file'[Box][smtp.id][Metadata] = file[Box][smtp.id][Metadata]
      BY <1>1, <1>2, <2>1, WriteStep
    <2> QED
      BY <1>1, <2>1, <2>2
      DEF Appeared, Readable, Whole, Condemned, Torn
  <1>4. Box' = Box /\ File' = File /\ Written' = 1..(smtp.i - 1)
    BY <1>1 DEF Box, Recipient, File, Written
  <1>5. WrittenIsWhole'
    <2>1. \A j \in 1..(smtp.i - 1) : file'[Box][smtp.id][WriteOrder[j]] > Torn
      BY WrittenStays DEF Whole
    <2>2. file'[Box][smtp.id][File] # Absent
      BY <1>2 DEF Torn, Absent
    <2> QED
      BY <1>1, <1>4, <2>1, <2>2 DEF WrittenIsWhole, Whole, Present
  <1>6. Done' = Done /\ Pending' = Pending
    BY <1>1 DEF Done, Pending
  <1>7. DoneHasAppeared'
    BY <1>6, WriteStep DEF DoneHasAppeared
  <1>8. PendingHasNotAppeared'
    <2>1. \A j \in Pending' : ~Appeared(Recipient(j), smtp.id)'
      BY <1>1, <1>3, <1>6, WriteStep
      DEF Box, Recipient, Appeared, Readable, Whole, Condemned
    <2> QED BY <1>1, <2>1, WriteStep DEF PendingHasNotAppeared
  <1>9. VisibleIsWhole'
    <2>1. ASSUME NEW m \in Mailboxes, NEW e \in Ids, m = Box, e = smtp.id
          PROVE  ~Readable(m, e)'
      BY <1>1, <1>3, <1>4, <2>1 DEF Appeared, Readable, Whole, Condemned
    <2> QED BY <2>1, OthersStayWhole DEF VisibleIsWhole
  <1> QED
    BY <1>5, <1>7, <1>8, <1>9, WriteStep DEF WriterInv

LEMMA SaveFillKeeps ==
  ASSUME TypeInv, SeenInv, WriterInv, UNCHANGED webVars, SaveFill
  PROVE  SeenInv' /\ WriterInv'
  <1>1. /\ Box \in Mailboxes /\ smtp.id \in Ids /\ File \in Names
        /\ smtp'.id = smtp.id /\ smtp'.rcpts = smtp.rcpts
        /\ smtp'.k = smtp.k /\ smtp'.i = smtp.i
        /\ smtp.pc = "fill" /\ smtp'.pc = "chmod"
        /\ ~Appeared(Box, smtp.id)
        /\ UNCHANGED <<drawn, condemned>>
        /\ smtp.k \in Nat \ {0} /\ smtp.i \in 1..Len(WriteOrder)
    BY WriteStep DEF SaveFill, TypeInv, SmtpTypeOK, Envelopes
  <1>2. file'[Box][smtp.id][File] > Torn
    <2>1. File \in Present(Box, smtp.id)
      BY <1>1 DEF WriterInv, WrittenIsWhole, Appeared
    <2>2. file' = [file EXCEPT ![Box][smtp.id][File] = smtp.k]
      BY <2>1 DEF SaveFill, SetFile
    <2> QED
      BY <1>1, <2>2 DEF TypeInv, WebInv, DiskTypeOK, Torn
  <1>3. Box' = Box /\ File' = File /\ Written' = 1..smtp.i
    BY <1>1 DEF Box, Recipient, File, Written
  <1>4. \A j \in 1..smtp.i : file'[Box][smtp.id][WriteOrder[j]] > Torn
    <2>1. \A j \in 1..smtp.i : j \in 1..(smtp.i - 1) \/ j = smtp.i
      BY <1>1
    <2> QED BY <1>2, <2>1, WrittenStays DEF File, Whole
  <1>5. WrittenIsWhole'
    BY <1>1, <1>3, <1>4 DEF WrittenIsWhole, Whole
  <1>6. Done' = Done /\ Pending' \subseteq Pending
    BY <1>1 DEF Done, Pending
  <1>7. DoneHasAppeared'
    BY <1>6, WriteStep DEF DoneHasAppeared
  <1>8. smtp.i < Len(WriteOrder) => ~Appeared(Box, smtp.id)'
    <2>1. smtp.i < Len(WriteOrder) => File # Metadata
      BY <1>1, OrderFacts DEF File
    <2>2. smtp.i < Len(WriteOrder) =>
            file'[Box][smtp.id][Metadata] = file[Box][smtp.id][Metadata]
      BY <1>1, <2>1, WriteStep DEF Names
    <2> QED
      BY <1>1, <1>3, <2>2 DEF Appeared, Readable, Whole, Condemned
  <1>9. PendingHasNotAppeared'
    <2>1. smtp.k \in Pending' => smtp.i < Len(WriteOrder)
      BY <1>1 DEF Pending
    <2>2. \A j \in Pending' : ~Appeared(Recipient(j), smtp.id)'
      BY <1>1, <1>6, <1>8, <2>1, WriteStep
      DEF Box, Recipient, Appeared, Readable, Whole, Condemned
    <2> QED BY <1>1, <2>2, WriteStep DEF PendingHasNotAppeared
  <1>10. VisibleIsWhole'
    <2>1. ASSUME NEW m \in Mailboxes, NEW e \in Ids, m = Box, e = smtp.id,
                 Readable(m, e)'
          PROVE  \A f \in Payload : Whole(m, e, f)'
      <3>1. smtp.i = Len(WriteOrder)
        BY <1>1, <1>3, <1>8, <2>1
        DEF Appeared, Readable, Whole, Condemned
      <3> QED BY <1>4, <2>1, <3>1, OrderFacts DEF Whole
    <2> QED BY <2>1, OthersStayWhole DEF VisibleIsWhole
  <1> QED
    BY <1>5, <1>7, <1>9, <1>10, WriteStep DEF WriterInv

-----------------------------------------------------------------------------
(* The theorems about whole copies                                         *)

LEMMA WholeInvParts == WholeInv <=> SeenInv /\ WriterInv
  BY DEF WholeInv, SeenInv, WriterInv

LEMMA InitWhole == Init => WholeInv
  <1> SUFFICES ASSUME Init PROVE WholeInv
    OBVIOUS
  <1>1. /\ smtp.pc = "rcpt" /\ smtp.rcpts = << >> /\ acked = {}
        /\ condemned = {}
    BY DEF Init, SmtpInit, NewEnvelope, WebInit
  <1>2. \A m \in Mailboxes, e \in Ids : ~Appeared(m, e)
    BY <1>1
    DEF Init, DiskInit, Appeared, Readable, Whole, Condemned, Names, Absent,
        Torn
  <1>3. SeenInv
    BY DEF Init, WebInit, Idle, NoCache, SeenInv, SeenHasAppeared,
           ShownHasAppeared, CachedHasAppeared, ReadHasAppeared,
           DeletesAreCondemned
  <1>4. Written = {} /\ Done = {} /\ Pending = {}
    BY <1>1 DEF Written, Done, Pending
  <1>5. WriterInv
    BY <1>1, <1>2, <1>4
    DEF WriterInv, WrittenIsWhole, DoneHasAppeared, PendingHasNotAppeared,
        SavedToDifferent, VisibleIsWhole, Appeared
  <1> QED BY <1>3, <1>5, WholeInvParts

LEMMA NextWhole ==
  ASSUME Repeats = {}, TypeInv, TypeInv', WholeInv, [Next]_vars
  PROVE  WholeInv'
  <1>1. SeenInv /\ WriterInv
    BY WholeInvParts
  <1>2. CASE SmtpStep /\ UNCHANGED webVars
    <2>1. SeenInv' /\ WriterInv'
      BY <1>1, <1>2, HandleRcptKeeps, BeginSaveKeeps, SaveMkdirKeeps,
         SaveOpenKeeps, SaveFillKeeps, SaveChmodKeeps, GiveUpKeeps
      DEF SmtpStep
    <2> QED BY <2>1 DEF WholeInv, SeenInv, WriterInv
  <1>3. CASE WebStep /\ UNCHANGED smtpVars
    <2>1. CopiesKept
      BY <1>1, <1>3, WebKeeps DEF SeenInv
    <2>2. SeenInv' /\ WriterInv'
      BY <1>1, <1>3, <2>1, WebSeen, WebKeepsWriter
    <2> QED BY <2>2 DEF WholeInv, SeenInv, WriterInv
  <1>4. CASE UNCHANGED vars
    <2>1. UNCHANGED <<file, webVars>> /\ UNCHANGED smtpVars
      BY <1>4 DEF vars, disk
    <2>2. CopiesKept
      BY <2>1, KeptIfUnchanged DEF webVars
    <2>3. SeenInv' /\ WriterInv'
      BY <1>1, <2>1, <2>2, NoFileStep, WebKeepsWriter
    <2> QED BY <2>3 DEF WholeInv, SeenInv, WriterInv
  <1> QED BY <1>2, <1>3, <1>4 DEF Next

\* The inductive invariant: how far a copy has come follows from where its
\* writer, its readers and its deletes are, whatever the interleaving.
THEOREM SpecWholeInv == ASSUME Repeats = {} PROVE Spec => []WholeInv
  <1>1. TypeInv /\ TypeInv' /\ WholeInv /\ [Next]_vars => WholeInv'
    BY NextWhole
  <1> QED BY InitWhole, <1>1, SpecTypeInv, PTL DEF Spec

\* No reader ever finds a metadata.json that parses in a copy that lacks a
\* file or holds one half written, unless the copy is being deleted.
THEOREM VisibleCopiesAreWhole ==
  ASSUME Repeats = {} PROVE Spec => []VisibleIsWhole
  <1>1. WholeInv => VisibleIsWhole
    BY DEF WholeInv
  <1> QED BY SpecWholeInv, <1>1, PTL

LEMMA StepKeepsMeta ==
  ASSUME TypeInv, WholeInv, [Next]_vars,
         NEW m \in Mailboxes, NEW e \in Ids, Readable(m, e)
  PROVE  file'[m][e][Metadata] \in {file[m][e][Metadata], Absent}
  <1>1. Metadata \in Names
    BY DEF Names
  <1>2. ASSUME UNCHANGED file
        PROVE  file'[m][e][Metadata] = file[m][e][Metadata]
    BY <1>2
  <1>3. CASE SmtpStep /\ UNCHANGED webVars
    <2>1. CASE SaveOpen \/ SaveFill
      <3>1. m # Box \/ e # smtp.id
        BY <1>3, <2>1, WriteStep, WholeInvParts DEF Appeared
      <3> QED
        BY <1>1, <1>3, <2>1, <3>1, WriteStep, WholeInvParts
    <2>2. ASSUME NEW x, \/ HandleRcpt(x) \/ BeginSave(x) \/ SaveChmod
                        \/ Abandon \/ ReplyAccepted
          PROVE  UNCHANGED file
      BY <2>2
      DEF HandleRcpt, BeginSave, SaveChmod, Abandon, ReplyAccepted, disk
    <2>3. SaveMkdir => UNCHANGED file
      BY DEF SaveMkdir, MakeDir
    <2> QED BY <1>2, <1>3, <2>1, <2>2, <2>3 DEF SmtpStep
  <1>4. CASE WebStep /\ UNCHANGED smtpVars
    <2>1. ASSUME NEW t \in Threads, NEW f \in Names, DeleteUnlink(t, f)
          PROVE  file'[m][e][Metadata] \in {file[m][e][Metadata], Absent}
      <3>1. \/ UNCHANGED file
            \/ file' = [file EXCEPT ![thread[t].mb][thread[t].id][f] = Absent]
        BY <2>1 DEF DeleteUnlink, SetFile, disk
      <3>2. thread[t].mb \in Mailboxes /\ thread[t].id \in Ids
        BY <2>1
        DEF DeleteUnlink, At, TypeInv, WebInv, WebTypeOK, ThreadTypeOK
      <3>3. file \in [Mailboxes -> [Ids -> [Names -> Contents]]]
        BY DEF TypeInv, WebInv, DiskTypeOK
      <3>4. CASE UNCHANGED file
        BY <1>2, <3>4
      <3>5. CASE file' =
                   [file EXCEPT ![thread[t].mb][thread[t].id][f] = Absent]
        <4> DEFINE b == thread[t].mb
                   d == thread[t].id
        <4>1. file'[m][e][Metadata] =
                IF m = b /\ e = d /\ f = Metadata THEN Absent
                ELSE file[m][e][Metadata]
          BY <1>1, <3>2, <3>3, <3>5
        <4> HIDE DEF b, d
        <4> QED BY <4>1
      <3> QED BY <3>1, <3>4, <3>5
    <2>2. ASSUME NEW t \in Threads, Serve(t)
          PROVE  \/ UNCHANGED file
                 \/ \E f \in Names : DeleteUnlink(t, f)
      BY <2>2
      DEF Serve, ListLookup, ListCount, ListGlob, ListRead, ListStore,
          ListReply, DetailExists, DetailBody, DetailReply, DeleteScan,
          DeleteRmdir, RemoveDir, disk
    <2>3. ASSUME \/ \E t \in Threads, n \in Mailboxes : ListStat(t, n)
                 \/ \E t \in Threads, n \in Mailboxes, d \in Ids :
                      DetailMeta(t, n, d) \/ DeleteCheck(t, n, d)
                 \/ WebRestart
          PROVE  UNCHANGED file
      BY <2>3 DEF ListStat, DetailMeta, DeleteCheck, WebRestart, disk
    <2> QED BY <1>2, <1>4, <2>1, <2>2, <2>3 DEF WebStep
  <1>5. CASE UNCHANGED vars
    BY <1>2, <1>5 DEF vars, disk
  <1> QED BY <1>3, <1>4, <1>5 DEF Next

\* A metadata.json that parses is never truncated or replaced: all that can
\* happen to it is that a delete removes it.
THEOREM MetadataIsWrittenOnce ==
  ASSUME Repeats = {} PROVE Spec => MetaWriteOnce
  <1>1. TypeInv /\ WholeInv /\ [Next]_vars =>
          \A m \in Mailboxes, e \in Ids :
            Readable(m, e) =>
              file'[m][e][Metadata] \in {file[m][e][Metadata], Absent}
    BY StepKeepsMeta
  <1> QED
    BY <1>1, SpecTypeInv, SpecWholeInv, PTL DEF Spec, MetaWriteOnce

-----------------------------------------------------------------------------
(* What a 250 answer vouches for                                           *)

\* What no step does to any copy but the one being written: it does not take
\* back a delete, and only a condemned copy loses files.
FilesKept(m, e) ==
  /\ Condemned(m, e) => Condemned(m, e)'
  /\ \A f \in Names :
       /\ Whole(m, e, f) => Whole(m, e, f)' \/ Condemned(m, e)
       /\ f \in Present(m, e) => f \in Present(m, e)' \/ Condemned(m, e)

LEMMA WebKeepsFiles ==
  ASSUME TypeInv, DeletesAreCondemned, WebStep,
         NEW m \in Mailboxes, NEW e \in Ids
  PROVE  FilesKept(m, e)
  <1>1. CASE CopiesKept
    BY <1>1 DEF CopiesKept, FilesKept
  <1>2. ASSUME NEW t \in Threads, NEW n \in Mailboxes, NEW d \in Ids,
               DeleteCheck(t, n, d)
        PROVE  FilesKept(m, e)
    BY <1>2 DEF DeleteCheck, disk, FilesKept, Condemned, Whole, Present
  <1> QED BY <1>1, <1>2, WebKeepsOrChecks

\* A thread that becomes r deletes only what is condemned.
LEMMA ThreadKeepsDeletes ==
  ASSUME TypeInv, DeletesAreCondemned, condemned \subseteq condemned',
         NEW t \in Threads, NEW r, thread' = [thread EXCEPT ![t] = r],
         r.pc \in {"scan", "unlink"} => <<r.mb, r.id>> \in condemned'
  PROVE  DeletesAreCondemned'
  <1>1. \A s \in Threads : thread'[s] = IF s = t THEN r ELSE thread[s]
    BY DEF TypeInv, WebInv, WebTypeOK, ThreadTypeOK
  <1> QED BY <1>1 DEF DeletesAreCondemned, Condemned

LEMMA WebKeepsDeletes ==
  ASSUME TypeInv, DeletesAreCondemned, WebStep
  PROVE  DeletesAreCondemned'
  <1>1. ASSUME NEW t \in Threads, Finish(t), UNCHANGED condemned
        PROVE  DeletesAreCondemned'
    BY <1>1, ThreadKeepsDeletes DEF Finish, Idle
  <1>2. ASSUME NEW t \in Threads, NEW m \in Mailboxes, ListStat(t, m)
        PROVE  DeletesAreCondemned'
    <2> DEFINE r == thread'[t]
    <2>1. thread' = [thread EXCEPT ![t] = r] /\ r.pc \in {"listed", "lookup"}
      BY <1>2
      DEF ListStat, Idle, TypeInv, WebInv, WebTypeOK, ThreadTypeOK
    <2> QED BY <1>2, <2>1, ThreadKeepsDeletes DEF ListStat
  <1>3. ASSUME NEW t \in Threads, NEW m \in Mailboxes, NEW e \in Ids,
               DetailMeta(t, m, e)
        PROVE  DeletesAreCondemned'
    BY <1>3, ThreadKeepsDeletes DEF DetailMeta, Idle
  <1>4. ASSUME NEW t \in Threads, NEW m \in Mailboxes, NEW e \in Ids,
               DeleteCheck(t, m, e)
        PROVE  DeletesAreCondemned'
    BY <1>4, ThreadKeepsDeletes DEF DeleteCheck, Idle
  <1>5. ASSUME NEW t \in Threads, UNCHANGED condemned,
               \/ ListLookup(t) \/ ListCount(t) \/ ListGlob(t)
               \/ \E e \in Ids : ListRead(t, e)
               \/ ListStore(t) \/ DetailExists(t) \/ DetailBody(t)
        PROVE  DeletesAreCondemned'
    <2>1. thread \in [Threads -> Requests] /\ thread[t] \in Requests
      BY DEF TypeInv, WebInv, WebTypeOK, ThreadTypeOK
    <2>2. ASSUME NEW pc \in {"glob", "listed", "body", "detailed"},
                 thread' = [thread EXCEPT ![t].pc = pc]
          PROVE  DeletesAreCondemned'
      <3> DEFINE q == [thread[t] EXCEPT !.pc = pc]
      <3>1. thread' = [thread EXCEPT ![t] = q] /\ q.pc = pc
        BY <2>1, <2>2 DEF Requests
      <3> HIDE DEF q
      <3> QED BY <1>5, <3>1, ThreadKeepsDeletes
    <2>3. CASE ListLookup(t)
      <3> DEFINE c == cache[thread[t].mb]
                 q == [thread[t] EXCEPT !.pc     = "count",
                                        !.count  = c.count,
                                        !.emails = c.emails]
      <3>1. \/ thread' = [thread EXCEPT ![t] = q]
            \/ thread' = [thread EXCEPT ![t].pc = "glob"]
        BY <2>3 DEF ListLookup
      <3>2. q.pc = "count"
        BY <2>1 DEF Requests
      <3> HIDE DEF q
      <3> QED BY <1>5, <2>2, <3>1, <3>2, ThreadKeepsDeletes
    <2>4. CASE ListCount(t)
      BY <2>2, <2>4 DEF ListCount
    <2>5. CASE ListGlob(t)
      <3> DEFINE w == entries[thread[t].mb]
                 q == [thread[t] EXCEPT !.pc = "read", !.emails = {},
                                        !.todo = w]
      <3>1. thread' = [thread EXCEPT ![t] = q]
        BY <2>5 DEF ListGlob
      <3>2. q.pc = "read"
        BY <2>1 DEF Requests
      <3> HIDE DEF q
      <3> QED BY <1>5, <3>1, <3>2, ThreadKeepsDeletes
    <2>6. ASSUME NEW e \in Ids, ListRead(t, e)
          PROVE  DeletesAreCondemned'
      <3> DEFINE m == thread[t].mb
                 w == thread[t].todo \ {e}
                 x == <<e, file[m][e][Metadata]>>
                 l == IF Readable(m, e) THEN thread[t].emails \cup {x}
                                        ELSE thread[t].emails
                 q == [thread[t] EXCEPT !.todo = w, !.emails = l]
      <3>1. thread' = [thread EXCEPT ![t] = q] /\ thread[t].pc = "read"
        BY <2>6 DEF ListRead, At
      <3>2. q.pc = thread[t].pc
        BY <2>1 DEF Requests
      <3> HIDE DEF q
      <3> QED BY <1>5, <3>1, <3>2, ThreadKeepsDeletes
    <2>7. CASE ListStore(t)
      BY <2>2, <2>7 DEF ListStore
    <2>8. CASE DetailExists(t)
      BY <2>2, <2>8 DEF DetailExists
    <2>9. CASE DetailBody(t)
      <3> DEFINE text == file[thread[t].mb][thread[t].id][Body]
                 q    == [thread[t] EXCEPT !.pc = "detailed", !.text = text]
      <3>1. Finish(t) \/ thread' = [thread EXCEPT ![t] = q]
        BY <2>9 DEF DetailBody
      <3>2. q.pc = "detailed"
        BY <2>1 DEF Requests
      <3> HIDE DEF q
      <3> QED BY <1>1, <1>5, <3>1, <3>2, ThreadKeepsDeletes
    <2> QED BY <1>5, <2>3, <2>4, <2>5, <2>6, <2>7, <2>8, <2>9
  <1>6. ASSUME NEW t \in Threads, UNCHANGED condemned,
               \/ DeleteScan(t)
               \/ \E f \in Names : DeleteUnlink(t, f)
        PROVE  DeletesAreCondemned'
    <2> DEFINE r == thread'[t]
    <2>1. thread[t] \in Requests
      BY DEF TypeInv, WebInv, WebTypeOK, ThreadTypeOK
    <2>2. thread \in [Threads -> Requests]
      BY DEF TypeInv, WebInv, WebTypeOK, ThreadTypeOK
    <2>3. CASE DeleteScan(t)
      <3> DEFINE n  == thread[t].mb
                 e  == thread[t].id
                 f  == Present(n, e)
                 q  == [thread[t] EXCEPT !.pc = "unlink", !.files = f]
      <3>1. Finish(t) \/ thread' = [thread EXCEPT ![t] = q]
        BY <2>3 DEF DeleteScan
      <3>2. <<n, e>> \in condemned
        BY <2>3 DEF DeleteScan, At, DeletesAreCondemned, Condemned
      <3>3. q.mb = n /\ q.id = e
        BY <2>1 DEF Requests
      <3> HIDE DEF q, n, e
      <3> QED BY <1>1, <1>6, <3>1, <3>2, <3>3, ThreadKeepsDeletes
    <2>4. ASSUME NEW f \in Names, DeleteUnlink(t, f)
          PROVE  DeletesAreCondemned'
      <3> DEFINE n  == thread[t].mb
                 e  == thread[t].id
                 q  == [thread[t] EXCEPT !.files = thread[t].files \ {f}]
      <3>1. Finish(t) \/ thread' = [thread EXCEPT ![t] = q]
        BY <2>4 DEF DeleteUnlink
      <3>2. <<n, e>> \in condemned
        BY <2>4 DEF DeleteUnlink, At, DeletesAreCondemned, Condemned
      <3>3. q.mb = n /\ q.id = e
        BY <2>1 DEF Requests
      <3> HIDE DEF q, n, e
      <3> QED BY <1>1, <1>6, <3>1, <3>2, <3>3, ThreadKeepsDeletes
    <2> QED BY <1>6, <2>3, <2>4
  <1>7. CASE WebRestart
    BY <1>7 DEF WebRestart, DeletesAreCondemned, Idle
  <1>8. ASSUME NEW t \in Threads, Serve(t)
        PROVE  DeletesAreCondemned'
    <2>1. UNCHANGED condemned
      BY <1>8
      DEF Serve, ListLookup, ListCount, ListGlob, ListRead, ListStore,
          ListReply, DetailExists, DetailBody, DetailReply, DeleteScan,
          DeleteUnlink, DeleteRmdir
    <2>2. CASE ListReply(t) \/ DetailReply(t) \/ DeleteRmdir(t)
      BY <1>1, <2>1, <2>2 DEF ListReply, DetailReply, DeleteRmdir
    <2> QED BY <1>5, <1>6, <1>8, <2>1, <2>2 DEF Serve
  <1> QED BY <1>2, <1>3, <1>4, <1>7, <1>8 DEF WebStep

LEMMA WebKeepsAck ==
  ASSUME TypeInv, AckInv, WebStep, UNCHANGED smtpVars
  PROVE  AckInv'
  <1>1. \A m \in Mailboxes, e \in Ids : FilesKept(m, e)
    BY WebKeepsFiles DEF AckInv
  <1>2. UNCHANGED <<smtp, drawn, acked>> /\ SmtpTypeOK
    BY DEF smtpVars, TypeInv
  <1>3. DeletesAreCondemned'
    BY WebKeepsDeletes DEF AckInv
  <1>4. WrittenIsWhole'
    <2>1. Box' = Box /\ File' = File /\ Written' = Written
      BY <1>2 DEF Box, Recipient, File, Written
    <2>2. CASE smtp.pc \in {"open", "fill", "chmod"}
      <3>1. Box \in Mailboxes /\ smtp.id \in Ids /\ File \in Names
        BY <1>2, <2>2, BoxType
      <3>2. \A j \in Written : WriteOrder[j] \in Names
        BY <1>2, <2>2, OrderType DEF Written, SmtpTypeOK, Envelopes
      <3>3. FilesKept(Box, smtp.id)
        BY <1>1, <3>1
      <3> QED
        BY <1>2, <2>1, <3>1, <3>2, <3>3
        DEF AckInv, WrittenIsWhole, FilesKept, Whole, Present, Condemned
    <2>3. CASE smtp.pc \notin {"open", "fill", "chmod"}
      BY <1>2, <2>3 DEF WrittenIsWhole, Written
    <2> QED BY <2>2, <2>3
  <1>5. DoneIsWhole'
    <2>1. /\ Done' = Done /\ Box' = Box
          /\ \A j : Recipient(j)' = Recipient(j)
      BY <1>2 DEF Done, Box, Recipient
    <2>2. ASSUME NEW j \in Done
          PROVE  FilesKept(Recipient(j), smtp.id)
      BY <1>1, <1>2, RecipientType DEF Done, SmtpTypeOK, Envelopes
    <2> QED
      BY <1>2, <2>1, <2>2
      DEF AckInv, DoneIsWhole, FilesKept, Whole, Condemned, Recipient
  <1>6. AckedIsOld'
    BY <1>2 DEF AckInv, AckedIsOld
  <1>7. AckedIsStored'
    <2>1. \A x \in acked : FilesKept(x[1], x[2])
      BY <1>1, <1>2 DEF SmtpTypeOK
    <2> QED
      BY <1>2, <2>1 DEF AckInv, AckedIsStored, FilesKept
  <1> QED BY <1>3, <1>4, <1>5, <1>6, <1>7 DEF AckInv

\* A write goes to the copy in hand, of which nothing is vouched for yet.
LEMMA WriteKeepsAck ==
  ASSUME TypeInv, AckInv, SaveOpen \/ SaveFill, UNCHANGED webVars
  PROVE  AckInv'
  <1>1. /\ smtp.pc \in {"open", "fill"}
        /\ smtp'.id = smtp.id /\ smtp'.rcpts = smtp.rcpts
        /\ smtp'.k = smtp.k /\ smtp'.i = smtp.i
        /\ smtp'.pc \in {"fill", "chmod"}
        /\ UNCHANGED <<drawn, acked, condemned, thread>>
    BY DEF SaveOpen, SaveFill, TypeInv, SmtpTypeOK, Envelopes, webVars
  <1>2. /\ Box \in Mailboxes /\ smtp.id \in Ids /\ File \in Names
        /\ smtp.i \in 1..Len(WriteOrder) /\ smtp.k \in Nat \ {0}
    BY <1>1, BoxType DEF TypeInv, SmtpTypeOK, Envelopes
  <1>3. Box' = Box /\ File' = File /\ \A j : Recipient(j)' = Recipient(j)
    BY <1>1 DEF Box, Recipient, File
  <1>4. \A m \in Mailboxes, e \in Ids, f \in Names :
          m # Box \/ e # smtp.id \/ f # File =>
            file'[m][e][f] = file[m][e][f]
    BY <1>2
    DEF SaveOpen, SaveFill, SetFile, TypeInv, WebInv, DiskTypeOK
  <1>5. DeletesAreCondemned'
    BY <1>1 DEF AckInv, DeletesAreCondemned, Condemned
  <1>6. ASSUME NEW j \in 1..(smtp.i - 1)
        PROVE  \/ file'[Box][smtp.id][WriteOrder[j]] > Torn
               \/ Condemned(Box, smtp.id)
    <2>1. j \in 1..Len(WriteOrder) /\ j # smtp.i
      BY <1>2, OrderType
    <2>2. WriteOrder[j] \in Names /\ WriteOrder[j] # File
      BY <1>2, <2>1, OrderType, OrderFacts DEF File
    <2>3. j \in Written
      BY <1>1 DEF Written
    <2> QED
      BY <1>2, <1>4, <2>2, <2>3 DEF AckInv, WrittenIsWhole, Whole
  <1>7. WrittenIsWhole'
    <2>1. CASE SaveOpen
      <3>1. file'[Box][smtp.id][File] = Torn
        BY <1>2, <2>1 DEF SaveOpen, SetFile, TypeInv, WebInv, DiskTypeOK
      <3>2. smtp'.pc = "fill" /\ Written' = 1..(smtp.i - 1)
        BY <1>1, <2>1 DEF SaveOpen, Written, TypeInv, SmtpTypeOK, Envelopes
      <3> QED
        BY <1>1, <1>2, <1>3, <1>6, <3>1, <3>2
        DEF WrittenIsWhole, Whole, Condemned, Present, Torn, Absent
    <2>2. CASE SaveFill
      <3>1. smtp.pc = "fill" /\ smtp'.pc = "chmod" /\ Written' = 1..smtp.i
        BY <1>1, <2>2 DEF SaveFill, Written, TypeInv, SmtpTypeOK, Envelopes
      <3>2. \/ file'[Box][smtp.id][File] > Torn
            \/ Condemned(Box, smtp.id)
        <4>1. CASE File \in Present(Box, smtp.id)
          <5>1. file' = [file EXCEPT ![Box][smtp.id][File] = smtp.k]
            BY <2>2, <4>1 DEF SaveFill, SetFile
          <5> QED
            BY <1>2, <5>1 DEF TypeInv, WebInv, DiskTypeOK, Torn
        <4>2. CASE Condemned(Box, smtp.id)
          BY <4>2
        <4> QED BY <3>1, <4>1, <4>2 DEF AckInv, WrittenIsWhole
      <3>3. \A j \in 1..smtp.i : j \in 1..(smtp.i - 1) \/ j = smtp.i
        BY <1>2
      <3>4. \A j \in 1..smtp.i :
              \/ file'[Box][smtp.id][WriteOrder[j]] > Torn
              \/ Condemned(Box, smtp.id)
        BY <1>6, <3>2, <3>3 DEF File
      <3> QED
        BY <1>1, <1>3, <3>1, <3>4 DEF WrittenIsWhole, Whole, Condemned
    <2> QED BY <2>1, <2>2
  <1>8. DoneIsWhole'
    <2>1. Done' = Done
      BY <1>1 DEF Done
    <2>2. ASSUME NEW j \in Done
          PROVE  Recipient(j) \in Mailboxes
      BY RecipientType DEF Done, TypeInv
    <2> QED
      BY <1>1, <1>2, <1>3, <1>4, <2>1, <2>2
      DEF AckInv, DoneIsWhole, Whole, Condemned, Recipient
  <1>9. AckedIsOld'
    BY <1>1 DEF AckInv, AckedIsOld
  <1>10. AckedIsStored'
    <2>1. \A x \in acked :
            x[1] \in Mailboxes /\ x[2] \in Ids /\ x[2] # smtp.id
      BY <1>1 DEF AckInv, AckedIsOld, TypeInv, SmtpTypeOK
    <2> QED
      BY <1>1, <1>4, <2>1 DEF AckInv, AckedIsStored, Whole, Condemned
  <1> QED BY <1>5, <1>7, <1>8, <1>9, <1>10 DEF AckInv

LEMMA ChmodKeepsAck ==
  ASSUME TypeInv, AckInv, SaveChmod, UNCHANGED webVars
  PROVE  AckInv'
  <1>1. /\ smtp.pc = "chmod"
        /\ smtp'.id = smtp.id /\ smtp'.rcpts = smtp.rcpts
        /\ UNCHANGED <<drawn, acked, file, condemned, thread>>
    BY DEF SaveChmod, disk, TypeInv, SmtpTypeOK, Envelopes, webVars
  <1>2. /\ smtp.i \in 1..Len(WriteOrder) /\ Len(WriteOrder) \in Nat \ {0}
        /\ smtp.k \in 1..Len(smtp.rcpts) /\ Len(smtp.rcpts) \in Nat
    BY <1>1, OrderType DEF TypeInv, SmtpTypeOK, Envelopes
  <1>3. DeletesAreCondemned' /\ AckedIsStored'
    BY <1>1
    DEF AckInv, DeletesAreCondemned, AckedIsStored, Whole, Condemned
  <1>4. AckedIsOld'
    BY <1>1 DEF AckInv, AckedIsOld
  <1>5. CASE smtp.i < Len(WriteOrder)
    <2>1. smtp'.pc = "open" /\ smtp'.k = smtp.k /\ smtp'.i = smtp.i + 1
      BY <1>5 DEF SaveChmod, TypeInv, SmtpTypeOK, Envelopes
    <2>2. Written' = Written /\ Done' = Done
      BY <1>1, <1>2, <2>1 DEF Written, Done
    <2>3. WrittenIsWhole'
      BY <1>1, <2>1, <2>2
      DEF AckInv, WrittenIsWhole, Box, Recipient, Whole, Condemned
    <2>4. DoneIsWhole'
      BY <1>1, <2>1, <2>2
      DEF AckInv, DoneIsWhole, Box, Recipient, Whole, Condemned
    <2> QED BY <1>3, <1>4, <2>3, <2>4 DEF AckInv
  <1>6. CASE ~(smtp.i < Len(WriteOrder))
    <2>1. smtp.i = Len(WriteOrder)
      BY <1>2, <1>6
    <2>2. \/ smtp'.pc = "mkdir" /\ smtp'.k = smtp.k + 1
          \/ smtp'.pc = "reply" /\ smtp.k = Len(smtp.rcpts)
      BY <1>2, <1>6 DEF SaveChmod, TypeInv, SmtpTypeOK, Envelopes
    <2>3. WrittenIsWhole'
      BY <2>2 DEF WrittenIsWhole, Written
    <2>4. \/ Condemned(Box, smtp.id)
          \/ \A f \in Names : Whole(Box, smtp.id, f)
      <3>1. Written = 1..Len(WriteOrder)
        BY <1>1, <2>1 DEF Written
      <3>2. \A f \in Names : \E j \in 1..Len(WriteOrder) : f = WriteOrder[j]
        BY <1>2, OrderFacts DEF Names
      <3> QED BY <3>1, <3>2 DEF AckInv, WrittenIsWhole
    <2>5. \A j \in Done' : j \in Done \/ j = smtp.k
      BY <1>1, <1>2, <2>2 DEF Done
    <2>6. \A j \in Done' : \/ Condemned(Recipient(j), smtp.id)
                           \/ \A f \in Names : Whole(Recipient(j), smtp.id, f)
      BY <2>4, <2>5 DEF AckInv, DoneIsWhole, Box
    <2>7. DoneIsWhole'
      BY <1>1, <2>6 DEF DoneIsWhole, Recipient, Whole, Condemned
    <2> QED BY <1>3, <1>4, <2>3, <2>7 DEF AckInv
  <1> QED BY <1>5, <1>6

LEMMA EnvelopeKeepsAck ==
  ASSUME TypeInv, AckInv, UNCHANGED webVars,
         \/ \E a \in Addresses : HandleRcpt(a)
         \/ \E e \in Ids : BeginSave(e)
         \/ SaveMkdir \/ ReplyAccepted \/ Abandon
  PROVE  AckInv'
  <1>1. UNCHANGED <<file, condemned, thread>>
    BY DEF HandleRcpt, BeginSave, SaveMkdir, MakeDir, ReplyAccepted, Abandon,
           disk, webVars
  <1>2. DeletesAreCondemned'
    BY <1>1 DEF AckInv, DeletesAreCondemned, Condemned
  <1>3. \A x \in acked : \/ Condemned(x[1], x[2])'
                         \/ \A f \in Names : Whole(x[1], x[2], f)'
    BY <1>1 DEF AckInv, AckedIsStored, Whole, Condemned
  <1>4. ASSUME smtp'.pc = "rcpt", UNCHANGED <<drawn, acked>>
        PROVE  AckInv'
    <2>1. Written' = {} /\ Done' = {}
      BY <1>4 DEF Written, Done
    <2> QED
      BY <1>2, <1>3, <1>4, <2>1
      DEF AckInv, WrittenIsWhole, DoneIsWhole, AckedIsOld, AckedIsStored
  <1>5. ASSUME NEW a \in Addresses, HandleRcpt(a)
        PROVE  AckInv'
    BY <1>4, <1>5 DEF HandleRcpt, TypeInv, SmtpTypeOK, Envelopes
  <1>6. CASE Abandon
    BY <1>4, <1>6 DEF Abandon, NewEnvelope
  <1>7. ASSUME NEW e \in Ids, BeginSave(e)
        PROVE  AckInv'
    <2>1. /\ smtp.pc = "rcpt" /\ smtp.k = 1 /\ e \notin drawn
          /\ smtp'.pc = "mkdir" /\ smtp'.id = e /\ smtp'.k = 1
          /\ drawn' = drawn \cup {e} /\ acked' = acked
      BY <1>7 DEF BeginSave, TypeInv, SmtpTypeOK, Envelopes
    <2>2. Written' = {} /\ Done' = {}
      BY <2>1 DEF Written, Done
    <2>3. AckedIsOld'
      BY <2>1 DEF AckInv, AckedIsOld
    <2> QED
      BY <1>2, <1>3, <2>1, <2>2, <2>3
      DEF AckInv, WrittenIsWhole, DoneIsWhole, AckedIsStored
  <1>8. CASE SaveMkdir
    <2>1. /\ smtp.pc = "mkdir" /\ smtp'.pc = "open" /\ smtp'.i = 1
          /\ smtp'.id = smtp.id /\ smtp'.rcpts = smtp.rcpts
          /\ smtp'.k = smtp.k /\ UNCHANGED <<drawn, acked>>
      BY <1>8 DEF SaveMkdir, TypeInv, SmtpTypeOK, Envelopes
    <2>2. Written' = {} /\ Done' = Done
      BY <2>1 DEF Written, Done
    <2>3. AckedIsOld' /\ DoneIsWhole'
      BY <1>1, <2>1, <2>2
      DEF AckInv, AckedIsOld, DoneIsWhole, Recipient, Whole, Condemned
    <2> QED
      BY <1>2, <1>3, <2>1, <2>2, <2>3
      DEF AckInv, WrittenIsWhole, AckedIsStored
  <1>9. CASE ReplyAccepted
    <2>1. /\ smtp.pc = "reply" /\ smtp'.pc = "rcpt" /\ drawn' = drawn
          /\ acked' = acked \cup {<<m, smtp.id>> : m \in Recipients}
      BY <1>9 DEF ReplyAccepted, NewEnvelope
    <2>2. smtp.id \in drawn
      BY <2>1 DEF TypeInv, SmtpTypeOK
    <2>3. Written' = {} /\ Done' = {} /\ Done = 1..Len(smtp.rcpts)
      BY <2>1 DEF Written, Done
    <2>4. \A m \in Recipients : \/ Condemned(m, smtp.id)
                                \/ \A f \in Names : Whole(m, smtp.id, f)
      BY <2>1, <2>3 DEF AckInv, DoneIsWhole, Recipients
    <2>5. AckedIsStored'
      <3>1. \A x \in acked' : x \in acked \/ \E m \in Recipients :
                                                x = <<m, smtp.id>>
        BY <2>1
      <3>2. ASSUME NEW m \in Recipients
            PROVE  \/ <<m, smtp.id>> \in condemned'
                   \/ \A f \in Names : file'[m][smtp.id][f] > Torn
        <4>1. ASSUME NEW b, NEW e
              PROVE  /\ Condemned(b, e) => Condemned(b, e)'
                     /\ \A f : Whole(b, e, f) => Whole(b, e, f)'
          BY <1>1 DEF Whole, Condemned
        <4> QED BY <2>4, <4>1 DEF Whole, Condemned
      <3>3. ASSUME NEW x \in acked'
            PROVE  \/ Condemned(x[1], x[2])'
                   \/ \A f \in Names : Whole(x[1], x[2], f)'
        <4>1. CASE x \in acked
          BY <1>3, <4>1
        <4>2. ASSUME NEW m \in Recipients, x = <<m, smtp.id>>
              PROVE  \/ Condemned(x[1], x[2])'
                     \/ \A f \in Names : Whole(x[1], x[2], f)'
          <5>1. x[1] = m /\ x[2] = smtp.id
            BY <4>2
          <5> QED BY <3>2, <5>1 DEF Whole, Condemned
        <4> QED BY <3>1, <4>1, <4>2
      <3> QED BY <3>3 DEF AckedIsStored
    <2>6. AckedIsOld'
      BY <2>1, <2>2 DEF AckInv, AckedIsOld
    <2> QED
      BY <1>2, <2>1, <2>3, <2>5, <2>6
      DEF AckInv, WrittenIsWhole, DoneIsWhole
  <1> QED BY <1>5, <1>6, <1>7, <1>8, <1>9

THEOREM SpecAckInv == Spec => []AckInv
  <1>1. Init => AckInv
    BY DEF Init, SmtpInit, NewEnvelope, WebInit, Idle, AckInv,
           DeletesAreCondemned, WrittenIsWhole, Written, DoneIsWhole, Done,
           AckedIsOld, AckedIsStored
  <1>2. TypeInv /\ AckInv /\ [Next]_vars => AckInv'
    <2> SUFFICES ASSUME TypeInv, AckInv, [Next]_vars
                 PROVE  AckInv'
      OBVIOUS
    <2>1. CASE SmtpStep /\ UNCHANGED webVars
      BY <2>1, WriteKeepsAck, ChmodKeepsAck, EnvelopeKeepsAck DEF SmtpStep
    <2>2. CASE WebStep /\ UNCHANGED smtpVars
      BY <2>2, WebKeepsAck
    <2>3. CASE UNCHANGED vars
      BY <2>3
      DEF vars, disk, smtpVars, webVars, AckInv, DeletesAreCondemned,
          WrittenIsWhole, Written, Box, Recipient, File, DoneIsWhole, Done,
          AckedIsOld, AckedIsStored, Whole, Present, Condemned
    <2> QED BY <2>1, <2>2, <2>3 DEF Next
  <1> QED BY <1>1, <1>2, SpecTypeInv, PTL DEF Spec

\* A 250 answer is kept: every copy it vouches for has each of its files in
\* full until somebody deletes it, whatever is written, read, deleted, given
\* up or restarted afterwards, and whoever the message was addressed to.
THEOREM AckedCopiesAreStored == Spec => []AckedIsStored
  <1>1. AckInv => AckedIsStored
    BY DEF AckInv
  <1> QED BY SpecAckInv, <1>1, PTL

-----------------------------------------------------------------------------
(* The two processes implement Inbox                                       *)

Copies  == Mailboxes \X Ids
StateIs == [c \in Copies |-> StateOf(c[1], c[2])]
Listed  == {c \in Copies : c[2] \in shown[c[1]]}

LEMMA StateFacts ==
  \A m, e : /\ StateOf(m, e) # "none" <=> Appeared(m, e)
            /\ StateOf(m, e) = "deleted" <=> Condemned(m, e)
            /\ StateOf(m, e) \in {"none", "stored", "deleted"}
  BY DEF StateOf, Appeared

\* If no copy appears and none is condemned, its state stays as it is.
LEMMA StateStays ==
  ASSUME \A m \in Mailboxes, e \in Ids :
           /\ Condemned(m, e)' <=> Condemned(m, e)
           /\ Appeared(m, e)' <=> Appeared(m, e)
  PROVE  StateIs' = StateIs
  <1>1. ASSUME NEW m \in Mailboxes, NEW e \in Ids
        PROVE  StateOf(m, e)' = StateOf(m, e)
    BY DEF StateOf, Appeared
  <1> QED BY <1>1 DEF StateIs, Copies, StateOf, Condemned, Readable, Whole

States == {"none", "stored", "deleted"}

\* If the state of one copy moves to v, only that of StateIs does.
LEMMA StateMoves ==
  ASSUME NEW a \in Mailboxes, NEW d \in Ids, NEW v \in States,
         \A m \in Mailboxes, e \in Ids :
           StateOf(m, e)' = IF m = a /\ e = d THEN v ELSE StateOf(m, e)
  PROVE  StateIs' = [StateIs EXCEPT ![<<a, d>>] = v]
  <1>1. ASSUME NEW m \in Mailboxes, NEW e \in Ids
        PROVE  StateIs'[<<m, e>>] = IF m = a /\ e = d THEN v
                                    ELSE StateIs[<<m, e>>]
    BY DEF StateIs, Copies, StateOf, Condemned, Readable, Whole
  <1>2. StateIs \in [Copies -> States] /\ StateIs' \in [Copies -> States]
    BY DEF StateIs, States, StateOf, Condemned, Readable, Whole, Copies
  <1>3. ASSUME NEW c \in Copies
        PROVE  StateIs'[c] = IF c = <<a, d>> THEN v ELSE StateIs[c]
    <2>1. PICK m \in Mailboxes, e \in Ids : c = <<m, e>>
      BY DEF Copies
    <2> HIDE DEF StateIs
    <2> QED BY <1>1, <2>1
  <1> HIDE DEF StateIs
  <1> QED BY <1>2, <1>3

LEMMA PromiseStutter ==
  ASSUME UNCHANGED <<StateIs, acked, Listed>>
  PROVE  [Promise!Next]_(Promise!vars)
  BY DEF Promise!vars, StateIs, Listed, Copies

LEMMA PromiseDeliver ==
  ASSUME NEW c \in Copies, StateIs[c] = "none",
         StateIs' = [StateIs EXCEPT ![c] = "stored"],
         UNCHANGED <<acked, Listed>>
  PROVE  Promise!Next
  BY DEF Promise!Next, Promise!Deliver, StateIs, Listed, Copies

LEMMA PromiseDelete ==
  ASSUME NEW c \in Copies, c \in Listed, StateIs[c] = "stored",
         StateIs' = [StateIs EXCEPT ![c] = "deleted"],
         UNCHANGED <<acked, Listed>>
  PROVE  Promise!Next
  BY DEF Promise!Next, Promise!Delete, StateIs, Listed, Copies

LEMMA PromiseVouch ==
  ASSUME NEW S, \A c \in S : c \in Copies /\ StateIs[c] # "none",
         acked' = acked \cup S, UNCHANGED <<StateIs, Listed>>
  PROVE  Promise!Next
  <1>1. S \in SUBSET Promise!Known
    BY DEF Promise!Known, StateIs, Copies
  <1> QED
    BY <1>1 DEF Promise!Next, Promise!Vouch, StateIs, Listed, Copies

LEMMA PromiseList ==
  ASSUME NEW S, \A c \in S : c \in Copies /\ StateIs[c] # "none",
         Listed' = Listed \cup S, UNCHANGED <<StateIs, acked>>
  PROVE  Promise!Next
  <1>1. S \in SUBSET Promise!Known
    BY DEF Promise!Known, StateIs, Copies
  <1> QED
    BY <1>1 DEF Promise!Next, Promise!List, StateIs, Listed, Copies

LEMMA InitPromise == Init => Promise!Init
  <1> SUFFICES ASSUME Init PROVE Promise!Init
    OBVIOUS
  <1>1. \A m \in Mailboxes, e \in Ids : ~Appeared(m, e)
    BY InitWhole DEF WholeInv, PendingHasNotAppeared, Init, SmtpInit
  <1>2. \A m \in Mailboxes, e \in Ids : StateOf(m, e) = "none"
    BY <1>1, StateFacts
  <1> QED
    BY <1>2 DEF Promise!Init, Init, SmtpInit, WebInit

LEMMA ListedStays == UNCHANGED shown => Listed' = Listed
  BY DEF Listed, Copies

LEMMA WebPromise ==
  ASSUME TypeInv, CopiesKept, WholeInv, WebStep, UNCHANGED smtpVars
  PROVE  [Promise!Next]_(Promise!vars)
  <1>1. acked' = acked
    BY DEF smtpVars
  <1>2. ASSUME UNCHANGED condemned
        PROVE  StateIs' = StateIs
    BY <1>2, StateStays DEF CopiesKept, Condemned
  <1>3. ASSUME UNCHANGED <<condemned, shown>>
        PROVE  [Promise!Next]_(Promise!vars)
    BY <1>1, <1>2, <1>3, ListedStays, PromiseStutter
  <1>4. ASSUME NEW t \in Threads, ListReply(t)
        PROVE  [Promise!Next]_(Promise!vars)
    <2> DEFINE b == thread[t].mb
               S == {<<b, e>> : e \in IdsOf(thread[t].emails)}
    <2>1. /\ thread[t] \in Requests /\ b \in Mailboxes
          /\ thread[t].pc # "idle"
      BY <1>4, BusyThread DEF ListReply, At, TypeInv
    <2>2. \A e \in IdsOf(thread[t].emails) : e \in Ids /\ Appeared(b, e)
      BY <2>1
      DEF WholeInv, SeenHasAppeared, ReadHasAppeared, IdsOf, Requests, Lists
    <2>3. \A c \in S : c \in Copies /\ StateIs[c] # "none"
      BY <2>1, <2>2, StateFacts DEF Copies, StateIs
    <2>4. Listed' = Listed \cup S
      <3>1. \A m \in Mailboxes :
              shown'[m] = IF m = b THEN shown[m] \cup IdsOf(thread[t].emails)
                                   ELSE shown[m]
        BY <1>4 DEF ListReply, TypeInv, WebInv, WebTypeOK
      <3>2. ASSUME NEW m \in Mailboxes, NEW e \in Ids
            PROVE  e \in shown'[m] <=> e \in shown[m] \/ <<m, e>> \in S
        BY <3>1
      <3>3. \A c \in S : c \in Copies
        BY <2>3
      <3> HIDE DEF b, S
      <3> QED BY <3>2, <3>3 DEF Listed, Copies
    <2>5. StateIs' = StateIs
      BY <1>2, <1>4 DEF ListReply
    <2> HIDE DEF S
    <2> QED BY <1>1, <2>3, <2>4, <2>5, PromiseList
  <1>5. ASSUME NEW t \in Threads, NEW m \in Mailboxes, NEW e \in Ids,
               DeleteCheck(t, m, e)
        PROVE  [Promise!Next]_(Promise!vars)
    <2>1. /\ e \in shown[m] /\ shown' = shown
          /\ condemned' = condemned \cup {<<m, e>>}
      BY <1>5 DEF DeleteCheck
    <2>2. CASE Condemned(m, e)
      BY <1>3, <2>1, <2>2 DEF Condemned
    <2>3. CASE ~Condemned(m, e)
      <3> DEFINE c == <<m, e>>
      <3>1. c \in Copies /\ c \in Listed
        BY <2>1 DEF Copies, Listed
      <3>2. StateIs[c] = "stored"
        <4>1. Appeared(m, e)
          BY <2>1 DEF WholeInv, SeenHasAppeared, ShownHasAppeared
        <4> QED BY <2>3, <3>1, <4>1, StateFacts DEF StateIs, Copies
      <3>3. StateIs' = [StateIs EXCEPT ![c] = "deleted"]
        <4>1. ASSUME NEW n \in Mailboxes, NEW d \in Ids
              PROVE  StateOf(n, d)' = IF n = m /\ d = e THEN "deleted"
                                      ELSE StateOf(n, d)
          <5>1. Condemned(n, d)' <=> Condemned(n, d) \/ (n = m /\ d = e)
            BY <2>1 DEF Condemned
          <5>2. Appeared(n, d)' <=> Appeared(n, d)
            BY DEF CopiesKept
          <5> QED BY <5>1, <5>2 DEF StateOf, Appeared
        <4> QED
          BY <4>1, StateMoves DEF States, StateOf, Condemned, Readable, Whole
      <3> HIDE DEF c
      <3> QED
        BY <1>1, <2>1, <3>1, <3>2, <3>3, ListedStays, PromiseDelete
    <2> QED BY <2>2, <2>3
  <1>6. ASSUME NEW t \in Threads, Serve(t)
        PROVE  ListReply(t) \/ UNCHANGED <<condemned, shown>>
    BY <1>6
    DEF Serve, ListLookup, ListCount, ListGlob, ListRead, ListStore,
        DetailExists, DetailBody, DetailReply, DeleteScan, DeleteUnlink,
        DeleteRmdir
  <1>7. ASSUME \/ \E t \in Threads, m \in Mailboxes : ListStat(t, m)
               \/ \E t \in Threads, m \in Mailboxes, e \in Ids :
                    DetailMeta(t, m, e)
               \/ WebRestart
        PROVE  UNCHANGED <<condemned, shown>>
    BY <1>7 DEF ListStat, DetailMeta, WebRestart
  <1> QED
    BY <1>3, <1>4, <1>5, <1>6, <1>7 DEF WebStep

LEMMA WritePromise ==
  ASSUME TypeInv, WholeInv, UNCHANGED webVars, SaveOpen \/ SaveFill
  PROVE  [Promise!Next]_(Promise!vars)
  <1> DEFINE a == Box
             d == smtp.id
  <1>1. /\ a \in Mailboxes /\ d \in Ids /\ ~Appeared(a, d)
        /\ UNCHANGED <<acked, condemned>>
        /\ \A m \in Mailboxes, e \in Ids :
             m # a \/ e # d => file'[m][e][Metadata] = file[m][e][Metadata]
    BY WriteStep, WholeInvParts DEF Names
  <1>2. UNCHANGED <<acked, Listed>>
    BY <1>1, ListedStays DEF webVars
  <1> HIDE DEF a, d
  <1> DEFINE c == <<a, d>>
             v == IF file'[a][d][Metadata] > Torn THEN "stored" ELSE "none"
  <1>3. c \in Copies /\ StateIs[c] = "none" /\ v \in States
    BY <1>1, StateFacts DEF Copies, StateIs, States
  <1>4. StateIs' = [StateIs EXCEPT ![<<a, d>>] = v]
    <2>1. ASSUME NEW n \in Mailboxes, NEW x \in Ids
          PROVE  StateOf(n, x)' = IF n = a /\ x = d THEN v ELSE StateOf(n, x)
      BY <1>1 DEF StateOf, Appeared, Readable, Whole, Condemned
    <2> HIDE DEF v
    <2> QED
      BY <1>1, <1>3, <2>1, StateMoves DEF StateOf, Readable, Whole, Condemned
  <1>5. CASE v = "stored"
    <2> HIDE DEF c, v
    <2>1. StateIs' = [StateIs EXCEPT ![c] = "stored"]
      BY <1>4, <1>5 DEF c
    <2> QED BY <1>2, <1>3, <2>1, PromiseDeliver
  <1>6. CASE v = "none"
    <2>1. StateIs' = StateIs
      <3>1. \A x \in Copies : StateIs'[x] = StateIs[x]
        <4> HIDE DEF v, StateIs
        <4>1. StateIs \in [Copies -> States]
          BY DEF StateIs, States, StateOf
        <4> QED BY <1>3, <1>4, <1>6, <4>1
      <3> QED BY <3>1 DEF StateIs
    <2> QED BY <1>2, <2>1, PromiseStutter
  <1> QED BY <1>3, <1>5, <1>6 DEF States

LEMMA SmtpPromise ==
  ASSUME TypeInv, WholeInv, SmtpStep, UNCHANGED webVars
  PROVE  [Promise!Next]_(Promise!vars)
  <1>1. ASSUME UNCHANGED file
        PROVE  UNCHANGED <<StateIs, Listed>>
    <2>1. \A m, e : Appeared(m, e)' <=> Appeared(m, e)
      BY <1>1, NoFileStep, WholeInvParts
    <2>2. \A m, e : Condemned(m, e)' <=> Condemned(m, e)
      BY DEF webVars, Condemned
    <2> QED BY <2>1, <2>2, StateStays, ListedStays DEF webVars
  <1>2. CASE ReplyAccepted
    <2> DEFINE S == {<<m, smtp.id>> : m \in Recipients}
    <2>1. /\ smtp.pc = "reply" /\ smtp.id \in Ids
          /\ acked' = acked \cup S /\ UNCHANGED file
      BY <1>2 DEF ReplyAccepted, TypeInv, SmtpTypeOK, disk
    <2>2. \A j \in 1..Len(smtp.rcpts) : /\ Recipient(j) \in Mailboxes
                                        /\ Appeared(Recipient(j), smtp.id)
      <3>1. Done = 1..Len(smtp.rcpts)
        BY <2>1 DEF Done
      <3>2. \A j \in 1..Len(smtp.rcpts) : Appeared(Recipient(j), smtp.id)
        BY <3>1 DEF WholeInv, DoneHasAppeared
      <3>3. \A j \in 1..Len(smtp.rcpts) : Recipient(j) \in Mailboxes
        BY RecipientType DEF TypeInv
      <3> QED BY <3>2, <3>3
    <2>3. \A x \in S : x \in Copies /\ StateIs[x] # "none"
      BY <2>1, <2>2, StateFacts DEF Recipients, Copies, StateIs
    <2> HIDE DEF S
    <2> QED BY <1>1, <2>1, <2>3, PromiseVouch
  <1>3. CASE SaveOpen \/ SaveFill
    BY <1>3, WritePromise
  <1>4. ASSUME UNCHANGED <<file, acked>>
        PROVE  [Promise!Next]_(Promise!vars)
    BY <1>1, <1>4, PromiseStutter
  <1>5. ASSUME NEW x, HandleRcpt(x) \/ BeginSave(x) \/ SaveChmod \/ Abandon
        PROVE  UNCHANGED <<file, acked>>
    BY <1>5 DEF HandleRcpt, BeginSave, SaveChmod, Abandon, disk
  <1>6. ASSUME SaveMkdir
        PROVE  UNCHANGED <<file, acked>>
    BY <1>6 DEF SaveMkdir, MakeDir
  <1> QED BY <1>2, <1>3, <1>4, <1>5, <1>6 DEF SmtpStep

\* What the two processes do is, step by step, what Inbox allows: copies
\* appear at once, are vouched for and listed only after that, and leave only
\* by a delete, for good, if no sender repeats a recipient.
THEOREM ImplementsPromise == ASSUME Repeats = {} PROVE Spec => ImplementsInbox
  <1>1. TypeInv /\ WholeInv /\ [Next]_vars => [Promise!Next]_(Promise!vars)
    <2> SUFFICES ASSUME TypeInv, WholeInv, [Next]_vars
                 PROVE  [Promise!Next]_(Promise!vars)
      OBVIOUS
    <2>1. CASE SmtpStep /\ UNCHANGED webVars
      BY <2>1, SmtpPromise
    <2>2. CASE WebStep /\ UNCHANGED smtpVars
      <3>1. CopiesKept
        BY <2>2, WebKeeps, WholeInvParts DEF SeenInv
      <3> QED BY <2>2, <3>1, WebPromise
    <2>3. CASE UNCHANGED vars
      <3>1. UNCHANGED <<file, webVars>> /\ UNCHANGED acked
        BY <2>3 DEF vars, disk, smtpVars
      <3>2. StateIs' = StateIs
        BY <3>1, KeptIfUnchanged, StateStays DEF webVars, CopiesKept, Condemned
      <3> QED BY <3>1, <3>2, ListedStays, PromiseStutter DEF webVars
    <2> QED BY <2>1, <2>2, <2>3 DEF Next
  <1> QED
    BY InitPromise, <1>1, SpecTypeInv, SpecWholeInv, PTL
    DEF Spec, ImplementsInbox, Promise!Spec
=============================================================================
