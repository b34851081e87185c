------------------------------- MODULE WebMail -------------------------------
(***************************************************************************)
(* The mail routes of the web process (web/app.py) and the EmailStorage    *)
(* methods behind them (common/storage.py): list_emails with its cache,    *)
(* get_email with get_body_text, and delete_email.                         *)
(*                                                                         *)
(* The routes are plain def functions, so each request runs on a thread of *)
(* FastAPI's pool.  A step of a thread is one system call, or one access   *)
(* to _list_cache, which no lock protects.                                 *)
(***************************************************************************)
EXTENDS MailDir

CONSTANTS
  Threads,      \* the threads of the pool: bounds the requests in progress
  Body,         \* the file of Payload a detail view reads after metadata.json
  Workload      \* what the browsers and the operator do in a run

ASSUME WebAssumption ==
  /\ Body \in Payload
  /\ Workload \subseteq {"list", "detail", "delete", "restart"}

VARIABLES
  cache,        \* EmailStorage._list_cache
  thread,       \* the request each thread serves
  shown,        \* shown[m]: ids that the replies to GET /api/emails contained
  condemned,    \* history: the copies some delete_email has found to exist
  removed       \* history: the copies some delete_email has removed (204)

webVars == <<cache, thread, shown, condemned, removed>>

\* A list of emails is the set of its <<id, contents of metadata.json>>.
Lists    == SUBSET (Ids \X Nat)
IdsOf(l) == {x[1] : x \in l}

NoCache      == [mtime |-> 0, count |-> 0, emails |-> {}]
CacheEntries == [mtime : Nat, count : Nat, emails : Lists]

(***************************************************************************)
(* thread[t].pc is "idle", the next system call of the request, or         *)
(* "listed" and "detailed": the handler has its result and the reply is    *)
(* about to leave.  The fields had and gone are history: the ids a list    *)
(* request should find, and should not, as of its first system call.       *)
(***************************************************************************)
Requests ==
  [pc     : {"idle", "lookup", "count", "glob", "read", "listed",
             "exists", "body", "detailed", "scan", "unlink"},
   mb     : Mailboxes \cup {"none"},
   id     : Ids \cup {"none"},
   stat   : Nat,              \* current_mtime_ns
   count  : Nat,              \* cached_count
   emails : Lists,            \* cached_emails, then emails
   todo   : SUBSET Ids,       \* directories the glob has still to visit
   files  : SUBSET Names,     \* files rmtree has still to unlink
   text   : Contents,         \* what get_body_text returned
   had    : SUBSET Ids,
   gone   : SUBSET Ids]

Idle == [pc |-> "idle", mb |-> "none", id |-> "none", stat |-> 0, count |-> 0,
         emails |-> {}, todo |-> {}, files |-> {}, text |-> Absent,
         had |-> {}, gone |-> {}]

ThreadTypeOK ==
  /\ thread \in [Threads -> Requests]
  /\ \A t \in Threads :
       /\ thread[t].pc # "idle" => thread[t].mb \in Mailboxes
       /\ thread[t].pc \in {"exists", "body", "detailed",
                            "scan", "unlink"} => thread[t].id \in Ids

WebTypeOK ==
  /\ ThreadTypeOK
  /\ cache     \in [Mailboxes -> CacheEntries]
  /\ shown     \in [Mailboxes -> SUBSET Ids]
  /\ condemned \subseteq Mailboxes \X Ids
  /\ removed   \subseteq Mailboxes \X Ids

WebInit ==
  /\ cache     = [m \in Mailboxes |-> NoCache]
  /\ thread    = [t \in Threads |-> Idle]
  /\ shown     = [m \in Mailboxes |-> {}]
  /\ condemned = {}
  /\ removed   = {}

At(t, pc) == thread[t].pc = pc

Finish(t) == thread' = [thread EXCEPT ![t] = Idle]

-----------------------------------------------------------------------------
(* GET /api/emails: list_emails                                            *)

\* A mailbox whose emails/ does not exist is empty, whatever the cache says.
ListStat(t, m) ==
  /\ "list" \in Workload
  /\ At(t, "idle")
  /\ thread' = [thread EXCEPT ![t] =
       [Idle EXCEPT !.pc   = IF mtime[m] = 0 THEN "listed" ELSE "lookup",
                    !.mb   = m,
                    !.stat = mtime[m],
                    !.had  = {e \in Ids : Readable(m, e)
                                            /\ <<m, e>> \notin condemned},
                    !.gone = {e \in Ids : <<m, e>> \in removed}]]
  /\ UNCHANGED <<cache, shown, condemned, removed, disk>>

\* Mutant: whatever is cached is good enough, without regard to mtime.
ListLookupAnyMtime(t) ==
  /\ At(t, "lookup")
  /\ LET c == cache[thread[t].mb]
     IN  thread' = IF c # NoCache
                     THEN [thread EXCEPT ![t] =
                            [@ EXCEPT !.pc     = "count",
                                      !.count  = c.count,
                                      !.emails = c.emails]]
                     ELSE [thread EXCEPT ![t].pc = "glob"]
  /\ UNCHANGED <<cache, shown, condemned, removed, disk>>

\* The cached tuple is taken apart here; the dict may change afterwards.
ListLookup(t) ==
  /\ At(t, "lookup")
  /\ LET c == cache[thread[t].mb]
     IN  thread' = IF c.mtime = thread[t].stat
                     THEN [thread EXCEPT ![t] =
                            [@ EXCEPT !.pc     = "count",
                                      !.count  = c.count,
                                      !.emails = c.emails]]
                     ELSE [thread EXCEPT ![t].pc = "glob"]
  /\ UNCHANGED <<cache, shown, condemned, removed, disk>>

\* Mutant: an equal mtime is enough, without the tie-breaker.
ListCountIgnored(t) ==
  /\ At(t, "count")
  /\ thread' = [thread EXCEPT ![t].pc = "listed"]
  /\ UNCHANGED <<cache, shown, condemned, removed, disk>>

ListCount(t) ==
  /\ At(t, "count")
  /\ thread' = [thread EXCEPT ![t].pc =
       IF Cardinality(entries[thread[t].mb]) = thread[t].count
         THEN "listed" ELSE "glob"]
  /\ UNCHANGED <<cache, shown, condemned, removed, disk>>

\* glob reads the names in emails/ at once and visits them one by one.
ListGlob(t) ==
  /\ At(t, "glob")
  /\ thread' = [thread EXCEPT ![t] =
       [@ EXCEPT !.pc     = "read",
                 !.emails = {},
                 !.todo   = entries[thread[t].mb]]]
  /\ UNCHANGED <<cache, shown, condemned, removed, disk>>

\* Mutant: a directory is listed whatever its metadata.json holds.
ListReadAny(t, e) ==
  /\ At(t, "read")
  /\ e \in thread[t].todo
  /\ LET r == thread[t]  m == r.mb
     IN  thread' = [thread EXCEPT ![t] =
           [r EXCEPT !.todo   = r.todo \ {e},
                     !.emails = r.emails \cup {<<e, file[m][e][Metadata]>>}]]
  /\ UNCHANGED <<cache, shown, condemned, removed, disk>>

\* A metadata.json that is absent or does not parse is skipped.
ListRead(t, e) ==
  /\ At(t, "read")
  /\ e \in thread[t].todo
  /\ LET r == thread[t]  m == r.mb
     IN  thread' = [thread EXCEPT ![t] =
           [r EXCEPT !.todo   = r.todo \ {e},
                     !.emails = IF Readable(m, e)
                       THEN r.emails \cup {<<e, file[m][e][Metadata]>>}
                       ELSE r.emails]]
  /\ UNCHANGED <<cache, shown, condemned, removed, disk>>

\* Mutant: the number of directories is cached, not of emails read.
ListStoreCountsDirs(t) ==
  /\ At(t, "read")
  /\ thread[t].todo = {}
  /\ cache' = [cache EXCEPT ![thread[t].mb] =
       [mtime  |-> thread[t].stat,
        count  |-> Cardinality(entries[thread[t].mb]),
        emails |-> thread[t].emails]]
  /\ thread' = [thread EXCEPT ![t].pc = "listed"]
  /\ UNCHANGED <<shown, condemned, removed, disk>>

\* The entry carries the mtime read before the scan and the number of emails
\* read, not the number of directories.
ListStore(t) ==
  /\ At(t, "read")
  /\ thread[t].todo = {}
  /\ cache' = [cache EXCEPT ![thread[t].mb] =
       [mtime  |-> thread[t].stat,
        count  |-> Cardinality(thread[t].emails),
        emails |-> thread[t].emails]]
  /\ thread' = [thread EXCEPT ![t].pc = "listed"]
  /\ UNCHANGED <<shown, condemned, removed, disk>>

ListReply(t) ==
  /\ At(t, "listed")
  /\ shown' = [shown EXCEPT ![thread[t].mb] = @ \cup IdsOf(thread[t].emails)]
  /\ Finish(t)
  /\ UNCHANGED <<cache, condemned, removed, disk>>

-----------------------------------------------------------------------------
(* GET /api/emails/{id}: get_email, then get_body_text                     *)

\* Absent is 404, and so is torn: JSONDecodeError is a ValueError.
DetailMeta(t, m, e) ==
  /\ "detail" \in Workload
  /\ At(t, "idle")
  /\ e \in shown[m]
  /\ Readable(m, e)
  /\ thread' = [thread EXCEPT ![t] =
       [Idle EXCEPT !.pc = "exists", !.mb = m, !.id = e]]
  /\ UNCHANGED <<cache, shown, condemned, removed, disk>>

\* A message whose body file does not exist is shown without a body.
DetailExists(t) ==
  /\ At(t, "exists")
  /\ thread' = [thread EXCEPT ![t].pc =
       IF Body \in Present(thread[t].mb, thread[t].id)
         THEN "body" ELSE "detailed"]
  /\ UNCHANGED <<cache, shown, condemned, removed, disk>>

\* A file gone since exists() is an uncaught FileNotFoundError: 500.
DetailBody(t) ==
  /\ At(t, "body")
  /\ LET text == file[thread[t].mb][thread[t].id][Body]
     IN  IF text = Absent THEN Finish(t)
         ELSE thread' = [thread EXCEPT ![t] =
                           [@ EXCEPT !.pc = "detailed", !.text = text]]
  /\ UNCHANGED <<cache, shown, condemned, removed, disk>>

DetailReply(t) ==
  /\ At(t, "detailed")
  /\ Finish(t)
  /\ UNCHANGED <<cache, shown, condemned, removed, disk>>

-----------------------------------------------------------------------------
(* DELETE /api/emails/{id}: delete_email and its shutil.rmtree             *)

\* is_dir(): where it is false the answer is 404 and nothing changes.
DeleteCheck(t, m, e) ==
  /\ "delete" \in Workload
  /\ At(t, "idle")
  /\ e \in shown[m]
  /\ e \in entries[m]
  /\ condemned' = condemned \cup {<<m, e>>}
  /\ thread' = [thread EXCEPT ![t] =
       [Idle EXCEPT !.pc = "scan", !.mb = m, !.id = e]]
  /\ UNCHANGED <<cache, shown, removed, disk>>

\* rmtree lists the directory once; another delete may have removed it: 404.
DeleteScan(t) ==
  /\ At(t, "scan")
  /\ LET m == thread[t].mb  e == thread[t].id
     IN  IF e \in entries[m]
           THEN thread' = [thread EXCEPT ![t] =
                            [@ EXCEPT !.pc    = "unlink",
                                      !.files = Present(m, e)]]
           ELSE Finish(t)
  /\ UNCHANGED <<cache, shown, condemned, removed, disk>>

\* A file that another delete has unlinked is a FileNotFoundError: 404.
DeleteUnlink(t, f) ==
  /\ At(t, "unlink")
  /\ f \in thread[t].files
  /\ LET m == thread[t].mb  e == thread[t].id
     IN  IF f \in Present(m, e)
           THEN /\ SetFile(m, e, f, Absent)
                /\ thread' = [thread EXCEPT ![t].files = @ \ {f}]
           ELSE /\ Finish(t)
                /\ UNCHANGED disk
  /\ UNCHANGED <<cache, shown, condemned, removed>>

\* rmdir fails on a directory that is gone (404) or not empty (500).
DeleteRmdir(t) ==
  /\ At(t, "unlink")
  /\ thread[t].files = {}
  /\ LET m == thread[t].mb  e == thread[t].id
     IN  IF e \in entries[m] /\ Present(m, e) = {}
           THEN /\ RemoveDir(m, e)
                /\ removed' = removed \cup {<<m, e>>}
           ELSE UNCHANGED <<disk, removed>>
  /\ Finish(t)
  /\ UNCHANGED <<cache, shown, condemned>>

-----------------------------------------------------------------------------
\* The container restarts: the requests and the cache are lost, and a delete
\* in progress stays half done.
WebRestart ==
  /\ "restart" \in Workload
  /\ thread' = [t \in Threads |-> Idle]
  /\ cache'  = [m \in Mailboxes |-> NoCache]
  /\ UNCHANGED <<shown, condemned, removed, disk>>

\* The steps that finish the request a thread serves.
Serve(t) ==
  \/ ListLookup(t)
  \/ ListCount(t)
  \/ ListGlob(t)
  \/ \E e \in Ids : ListRead(t, e)
  \/ ListStore(t)
  \/ ListReply(t)
  \/ DetailExists(t)
  \/ DetailBody(t)
  \/ DetailReply(t)
  \/ DeleteScan(t)
  \/ \E f \in Names : DeleteUnlink(t, f)
  \/ DeleteRmdir(t)

WebStep ==
  \/ \E t \in Threads, m \in Mailboxes : ListStat(t, m)
  \/ \E t \in Threads, m \in Mailboxes, e \in Ids :
       DetailMeta(t, m, e) \/ DeleteCheck(t, m, e)
  \/ \E t \in Threads : Serve(t)
  \/ WebRestart
=============================================================================
