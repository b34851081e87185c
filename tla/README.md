# smtpweb in TLA+

smtpweb takes mail over SMTP and shows it in a browser. Two processes do
this, `smtpweb.smtp.main` and `smtpweb.web.main`, in two containers, and the
only thing they share is a directory. This project models what they keep and
do, from the script that sends test emails to the page that shows them,
checks the models with TLC on small instances, and proves the main results
with TLAPS for every instance.

## The system

| Component | State it keeps | Operations | What is hard about it | What makes it correct |
|---|---|---|---|---|
| Mail directory (`common/storage.py`) | `<mailbox>/emails/<id>/*`, the mtime of `emails/` | system calls of both processes | no lock; coarse timestamps | an email is visible whole or not at all |
| SMTP handler (`smtp/server.py`) and `save_message` | the envelope; the progress through recipients and files | RCPT, DATA | failure or kill between any two writes; one address under two spellings | a 250 answer vouches for every copy |
| Attachments (`save_message`, `_dedupe_filename`, `pdf_thumbnail.py`) | the names used so far, files, thumbnails, `metadata.json` | name, write, render, describe | names that collide with later ones or with directories; one part failing | each attachment is served under its own name |
| Delivery (`scripts/send_test_emails.py`, SMTP AUTH, `smtp/server.py`) | the run of a sender; a session per connection; the save under way | connect, AUTH, RCPT, DATA, rerun | crash, lost connection or full disk before the answer; retries | what was reported sent is stored, for those it names, once a run |
| Mail routes (`web/app.py`) and the readers of `EmailStorage` | `_list_cache`, unlocked; one request per thread | list, detail, delete | races between threads, and with the writer; cache validity from mtime and count | a list from the cache is right, except after a removal that left the mtime as it was; a deleted email comes back in no other way than by a save still under way that was told its mailbox twice |
| Mailbox login (`web/mailbox_auth.py`, `POST /api/login`) | `credentials.json` per mailbox | claim, verify | two logins claim at once; a crash in the claim | no session without the mailbox's password; the password stays |
| Login limiter (`web/login_rate_limit.py`) | failures and window start per mailbox | `is_limited`, `record_failure`, `reset` | checked and counted at different times | failures are bounded, a lockout ends |
| Sessions (`web/session_store.py`) | token to mailbox and expiry | `create`, `get`, `delete`, sweep | expired entries are dropped lazily | an ended session is refused |
| Browser client (`web/static/app.js`) | user, selection, list, detail pane, trash icon, timer, cookie | poll, select, delete, log in and out | answers arrive in any order, also after the view has changed | inbox and detail pane are the user's, the list comes to be what the mailbox holds (for a moment it can be a former user's) |
| Start of the smtp process (`smtp/main.py`, `smtp/auth.py`, `common/tls.py`) | `smtp_credentials.json`, `key.pem`, `cert.pem` | generate or reuse, listen, log the password | a stop between any two writes, then a restart | it comes up again; the password is known; the certificate stays |
| Reset script (`scripts/reset_smtp_password.py`) | the same file | write, print | runs beside a start | the password that works is one that was shown, or will be (not always the one the script prints), unless a program was stopped before it showed it |

The rest keeps no state of its own or only computes: hashing, mailbox names,
configuration, the entry point. The section "Not modelled" says what becomes
of each.

How they interact: the send script talks SMTP to the server; its handler
writes emails into the mail directory by system calls; the web threads read
and remove them by system calls; the cache is shared by the web threads;
limiter, sessions and `credentials.json` meet in the login route; the page
calls the routes and polls the list every ten seconds.

## The modules

| Module | Models | Correspondence |
|---|---|---|
| `MailDir` | the shared directory | `entries`, `mtime` and `file` are what `iterdir`, `stat` and `read_text` return. `MakeDir`, `SetFile` and `RemoveDir` are the calls that change it. A file is absent, torn (created, not yet written) or whole. `kept` is a history: the mtimes that a removal left as they were |
| `SmtpReceiver` | `handle_RCPT`, `handle_DATA`, `save_message` | `smtp` is the envelope with a program counter over `mkdir`, then `open`, `fill` and `chmod` of each file of `WriteOrder`, for each recipient. `Abandon` is an exception (451), a kill or a hang-up |
| `WebMail` | the routes for list, detail and delete | each `thread[t]` is a request with its local variables; a step is one system call or one access to `_list_cache`. `WebRestart` loses the threads and the cache |
| `Inbox` | the promise to users (abstract) | a copy is none, stored or deleted; 250 only for what is stored; a list only of what has appeared; a delete only of what was listed, and for good |
| `MailStore` | both processes over one directory | interleaves `SmtpStep` and `WebStep`; holds the properties, the refinement mapping to `Inbox` and the inductive invariants |
| `Attachments` | the attachments of one message in `save_message`, the routes for attachments and thumbnails | `pc` walks through naming all parts, then for each recipient writing each part and its thumbnail, then `metadata.json`. `Dedupe` is `_dedupe_filename`; `SentFor` and `ThumbnailFor` are what the routes send for a name |
| `Delivery` | the send script, `Authenticator`, `handle_RCPT`, `handle_DATA` | `client[s]` is a run of the script, `session[s]` the server's end of its connection, `saving` the one `save_message` that holds the event loop. `Kill`, `Disconnect` and an error in a save are the faults |
| `Mailing` | the promise to senders (abstract) | a run stores its emails in turn, a copy a mailbox, under an id of the sending's own, and reports what all its mailboxes have; a new run begins anew. No session, answer or fault |
| `Accounts` | mailboxes and passwords | constants shared by the login's modules |
| `LoginRateLimiter` | `LoginRateLimiter` | one operator per method, since each holds the lock throughout |
| `SessionStore` | `SessionStore` | the same; `ended` remembers the tokens that must not work again |
| `WebLogin` | login, logout, `require_session`, `MailboxAuth` | each `thread[t]` is a login with a program counter: limiter check, exclusive create, write or verify, count or reset, session. `WebCrash` loses all but `credentials.json` |
| `Access` | the promise to a mailbox's owner (abstract) | the first password given for a mailbox stays; who gives it gets a session under a token never used; a session that is closed stays closed |
| `WebClient` | the page, its cookie, and the routes behind it | each callback of `app.js` is an action, split at its `fetch`. `slot[s]` is a request in flight: sent, answered by the server, received by the callback that waits. A route is one step over `SessionStore` and the copies that can be listed; `Lose`, `Restart` and `Reload` are the faults |
| `Startup` | `run()` of the smtp process and the reset script | a program counter each over the steps that touch files or show a password. `Stop` and `ResetStop` end a program anywhere |
| `MCMailStore`, `MCAttachments`, `MCDelivery`, `MCWebLogin`, `MCWebClient` | constants for TLC | addresses, emails, parts; symmetries, a view |
| `MailStoreProofs`, `ReadersProofs`, `AttachmentsProofs`, `DeliveryProofs`, `WebLoginProofs`, `SessionStoreProofs`, `WebClientProofs`, `StartupProofs` | theorems and their lemmas | see below |

How they divide the work: `Delivery` takes the save of a copy as one step,
`SmtpReceiver` splits it into system calls, and `Attachments` looks into the
part of it that depends on the message. `Inbox`, `Mailing` and `Access` say what
the three parts promise to their users, without processes, threads or faults;
`MailStore`, `Delivery` and `WebLogin` implement them by the refinement
mappings at their ends. `WebClient` takes a route as one step;
`WebMail` and `WebLogin` split the routes, and show what such a step
may assume (`ImplementsInbox`, `SessionsAreEarned`, `EndedIsRefused`). Its
list route always answers with what the mailbox holds. The real one does not
(finding 2, and the cache after a removal in a shared tick), so
`ListComesRight` says what the page makes of answers that are right.

Where the models abstract:

- In `MailStore` an email is its id and its files; a file's contents are the
  number of the recipient for whom they were written, because two copies of
  one message in one mailbox differ in `received_at` only. Lists are sets:
  their order by `received_at` is left out.
- There the attachments of an email are files like the others in `Parts`,
  written between `raw.eml` and `metadata.json`. That they lie in a directory
  of their own only adds steps to `rmtree`.
- A file name is a stem, the numbers appended to it, and an extension: what
  `_dedupe_filename` builds and nothing finer. Names that the file system does
  not take (too long, with a NUL in them) and charsets that Python does not
  know also make `save_message` raise each time; they are not represented, and
  "storable" is said of messages without them.
- A browser sets the cookie when the headers of the answer arrive, before the
  callback goes on (`app.js:157-160`); `LoginAnswered` does both at once.
- A password stands for its hash. `sanitize_mailbox_name` is the constant
  function `MailboxOf`, undefined where the code raises.
- Time is the age of a window or a session and stops where the code stops
  telling ages apart. The clock is assumed not to go back.
- `uuid4` and `token_urlsafe` never repeat a value.
- Operations on files are durable at once: a crash of a process loses its
  memory, a power failure is left out.
- Definitions with names such as `ListCountIgnored` under a comment "Mutant"
  are faulty versions of the definition below them. No specification uses
  them; TLC finds the properties violated when one takes the place of the
  right definition, which shows that the properties depend on the code.

## The runs

| Run | Instance | What it shows |
|---|---|---|
| `copies_whole` | 2 mailboxes, 2 recipients, 3 files, 1 message, 1 thread, ticks that may cover two changes, restarts | `VisibleIsWhole`: what a reader sees is whole, at each step of writer, reader and delete; `AckedIsStored`: what a 250 answer vouches for has all its files; and that the whole implements `Inbox` (`ImplementsInbox`) |
| `readers` | 1 mailbox, 2 messages, 2 threads, 2 files, ticks that may cover several changes | the cache (`CacheSound`, `DeletedNotListed`), details (`DetailIsWhole`) and `MetaWriteOnce` |
| `one_poller` | 1 mailbox, 2 messages, the sender of one may name the mailbox twice, 1 thread, ticks that may cover several changes, fairness | `AcceptedIsListed` and `AcceptedSurfaces`: with requests one at a time a list is up to date, and accepted mail comes to be listed; `DeleteFinal`: only that sender's message can come back after a delete, and only while it is being saved |
| `attachments` | 9 kinds of parts, up to 4 in a message, 2 recipients of one directory or two, a full disk, fairness | `NamesDistinct`, `PartsAreFound`: each attachment is served under a name of its own; `StorableIsNotRefused`, `StorableIsStored`: which messages are stored, and which are refused for ever |
| `delivery` | a sender of two emails, who spells one address in two ways and has one that is refused; one whose email cannot be stored; one with a refused address only; one with a wrong password; 2 runs each, 1 fault, fairness | `SentIsStored`; that runs fail by faults alone (`RunsFailByFaults`) and whoever can get through does (`SendersGetThrough`); and that the whole implements `Mailing` (`ImplementsMailing`): only those with the password have anything stored, only where it is addressed, once a run |
| `login` | 2 mailboxes, 2 threads, 2 sessions, 2 passwords, limit 1, window 2, crashes and failed writes, fairness | the sessions, the count of failures and the lockout (`LockoutKeepsItsWindow`, `LockoutEnds`); and that the whole implements `Access` (`ImplementsAccess`), the claim included |
| `page` | 2 mailboxes with one email id in common, 2 sessions, 2 requests in flight, 1 fault, fairness | `CookieIsUsers`, `PaneIsUsers`: inbox and detail pane are of the mailbox that the cookie is for; `OneInterval`; `ListComesRight` and `EndIsNoticed`: the list comes to be the server's, and a session's end comes to be shown |
| `startup` | 3 stops, 1 reset, fairness | certificate, passwords, and that the service comes up again |
| `v_trash` | 1 mailbox, 2 emails, 2 sessions | finding 1 |
| `v_stat_then_count` | 2 threads, each change with its own tick | finding 2 |
| `v_repeat_rewrite` | two spellings of one mailbox | finding 3 |
| `v_claim_crash` | 2 threads, crashes | finding 4 |

The bounds and why they do:

- Mail store: `Ids` bounds the messages. Two are needed for one to arrive
  while another is deleted, which is what confuses a count; ids are never
  drawn twice, so more add only repetitions. Two threads are needed for one to
  replace the cache entry another is about to use. `MaxRcpts` of two has one
  recipient done while the other is not, or one mailbox named twice;
  `Repeats` is the set of messages whose sender may do that. With
  `SharedTicks` each change of `emails/` may have the mtime of the one before.
  The two `v_` runs of the mail store go without it: they fail even so. Of the files other than
  `metadata.json` one or two suffice, since the code treats them alike, and
  what matters is whether they come before `metadata.json`.
- `attachments`: the kinds are names that collide with each other ("sub/a.pdf"
  is "a.pdf" to the code), with a number appended ("a-2.pdf"), with the name
  that the code makes up ("attachment"), and with directories ("..",
  "thumbnails"), and contents that cannot be written. Four parts let a name
  collide twice and meet a name with a number.
- `delivery`: two runs have a retry; one fault falls at each step of either.
- `login`: a limit of one makes every failure count, two threads make the
  check and the count overlap; a window of two lets a lockout age without
  ending.
- `page`: two requests in flight are answered in either order. Two mailboxes
  and two tokens have a login after another user's. `MaxAge` of one lets the
  session expire under the page. `Slots` also means that the user waits when
  both are taken: a page with more requests in flight than slots is left out.
  One message to both mailboxes shares its id, the case in which a pane could
  be mistaken for another user's.
- `startup`: three stops reach a stop within the recovery from a stop, twice.

`CHECK_DEADLOCK FALSE` stands where a system at rest is right: `startup` ends
with a server that is up and no stops left, `attachments` with a message
stored or refused, `delivery` with no runs left. The others never rest.

`readers`, `copies_whole` and the `v_` runs of the mail store use the symmetry
of threads and of ids; the runs with liveness properties use none.
`readers` also has a view, without two histories that no guard and no property
of that run reads (`acked`, and `had` of the requests).

### Fairness

- `MailStore!Fairness`: the pool finishes the requests it has begun (weak
  fairness of `Serve`), and a page polls for as long as it is open
  (`app.js:210`); polls wait in a queue for a thread, hence strong fairness of
  `ListStat`. Nothing is assumed of senders, deletes or the SMTP process:
  `AcceptedSurfaces` starts from an answer already given.
- `WebClient!Fairness`: each request is served and its answer received unless
  it is lost (weak fairness of `Serve(s) \/ Receive(s)`), and the interval
  fires (strong fairness of `Poll(s)`, since its slot may be taken when it is
  due). The user need do nothing.
- `Delivery!FairSpec`: the server finishes a save and Docker restarts it (weak
  fairness). A sender who could get through goes on, and runs the script again
  if it failed: strong fairness of its steps, since the server serves others
  in between. Nothing is assumed of the others.
- `Attachments!FairSpec`: `save_message` runs on, for nothing in it waits.
- `WebLogin!FairSpec`: time passes (weak fairness of `Tick`). Nothing is
  assumed of the logins.
- `Startup!Fairness`: the two programs run on, an uncaught exception does end
  the process, and Docker starts it again (`restart: unless-stopped`,
  `docker-compose.yml:11`). `MaxStops` makes stops from outside finitely many.

## The theorems

All theorems hold for any values of the constants that satisfy the named
assumptions in the modules. Every invariant and every action property that a
passing run checks is proved.

**`MailStoreProofs`.** `TypeCorrect` (`TypeOK`) and `AckedCopiesAreStored`
hold of `Spec`. The others assume `Repeats = {}`, senders that name a mailbox
once in a message: without it `v_repeat_rewrite` refutes `MetaWriteOnce`, and
with it `VisibleIsWhole` and `ImplementsInbox`, since a file that was whole is
opened again. `VisibleIsWhole` is not inductive by itself. That a copy is whole
when its `metadata.json` appears depends on what the writer has done so far
(`WrittenIsWhole`), that nobody deletes it before on who can know of it
(`SeenHasAppeared`: lists, the cache and what browsers were shown contain only
copies that have appeared), that `rmtree` only works on such copies
(`DeletesAreCondemned`), and that the writer does not return to a copy on the
recipients being different (`RecipientsDiffer`, `PendingHasNotAppeared`).
`WholeInv` is the conjunction. From it follow `VisibleCopiesAreWhole`,
`MetadataIsWrittenOnce`, and `ImplementsPromise`: each step of `MailStore` is a
step of `Inbox` or leaves `Inbox`'s variables alone.

What a 250 answer vouches for needs no such assumption. A repeated recipient
does truncate the files of its first copy, and a reader may see them so, but
the answer comes after the last recipient, when the repeated write is over or
the message is refused. `AckInv` says this: the files up to the writer's are
whole, and so are all the files of the recipients before (`DoneIsWhole`), but
for copies that a delete has condemned and for the mailbox that is being written
again; what was answered is of an earlier id than the writer's (`AckedIsOld`),
so that no later write touches it.

**`ReadersProofs`.** `DeletesAreFinal` assumes nothing. `DeleteFinal` says that
no step makes a directory again that a delete has removed, except one: the
mkdir of the save that is delivering this very message and comes to a mailbox
it has been to (`NamedAgain`). That ids are never drawn twice is not enough
for it; one has to know how far the save has been when somebody deletes what
it has written. `DirsWereMade` says so: a directory that is or was there is of
an id drawn before, and if that is the one being saved, then of a mailbox that
the save has reached.

The others assume `Repeats = {}`, and no more of the clock than that it does
not go back. `ReadersInv`, beside `WholeInv`, says what a request knows at each
of its steps: a list that a request holds, or the cache keeps under a stamp,
contains nothing that was removed up to that stamp, whichever thread wrote it
(`GoodList`). Stamps that a removal has left as they were (`kept`) are
excepted, for of them it is not true: mtime and count are then the same before
the removal and after the next arrival. Arrivals alone may share a stamp, as
`storage.py:175-178` says, because they change the count.
`DeletedAreNotListed` and `CachedListsAreSound` follow, with the exception in
the properties themselves (`StatTells`). `ListsAreUpToDate` proves
`AcceptedIsListed` for one thread, the case in which it is true;
`OneReaderInv` adds that neither the cache nor a scan under way lacks a copy
that could be read at its stamp (`NothingLost`). With two threads
`v_stat_then_count` refutes it, without shared ticks or repeated recipients.

**`AttachmentsProofs`.** `Dedupe` returns a name that is not used: among one
more candidates than used names one is free (a pigeonhole argument, in a
lemma of its own). `AttachmentsInv` carries this through the writes: names so
far are distinct, the files, thumbnails and descriptions are those of the
parts they are named after, in step with `pc`. `NamesAreDistinct` and
`PartsAreAlwaysFound` follow. `StorableIsNeverRefused` is the safety half of
`StorableIsStored`: with it, only a full disk keeps a storable message from
being stored. Its invariant `RefusedInv` says that a name is the one asked for
or has a number, so that none becomes a directory's on the way, and that
`thumbnails` is a directory only in messages none of whose parts bears that
name. The second copy of a message needs this: it finds what the first has
left, and a part called "thumbnails" before a PDF is a file by then.

**`DeliveryProofs`.** `DeliveryInv` relates the client, the server's session
and the save: an envelope holds recipients of the email that its client is
sending (`EnvelopeInv`), the save under way is of the client's current
sending or of one that it has lost (`SavingInv`), and each stored copy is of
a sending that was authenticated, under an id of its own (`StoredInv`).
`SentEmailsAreStored` follows; so do `CopiesAreAddressed`,
`StrangersAreKeptOut` and `NoRunStoresTwice`, which no run checks for
themselves, since each is a part of what `Mailing` allows.

`MailingIsImplemented` is the refinement: `SaveCopy` is `Store` (or a stutter,
when the mailbox was named before), `Accepted` is `Report`, and every other
step leaves both variables alone. That it is an email's turn when it is
stored, also by a save whose client is gone, rests on `SentInv`: what was
reported of a script's run is exactly what comes before its email. That ids
tell sendings apart rests on `DrawnInv`.

`RunsFailForAReason` is the safety half of `SendersGetThrough`: the runs of a
sender who can send fail at most once a fault. `RunsInv` counts a run as failed
from the answer 451 on, when the fault has been but the script has not read of
it. With one run more than faults, one does not fail; that it comes to its end
is left to TLC.

**`WebLoginProofs`.** `ClaimInv` says that an empty record has at most one
writer, and that whoever has been accepted gave the password the mailbox has;
the exclusive create is what makes it inductive. `SessionsAreAlwaysEarned` and
`PasswordIsKept` follow. `EndedSessionsAreRefused` needs of a token only that
it is drawn once; its lemmas are in `SessionStoreProofs`, which `WebClientProofs`
uses too. `FailuresAreBounded` counts the logins in progress together with the
failures recorded: a login passes the limiter only while fewer than
`MaxAttempts` are recorded, and leaves the first count when it joins the
second. `LockoutsKeepTheirWindow` is the safety half of `LockoutEnds`: no step
makes the window of a limited mailbox younger, so that time alone ends it.

`AccessIsImplemented` is the refinement: writing the record is `Claim`,
creating the session is `Open`, and logout, ageing, sweep and crash are
`Close`. `ClaimInv` has the password given by whoever is accepted; that a token
never opens twice is the store's part.

**`WebClientProofs`.** `PageInv` says which answers can be under way in which
view, and for whom: a request whose callback will draw in the document that
is shown carries the token of the user who is logged in, a login answered is
for the mailbox of the cookie that came with it, and a callback of an earlier
document is marked as detached. `InboxIsOfTheSession`, `PaneIsOfTheUser` and
`IntervalsAreCleared` follow; the last as long as no two logins have
overlapped. `PaneIsOfTheUser` is about the detail pane. The rows of the list
are not always the user's: see the findings.

**`StartupProofs`.** `CertHasItsKey` becomes inductive as `TlsInv`: a key
pair is only made while there is no certificate, and `cert.pem` is opened only
when `key.pem` is whole, which leaves it whole with its key or torn when it is
loaded. `CertificateIsKept` follows, and `OnlyTornFilesRaise`, the safety half
of `ComesUp`: a start raises only where `Broken` holds, the states for which
`ComesUp` makes its exception. `UntoldPasswordsWereCut` rests on `KnownInv`,
which accounts for each stored password by who has shown it or still will.

Each of the inductive invariants was checked with TLC on the instance of its
run before it was proved, `AckInv` and `DirsWereMade` with senders that name
a mailbox twice.

Model-checked only: the liveness properties, which need fairness and
`ENABLED`: `AcceptedSurfaces`, `StorableIsStored`, `SendersGetThrough`,
`LockoutEnds`, `ListComesRight`, `EndIsNoticed`, `ComesUp`. Of the second to
the fourth and of the last the safety half is proved, as said above.

## Findings

Each is a run that expects a violation, of what a comment or document of the
repository says.

1. `v_trash`: a detail that was asked for before the inbox was drawn anew (a
   logout and a login) is answered after it. `selectEmail` draws in the old
   pane, but puts its `deleteEmail` on the trash icon of the new one
   (`app.js:382`): a click there asks twice and deletes two emails, one of
   which is not shown (`README.md:320`).
2. `v_stat_then_count`: even with a tick for each change, `list_emails` on
   two threads can return a list older than its request, because mtime, cache
   and count are read at different times (`storage.py:45-47`).
3. `v_repeat_rewrite`: two spellings of one address in one message rewrite
   `metadata.json` (`storage.py:38` calls it write-once).
4. `v_claim_crash`: a claim cut short leaves a mailbox that can be neither
   claimed nor logged into (`mailbox_auth.py:12-15`).

What else the models show, without a run of its own:

- Mail store. The cache survives a delete and an arrival within one tick of
  the file system's clock, since count and mtime are the same
  (`storage.py:208-210`): the deleted email stays in the lists, and the other
  is missing from them, until something else changes. Hence the exception in
  `CacheSound`, `DeletedNotListed`, `AcceptedIsListed` and `AcceptedSurfaces`.
  An email that is deleted while its message is being saved comes back when
  the save comes to a second spelling of the mailbox (`storage.py:84-85`;
  `storage.py:206` says "Permanently remove"). An email can be listed and deleted between the
  write and the chmod of its `metadata.json`; the sender is told 451
  (`config.py:39-41`, `README.md:32-35` rule such a race out).
- Attachments. A `multipart/*` or `message/rfc822` attachment, one called
  "..", and one called "thumbnails" after a PDF make `save_message` raise each
  time: the message is refused with 451 for ever (`StorableIsStored` says
  which messages are stored instead).
- Delivery. The script stops at the first email that fails, and sends the
  ones before it again when it is run again. Recipients that are refused while
  others are accepted go unreported. It exits when it is given
  no credentials, though `README.md:118-119` has it use the generated ones, and
  the user name that is generated is always "smtpweb" (`README.md:117` calls it
  random).
- Login. The loser of a claim may meet the empty record and is refused
  whatever its password (`mailbox_auth.py:52-55`). Failures are also counted
  for a mailbox that nobody has claimed (an empty password), so its first
  login can be answered 429, unlike `app.py:107-109` says.
- Start. A first start that found no credentials file may write its own after
  the reset script has written: the password that the script prints then does
  not work (`UntoldOnlyIfCut` says only that the one that works is known). A
  generated password is lost when the process stops before its log
  line (`README.md:171-173`, `auth.py:46-49`). A stop in the middle of writing
  `smtp_credentials.json` or `cert.pem` leaves a torn file that fails each
  later start: `ComesUp` has to make an exception for it.
- Page. An answer to a list request that was sent before a logout and another
  user's login is drawn in the new user's list (`app.js:239-266`) and stays
  there until the next poll is answered. Answers to two detail requests may come in the other order: the pane
  then shows the email that was selected first. Overlapping logins leave an
  interval that is never cleared. The login button stays disabled when the
  request is lost, and every failed login, 429 too, is shown as a wrong
  password.

## Not modelled

- The route for the raw message looks whether a file exists and sends it; what
  can go wrong between the two is what `DetailExists` and `DetailBody` show.
  The html body is read like the text body.
- The lightbox, the version badge and the layout of the page.
- The rendering of PDFs, password hashing and the making of certificates:
  library calls without state of ours.
- The normalization of mailbox names: string handling, a constant function.
- Configuration, logging, `entrypoint.sh`: read or run once, before the rest.
- A power failure: the code flushes nothing to the disk.

## Plan

Done in this order: `MailDir`, `SmtpReceiver`, `WebMail`, `Inbox`,
`MailStore` with its proofs; `Accounts`, `LoginRateLimiter`, `SessionStore`,
`WebLogin` with its proofs; `Startup` with its proofs; `WebClient`,
`Attachments` and `Delivery` with theirs; the readers' side of `MailStore`.

Then the promises `Mailing` and `Access` with their refinements, what a 250
answer vouches for without an assumption on the sender, and the safety halves
of four liveness properties.

What is left, most useful first:

1. The safety half of `ListComesRight`: that a list drawn from a request of
   the present session is of its mailbox.  It needs `PageInv` to say that a
   token in the answer to a login has been in no request yet.
2. A model of files that are durable only when flushed, for what a power
   failure may take from an accepted message.
3. The page against the routes split as in `WebMail`, instead of routes of one
   step: too large for TLC as it stands, so by a refinement first.
