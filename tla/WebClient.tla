------------------------------ MODULE WebClient ------------------------------
(***************************************************************************)
(* The page (web/static/app.js) in one browser tab, and the routes it      *)
(* calls.  The page runs one callback at a time; at each await of a fetch  *)
(* the others go on, and answers come back in any order.                   *)
(*                                                                         *)
(* A fetch is a record in one of the Slots: sent, then answered by the     *)
(* server, then received by the callback that waits for it.  An answer     *)
(* arrives whole, with its cookie, or not at all.  How a route works       *)
(* inside is left to WebMail and WebLogin: here it is one step.            *)
(***************************************************************************)
EXTENDS SessionStore, FiniteSets

CONSTANTS
  Copies,     \* <<mailbox, email id>>: the copies that may arrive.  A message
              \* to two mailboxes has one id in both
  Slots,      \* bounds the requests in flight
  MaxFaults   \* bounds the lost requests, restarts and reloads

None   == "none"
NoCopy == <<None, None>>
Ids    == {c[2] : c \in Copies}

ASSUME ClientAssumption ==
  /\ IsFiniteSet(Slots) /\ Slots \subseteq Nat
  /\ IsFiniteSet(Copies)
  /\ Copies \subseteq Mailboxes \X Ids
  /\ None \notin Mailboxes \cup Ids \cup Tokens
  /\ MaxFaults \in Nat

VARIABLES
  \* the server's side
  mail,      \* the copies that can be listed
  arrived,   \* those that ever could
  \* the browser's side
  cookie,    \* smtpweb_session
  slot,      \* slot[s] is a request in flight, or Free
  view,      \* what appEl shows: nothing yet, the login form or the inbox
  busy,      \* the login form's button is disabled
  user,      \* currentUsername
  selected,  \* selectedId
  rows,      \* the ids that the list shows
  pane,      \* the copy that the detail pane shows
  trash,     \* the ids whose deleteEmail listens on the trash icon
  timer,     \* refreshTimer is set
  live,      \* the intervals that are running
  overlap,   \* history: logins of this page have overlapped
  faults     \* how many faults there were

server == <<sessionVars, mail, arrived>>
page   == <<view, busy, user, selected, rows, pane, trash, timer, live>>
vars   == <<server, cookie, slot, page, overlap, faults>>

Kinds    == {"me", "login", "logout", "list", "detail", "delete"}
Statuses == {"sent", "ok", "401", "error", "lost"}

\* attached: the pane that a detail is for is still in the document.
\* mb:       whom to log in; in an answer, whom it is about.
Requests ==
  [kind : Kinds, id : Ids \cup {None}, token : Tokens \cup {None},
   mb : Mailboxes \cup {None}, status : Statuses, emails : SUBSET Ids,
   attached : BOOLEAN]

Fetch(kind, token) ==
  [kind |-> kind, id |-> None, token |-> token, mb |-> None,
   status |-> "sent", emails |-> {}, attached |-> FALSE]

Free == [Fetch("me", None) EXCEPT !.kind = None]

IsFree(s)  == slot[s] = Free

\* A fetch takes the first slot that is free.
First(s, sl) == sl[s] = Free /\ \A x \in Slots : sl[x] = Free => s <= x
Send(s, r)   == First(s, slot) /\ slot' = [slot EXCEPT ![s] = r]

Emails(m) == {c[2] : c \in {d \in mail : d[1] = m}}

TypeOK ==
  /\ SessionTypeOK
  /\ mail \subseteq arrived /\ arrived \subseteq Copies
  /\ cookie \in Tokens \cup {None}
  /\ slot \in [Slots -> Requests \cup {Free}]
  /\ view \in {"blank", "login", "inbox"} /\ busy \in BOOLEAN
  /\ user \in Mailboxes \cup {None} /\ selected \in Ids \cup {None}
  /\ rows \subseteq Ids /\ trash \subseteq Ids
  /\ pane \in Copies \cup {NoCopy}
  /\ timer \in BOOLEAN /\ live \in Nat
  /\ overlap \in BOOLEAN /\ faults \in 0..MaxFaults

-----------------------------------------------------------------------------
(* Loading the page: its globals are set, and checkAuth asks who it is.     *)

Init ==
  /\ SessionInit
  /\ mail = {} /\ arrived = {}
  /\ cookie = None
  /\ \E s \in Slots :
       /\ \A x \in Slots : s <= x
       /\ slot = [x \in Slots |-> IF x = s THEN Fetch("me", None) ELSE Free]
  /\ view = "blank" /\ busy = FALSE /\ user = None /\ selected = None
  /\ rows = {} /\ pane = NoCopy /\ trash = {} /\ timer = FALSE /\ live = 0
  /\ overlap = FALSE /\ faults = 0

-----------------------------------------------------------------------------
(* The server                                                              *)

Arrive(c) ==
  /\ c \notin arrived
  /\ mail' = mail \cup {c}
  /\ arrived' = arrived \cup {c}
  /\ UNCHANGED <<sessionVars, cookie, slot, page, overlap, faults>>

Sent(s, kinds) == slot[s].kind \in kinds /\ slot[s].status = "sent"
Answer(s, r)   == slot' = [slot EXCEPT ![s] = r]

\* One token is as good as another.  Their number bounds the logins.
NewToken == CHOOSE k \in Tokens : k \notin issued

\* A wrong password, a lockout and an error in the route look alike to the
\* page, since all it looks at is res.ok.
ServeLogin(s) ==
  /\ Sent(s, {"login"})
  /\ \/ \E p \in Passwords :
          /\ Tokens \ issued # {}
          /\ CreateSession(NewToken, slot[s].mb, p)
          /\ Answer(s, [slot[s] EXCEPT !.status = "ok", !.token = NewToken])
     \/ /\ Answer(s, [slot[s] EXCEPT !.status = "error"])
        /\ UNCHANGED sessionVars
  /\ UNCHANGED <<mail, arrived>>

ServeLogout(s) ==
  /\ Sent(s, {"logout"})
  /\ IF slot[s].token = None THEN UNCHANGED sessionVars
     ELSE DeleteSession(slot[s].token)
  /\ Answer(s, [slot[s] EXCEPT !.status = "ok"])
  /\ UNCHANGED <<mail, arrived>>

\* require_session.
MailboxOf(token) ==
  IF token # None /\ Accepts(token) THEN sessions[token].mailbox ELSE None

\* The routes that require a session.  A detail or a delete of a copy that is
\* not there is answered 404.
ServeProtected(s) ==
  /\ Sent(s, Kinds \ {"login", "logout"})
  /\ LET r == slot[s]  m == MailboxOf(r.token)  c == <<m, r.id>>
     IN  /\ Answer(s, [r EXCEPT
              !.mb     = m,
              !.status = IF m = None THEN "401"
                         ELSE IF r.id # None /\ c \notin mail THEN "error"
                         ELSE "ok",
              !.emails = IF r.kind = "list" THEN Emails(m) ELSE {}])
         /\ mail' = IF r.kind = "delete" THEN mail \ {c} ELSE mail
         /\ IF r.token = None THEN UNCHANGED sessionVars
            ELSE GetSession(r.token)
  /\ UNCHANGED arrived

Serve(s) ==
  /\ ServeLogin(s) \/ ServeLogout(s) \/ ServeProtected(s)
  /\ UNCHANGED <<cookie, page, overlap, faults>>

\* Sessions run out.
Expire == AgeSessions /\ UNCHANGED <<mail, arrived, cookie, slot, page,
                                     overlap, faults>>

-----------------------------------------------------------------------------
(* Drawing                                                                 *)

\* The elements that appEl held leave the document.
Detached(sl) == [s \in Slots |-> [sl[s] EXCEPT !.attached = FALSE]]

ClearPanes == rows' = {} /\ pane' = NoCopy /\ trash' = {}

\* Mutant: an interval is counted off whether or not one is running.
RenderLoginBlind ==
  /\ view' = "login" /\ busy' = FALSE
  /\ timer' = FALSE
  /\ live' = live - 1
  /\ ClearPanes

\* Mutant: the form is drawn and the interval left running.
RenderLoginKeeps ==
  /\ view' = "login" /\ busy' = FALSE
  /\ timer' = FALSE
  /\ UNCHANGED live
  /\ ClearPanes

\* renderLogin: the interval that refreshTimer names stops.
RenderLogin ==
  /\ view' = "login" /\ busy' = FALSE
  /\ timer' = FALSE
  /\ live' = IF timer THEN live - 1 ELSE live
  /\ ClearPanes

\* renderInbox, which ends with loadList and setInterval.  s is the slot of
\* the answer that led here.
RenderInbox(m, s) ==
  /\ view' = "inbox" /\ busy' = FALSE
  /\ user' = m
  /\ timer' = TRUE
  /\ live' = live + 1
  /\ ClearPanes
  /\ slot' = [Detached(slot) EXCEPT ![s] = Fetch("list", cookie')]

-----------------------------------------------------------------------------
(* What the user and the clock do                                          *)

SubmitLogin(s, m) ==
  /\ view = "login" /\ ~busy
  /\ Send(s, [Fetch("login", None) EXCEPT !.mb = m])
  /\ busy' = TRUE
  /\ overlap' = \/ overlap
                \/ \E x \in Slots : slot[x].kind = "login"
  /\ UNCHANGED <<server, cookie, view, user, selected, rows, pane, trash,
                 timer, live, faults>>

ClickLogout(s) ==
  /\ view = "inbox"
  /\ Send(s, Fetch("logout", cookie))
  /\ UNCHANGED <<server, cookie, page, overlap, faults>>

\* An interval fires, or the refresh button is clicked: loadList.
Poll(s) ==
  /\ live > 0
  /\ Send(s, Fetch("list", cookie))
  /\ UNCHANGED <<server, cookie, page, overlap, faults>>

\* selectEmail, up to its fetch.
Select(s, e) ==
  /\ view = "inbox" /\ e \in rows
  /\ Send(s, [Fetch("detail", cookie) EXCEPT !.id = e, !.attached = TRUE])
  /\ selected' = e
  /\ UNCHANGED <<server, cookie, view, busy, user, rows, pane, trash, timer,
                 live, overlap, faults>>

\* Each deleteEmail that listens asks "Delete this email?" and, if the user
\* agrees, sends its request.
ClickTrash(s, e) ==
  /\ view = "inbox" /\ e \in trash
  /\ Send(s, [Fetch("delete", cookie) EXCEPT !.id = e])
  /\ UNCHANGED <<server, cookie, page, overlap, faults>>

-----------------------------------------------------------------------------
(* Answers                                                                 *)

Answered(s, kind, statuses) ==
  slot[s].kind = kind /\ slot[s].status \in statuses

Freed(s) == [slot EXCEPT ![s] = Free]

\* Mutant: loadList leaves a 401 alone.
BackToLoginNotForList(s) ==
  /\ \E kind \in {"list", "detail", "delete"} : Answered(s, kind, {"401"})
  /\ IF slot[s].kind = "list"
       THEN /\ slot' = Freed(s)
            /\ UNCHANGED <<view, busy, timer, live, rows, pane, trash>>
       ELSE /\ RenderLogin
            /\ slot' = Detached(Freed(s))
  /\ UNCHANGED <<server, cookie, user, selected>>

\* Every protected fetch but checkAuth's goes back to the login form on 401,
\* and leaves currentUsername and selectedId as they are.
BackToLogin(s) ==
  /\ \E kind \in {"list", "detail", "delete"} : Answered(s, kind, {"401"})
  /\ RenderLogin
  /\ slot' = Detached(Freed(s))
  /\ UNCHANGED <<server, cookie, user, selected>>

\* checkAuth.
MeAnswered(s) ==
  /\ Answered(s, "me", {"ok", "401"})
  /\ IF slot[s].status = "ok"
       THEN /\ UNCHANGED cookie
            /\ RenderInbox(slot[s].mb, s)
       ELSE /\ RenderLogin
            /\ slot' = Detached(Freed(s))
            /\ UNCHANGED <<cookie, user>>
  /\ UNCHANGED <<server, selected>>

\* Mutant: currentUsername is set unless it is set already.
LoginAnsweredOnce(s) ==
  /\ Answered(s, "login", {"ok", "error"})
  /\ IF slot[s].status = "ok"
       THEN /\ cookie' = slot[s].token
            /\ RenderInbox(IF user = None THEN slot[s].mb ELSE user, s)
       ELSE /\ RenderLogin
            /\ slot' = Detached(Freed(s))
            /\ UNCHANGED <<cookie, user>>
  /\ UNCHANGED <<server, selected>>

\* The submit handler of the login form.  It does not matter what is in view.
LoginAnswered(s) ==
  /\ Answered(s, "login", {"ok", "error"})
  /\ IF slot[s].status = "ok"
       THEN /\ cookie' = slot[s].token
            /\ RenderInbox(slot[s].mb, s)
       ELSE /\ RenderLogin
            /\ slot' = Detached(Freed(s))
            /\ UNCHANGED <<cookie, user>>
  /\ UNCHANGED <<server, selected>>

\* The answer deletes the cookie, whichever it is by now.
LogoutAnswered(s) ==
  /\ Answered(s, "logout", {"ok"})
  /\ cookie' = None
  /\ user' = None /\ selected' = None
  /\ RenderLogin
  /\ slot' = Detached(Freed(s))
  /\ UNCHANGED server

\* Mutant: an empty list is not drawn.
ListAnsweredNonEmpty(s) ==
  /\ Answered(s, "list", {"ok"})
  /\ rows' = IF view = "inbox" /\ slot[s].emails # {} THEN slot[s].emails
             ELSE rows
  /\ slot' = Freed(s)
  /\ UNCHANGED <<server, cookie, view, busy, user, selected, pane, trash,
                 timer, live>>

\* loadList.  Without the inbox there is no list to draw in: an exception.
ListAnswered(s) ==
  /\ Answered(s, "list", {"ok"})
  /\ rows' = IF view = "inbox" THEN slot[s].emails ELSE rows
  /\ slot' = Freed(s)
  /\ UNCHANGED <<server, cookie, view, busy, user, selected, pane, trash,
                 timer, live>>

\* Mutant: the pane is looked up when the answer is there.
DetailAnsweredLate(s) ==
  /\ Answered(s, "detail", {"ok", "error"})
  /\ LET r == slot[s]  shown == r.status = "ok" /\ view = "inbox"
     IN  /\ pane'  = IF shown THEN <<r.mb, r.id>> ELSE NoCopy
         /\ trash' = IF shown THEN {r.id} ELSE {}
  /\ slot' = Freed(s)
  /\ UNCHANGED <<server, cookie, view, busy, user, selected, rows, timer,
                 live>>

\* selectEmail, from its fetch on.  It draws in the pane it was called for,
\* but looks for the trash icon in the document.
DetailAnswered(s) ==
  /\ Answered(s, "detail", {"ok", "error"})
  /\ LET r == slot[s]  shown == r.status = "ok"
     IN  IF r.attached
           THEN /\ pane'  = IF shown THEN <<r.mb, r.id>> ELSE NoCopy
                /\ trash' = IF shown THEN {r.id} ELSE {}
           ELSE /\ trash' = IF shown /\ pane # NoCopy THEN trash \cup {r.id}
                            ELSE trash
                /\ UNCHANGED pane
  /\ slot' = Freed(s)
  /\ UNCHANGED <<server, cookie, view, busy, user, selected, rows, timer,
                 live>>

\* deleteEmail, from its fetch on.  404 only shows an alert.  Without the
\* inbox there is no pane to clear: an exception, before loadList.
DeleteAnswered(s) ==
  /\ Answered(s, "delete", {"ok", "error"})
  /\ LET r == slot[s]  mine == selected = r.id
     IN  IF r.status = "error"
           THEN /\ slot' = Freed(s)
                /\ UNCHANGED <<selected, pane, trash>>
           ELSE /\ selected' = IF mine THEN None ELSE selected
                /\ pane'  = IF mine THEN NoCopy ELSE pane
                /\ trash' = IF mine THEN {} ELSE trash
                /\ slot' = IF mine /\ view # "inbox" THEN Freed(s)
                           ELSE [slot EXCEPT ![s] = Fetch("list", cookie)]
  /\ UNCHANGED <<server, cookie, view, busy, user, rows, timer, live>>

\* A fetch that fails throws: nothing after it is done.
Failed(s) ==
  /\ slot[s].status = "lost"
  /\ slot' = Freed(s)
  /\ UNCHANGED <<server, cookie, page>>

Receive(s) ==
  /\ \/ BackToLogin(s)
     \/ MeAnswered(s)
     \/ LoginAnswered(s)
     \/ LogoutAnswered(s)
     \/ ListAnswered(s)
     \/ DetailAnswered(s)
     \/ DeleteAnswered(s)
     \/ Failed(s)
  /\ UNCHANGED <<overlap, faults>>

-----------------------------------------------------------------------------
(* Faults                                                                  *)

Fault == faults < MaxFaults /\ faults' = faults + 1

\* A request does not reach the server, or its answer the page.
Lose(s) ==
  /\ Fault
  /\ ~IsFree(s) /\ slot[s].status # "lost"
  /\ slot' = [slot EXCEPT ![s].status = "lost"]
  /\ UNCHANGED <<server, cookie, page, overlap>>

\* The web process restarts: it forgets the sessions and what it was asked.
Restart ==
  /\ Fault
  /\ LoseSessions
  /\ slot' = [s \in Slots |->
       IF slot[s].status = "sent" /\ ~IsFree(s)
         THEN [slot[s] EXCEPT !.status = "lost"] ELSE slot[s]]
  /\ UNCHANGED <<mail, arrived, cookie, page, overlap>>

\* The user reloads the page, which gives up the requests under way: served
\* or not, nobody waits for their answers.
Reload(s) ==
  /\ Fault
  /\ \A x \in Slots : s <= x
  /\ slot' = [x \in Slots |->
       IF x = s THEN Fetch("me", cookie) ELSE Free]
  /\ view' = "blank" /\ busy' = FALSE /\ user' = None /\ selected' = None
  /\ timer' = FALSE /\ live' = 0
  /\ ClearPanes
  /\ overlap' = FALSE
  /\ UNCHANGED <<server, cookie>>

Next ==
  \/ \E c \in Copies : Arrive(c)
  \/ Expire
  \/ Restart
  \/ \E s \in Slots :
       \/ Serve(s)
       \/ Receive(s)
       \/ \E m \in Mailboxes : SubmitLogin(s, m)
       \/ ClickLogout(s)
       \/ Poll(s)
       \/ \E e \in Ids : Select(s, e) \/ ClickTrash(s, e)
       \/ Lose(s)
       \/ Reload(s)

Spec == Init /\ [][Next]_vars

(***************************************************************************)
(* The server answers what it is asked and the browser runs the callback   *)
(* (weak fairness, per request), and an interval fires again and again.    *)
(* Only the bound on the requests in flight can hold a poll up: strong     *)
(* fairness.  Nothing is assumed of the user.                              *)
(***************************************************************************)
Fairness ==
  /\ \A s \in Slots : WF_vars(Serve(s) \/ Receive(s))
  /\ SF_vars(\E s \in Slots : Poll(s))

FairSpec == Spec /\ Fairness

-----------------------------------------------------------------------------
(* Properties                                                              *)

\* The inbox that is in view is that of the session the browser holds,
\* whatever logins and logouts are under way (app.js:157-160, 197-202).
CookieIsUsers ==
  view = "inbox" /\ cookie # None /\ Accepts(cookie)
    => sessions[cookie].mailbox = user

\* The detail pane shows emails of the user only: an answer from before a
\* login draws in a pane that has left the document (app.js:299).
PaneIsUsers == pane # NoCopy => view = "inbox" /\ pane[1] = user

\* Unless two logins of a page have overlapped, no interval runs beside the
\* login form and exactly one beside the inbox (app.js:117-120, 210).
OneInterval == ~overlap => live = IF view = "inbox" THEN 1 ELSE 0

\* An inbox that stays in view with its session comes to show just what the
\* mailbox holds, however late the answers of older requests are.
ListComesRight ==
  <>[](view = "inbox" /\ MailboxOf(cookie) = user)
    => <>[](rows = Emails(user))

\* A page whose session has ended goes back to the login form.
EndIsNoticed ==
  view = "inbox" /\ MailboxOf(cookie) = None
    ~> view # "inbox" \/ MailboxOf(cookie) # None

\* The trash icon deletes the email it is shown with ("Delete this email?",
\* app.js:269; README.md, "the trash icon in the email detail view").
TrashIsForShown == trash \subseteq {pane[2]}

-----------------------------------------------------------------------------
(* The inductive invariant behind CookieIsUsers, PaneIsUsers and            *)
(* OneInterval.                                                            *)

\* While the token k is good, it is one of the mailbox m.
Owns(k, m) == k \in issued /\ (Accepts(k) => sessions[k].mailbox = m)

\* What a request under way has to do with the page that waits for it.
\* checkAuth only runs while nothing is drawn, and with the cookie there is.
\* A login is from a form that may have been left only by another login.  A
\* detail with a pane to draw in is of the user who is logged in now.
RequestOK(r) ==
  /\ r.token \in issued \cup {None}
  /\ r.kind = "detail" => /\ r.id \in Ids
                          /\ r.status = "ok" => <<r.mb, r.id>> \in Copies
  /\ r.kind = "me"     => /\ view = "blank" /\ r.token = cookie
                          /\ r.status = "ok" => Owns(r.token, r.mb)
  /\ r.kind = "login"  => /\ r.mb \in Mailboxes
                          /\ view = "login" \/ (overlap /\ view = "inbox")
                          /\ r.status = "ok" => Owns(r.token, r.mb)
  /\ r.attached        => /\ r.kind = "detail"
                          /\ view = "inbox" /\ r.token = cookie
                          /\ r.status = "ok" => r.mb = user
  /\ view = "blank"    => r.kind \in {"me", None}

RequestsOK == \A s \in Slots : RequestOK(slot[s])

\* One checkAuth to a page, and one login unless they have overlapped.
Alone ==
  \A s, x \in Slots :
    slot[s].kind = slot[x].kind /\ s # x =>
      slot[s].kind # "me" /\ (slot[s].kind = "login" => overlap)

TimerOK ==
  /\ timer = (view = "inbox")
  /\ timer => live > 0
  /\ view = "blank" => live = 0 /\ ~overlap

CookieIsIssued == cookie \in issued \cup {None}

\* Behind each drawing there is an answer, and this says which answers can be
\* under way in which view (app.js:105-114, 145-165, 197-202, 233-312).
PageInv ==
  /\ TypeOK
  /\ CookieIsIssued
  /\ RequestsOK
  /\ Alone
  /\ TimerOK
  /\ CookieIsUsers
  /\ PaneIsUsers
  /\ OneInterval
=============================================================================
