--------------------------- MODULE WebClientProofs ---------------------------
(***************************************************************************)
(* Theorems about WebClient, for every value of its constants.             *)
(***************************************************************************)
EXTENDS WebClient, SessionStoreProofs, TLAPS

-----------------------------------------------------------------------------
(* The fields of a request                                                 *)

LEMMA FetchFields ==
  \A kind, token :
    /\ Fetch(kind, token).kind = kind /\ Fetch(kind, token).token = token
    /\ Fetch(kind, token).id = None   /\ Fetch(kind, token).mb = None
    /\ Fetch(kind, token).status = "sent"
    /\ Fetch(kind, token).attached = FALSE
  BY DEF Fetch

LEMMA FreeFields ==
  /\ Free.kind = None /\ Free.token = None
  /\ Free.status = "sent" /\ Free.attached = FALSE
  BY DEF Free, Fetch

LEMMA FetchType ==
  ASSUME NEW kind \in Kinds, NEW token \in Tokens \cup {None}
  PROVE  Fetch(kind, token) \in Requests
  BY DEF Fetch, Requests, Statuses

LEMMA FreeIsNoRequest ==
  /\ None \notin Kinds /\ Free \notin Requests
  /\ \A r \in Requests \cup {Free} : r.kind \in Kinds => r \in Requests
  <1>1. None \notin Kinds
    BY DEF None, Kinds
  <1>2. \A r \in Requests : r.kind \in Kinds
    BY DEF Requests
  <1> QED BY <1>1, <1>2, FreeFields

LEMMA DetachedFree == [Free EXCEPT !.attached = FALSE] = Free
  <1> DEFINE f == Fetch("me", None)
             g == [f EXCEPT !.kind = None]
  <1>1. /\ f.attached = FALSE
        /\ DOMAIN f = {"kind", "id", "token", "mb", "status", "emails",
                       "attached"}
        /\ f = [x \in DOMAIN f |-> f[x]]
    BY DEF Fetch
  <1> HIDE DEF f
  <1>2. g = [x \in DOMAIN f |-> IF x = "kind" THEN None ELSE f[x]]
    BY <1>1
  <1>3. g.attached = FALSE
    BY <1>1, <1>2
  <1>4. [g EXCEPT !.attached = FALSE] = g
    BY <1>2, <1>3
  <1> QED BY <1>4 DEF Free, f

-----------------------------------------------------------------------------
(* What a step does to the sessions                                        *)

LEMMA StepOfSessions ==
  ASSUME PageInv, [Next]_vars
  PROVE  SessionStep
  <1>1. issued \subseteq Tokens
    BY DEF PageInv, TypeOK, SessionTypeOK
  <1>2. ASSUME NEW s \in Slots, Serve(s)
        PROVE  SessionStep
    <2>1. CASE ServeLogin(s)
      <3>1. slot[s].mb \in Mailboxes
        BY <2>1 DEF PageInv, RequestsOK, RequestOK, ServeLogin, Sent
      <3>2. Tokens \ issued # {} => NewToken \in Tokens
        BY DEF NewToken
      <3> QED BY <2>1, <3>1, <3>2 DEF ServeLogin, SessionStep, sessionVars
    <2>2. CASE ServeLogout(s)
      <3>1. slot[s].token # None => slot[s].token \in Tokens
        BY <1>1 DEF PageInv, RequestsOK, RequestOK
      <3> QED BY <2>2, <3>1 DEF ServeLogout, SessionStep, sessionVars
    <2>3. CASE ServeProtected(s)
      <3>1. slot[s].token # None => slot[s].token \in Tokens
        BY <1>1 DEF PageInv, RequestsOK, RequestOK
      <3> QED BY <2>3, <3>1 DEF ServeProtected, SessionStep, sessionVars
    <2> QED BY <1>2, <2>1, <2>2, <2>3 DEF Serve
  <1>3. CASE Expire \/ Restart
    BY <1>3 DEF Expire, Restart, SessionStep
  <1>4. ASSUME NEW s \in Slots, Receive(s)
        PROVE  SessionStep
    BY <1>4
    DEF Receive, BackToLogin, MeAnswered, LoginAnswered, LogoutAnswered,
        ListAnswered, DetailAnswered, DeleteAnswered, Failed, server,
        SessionStep, sessionVars
  <1>5. ASSUME NEW s \in Slots,
               \/ \E m \in Mailboxes : SubmitLogin(s, m)
               \/ ClickLogout(s)
               \/ Poll(s)
               \/ \E e \in Ids : Select(s, e) \/ ClickTrash(s, e)
               \/ Lose(s)
               \/ Reload(s)
        PROVE  SessionStep
    BY <1>5
    DEF SubmitLogin, ClickLogout, Poll, Select, ClickTrash, Lose, Reload,
        server, SessionStep, sessionVars
  <1>6. CASE \E c \in Copies : Arrive(c)
    BY <1>6 DEF Arrive, SessionStep, sessionVars
  <1>7. CASE UNCHANGED vars
    BY <1>7 DEF vars, server, SessionStep, sessionVars
  <1> QED BY <1>2, <1>3, <1>4, <1>5, <1>6, <1>7 DEF Next

\* A token keeps its owner for as long as it is good.
LEMMA OwnerStays ==
  ASSUME SessionTypeOK, SessionStep
  PROVE  /\ \A k \in issued : k \in issued'
         /\ \A k \in issued : Accepts(k)' =>
              Accepts(k) /\ sessions'[k].mailbox = sessions[k].mailbox
  BY SessionsStay

-----------------------------------------------------------------------------
(* What a step does to a request                                           *)

LEMMA RequestStays ==
  ASSUME PageInv, SessionStep, UNCHANGED <<cookie, view, user>>,
         overlap => overlap', NEW x \in Slots,
         slot'[x] = slot[x]
  PROVE  RequestOK(slot[x])'
  <1>1. RequestOK(slot[x])
    BY DEF PageInv, RequestsOK
  <1>2. SessionTypeOK
    BY DEF PageInv, TypeOK
  <1>3. \A k \in issued : k \in issued'
    BY <1>2, OwnerStays
  <1>4. \A m : Owns(slot[x].token, m) =>
                 /\ slot[x].token \in issued'
                 /\ Accepts(slot[x].token)' =>
                      sessions'[slot[x].token].mailbox = m
    BY <1>2, OwnerStays DEF Owns
  <1> QED BY <1>1, <1>3, <1>4 DEF RequestOK, Owns

LEMMA RequestIsLost ==
  ASSUME PageInv, SessionStep, UNCHANGED <<cookie, view, user>>,
         overlap => overlap', NEW x \in Slots, slot[x] # Free,
         slot'[x] = [slot[x] EXCEPT !.status = "lost"]
  PROVE  RequestOK(slot[x])'
  <1>1. RequestOK(slot[x])
    BY DEF PageInv, RequestsOK
  <1>2. slot[x].token \in issued => slot[x].token \in issued'
    BY OwnerStays DEF PageInv, TypeOK
  <1>3. slot[x] \in Requests
    BY DEF PageInv, TypeOK
  <1>4. /\ slot'[x].status = "lost"
        /\ slot'[x].kind = slot[x].kind /\ slot'[x].id = slot[x].id
        /\ slot'[x].token = slot[x].token /\ slot'[x].mb = slot[x].mb
        /\ slot'[x].attached = slot[x].attached
    BY <1>3 DEF Requests
  <1> QED BY <1>1, <1>2, <1>4 DEF RequestOK

LEMMA RequestIsGone ==
  ASSUME NEW x \in Slots, slot'[x] = Free
  PROVE  RequestOK(slot[x])'
  BY FreeFields, FreeIsNoRequest DEF RequestOK, Kinds

LEMMA RequestIsNew ==
  ASSUME NEW x \in Slots, NEW kind \in {"list", "logout"},
         slot'[x] = Fetch(kind, cookie'),
         view' # "blank", cookie' \in issued' \cup {None}
  PROVE  RequestOK(slot[x])'
  <1>1. /\ slot'[x].kind = kind /\ slot'[x].token = cookie'
        /\ slot'[x].attached = FALSE
    BY FetchFields
  <1> QED BY <1>1 DEF RequestOK

LEMMA RequestIsDetached ==
  ASSUME PageInv, SessionStep, view' # "blank", NEW x \in Slots,
         slot[x].kind # "me",
         slot[x].kind = "login" =>
           view' = "login" \/ (overlap' /\ view' = "inbox"),
         slot'[x] = [slot[x] EXCEPT !.attached = FALSE]
  PROVE  RequestOK(slot[x])'
  <1>1. RequestOK(slot[x]) /\ slot[x] \in Requests \cup {Free}
    BY DEF PageInv, TypeOK, RequestsOK
  <1>2. SessionTypeOK
    BY DEF PageInv, TypeOK
  <1>3. slot[x].token \in issued => slot[x].token \in issued'
    BY <1>2, OwnerStays
  <1>4. \A m : Owns(slot[x].token, m) =>
                 (Accepts(slot[x].token)' =>
                    sessions'[slot[x].token].mailbox = m)
    BY <1>2, OwnerStays DEF Owns
  <1>5. CASE slot[x] = Free
    BY <1>5, DetachedFree, RequestIsGone
  <1>6. CASE slot[x] \in Requests
    <2>1. /\ slot'[x].attached = FALSE
          /\ slot'[x].kind = slot[x].kind /\ slot'[x].id = slot[x].id
          /\ slot'[x].token = slot[x].token /\ slot'[x].mb = slot[x].mb
          /\ slot'[x].status = slot[x].status
      BY <1>6 DEF Requests
    <2> QED BY <1>1, <1>3, <1>4, <2>1 DEF RequestOK, Owns
  <1> QED BY <1>1, <1>5, <1>6

\* New requests are no logins and do not ask who it is.
LEMMA StillAlone ==
  ASSUME PageInv, overlap => overlap',
         \A x \in Slots :
           slot'[x].kind \in
             {slot[x].kind, None, "list", "logout", "detail", "delete"}
  PROVE  Alone'
  <1>1. None \notin {"me", "login"}
    BY FreeIsNoRequest DEF Kinds
  <1> QED BY <1>1 DEF PageInv, Alone

\* As long as the view and the user stay, so does what is said of them.
LEMMA PageStays ==
  ASSUME PageInv, SessionStep, UNCHANGED <<cookie, view, user, timer, live>>,
         overlap => overlap', view = "blank" => overlap' = overlap
  PROVE  /\ SessionTypeOK' /\ CookieIsIssued' /\ TimerOK'
         /\ CookieIsUsers' /\ OneInterval'
  <1>1. SessionTypeOK /\ SessionTypeOK'
    BY SessionStepType DEF PageInv, TypeOK
  <1>2. CookieIsIssued'
    BY <1>1, OwnerStays DEF PageInv, CookieIsIssued
  <1>3. CookieIsUsers'
    BY <1>1, OwnerStays DEF PageInv, CookieIsUsers, CookieIsIssued
  <1>4. TimerOK' /\ OneInterval'
    BY DEF PageInv, TimerOK, OneInterval
  <1> QED BY <1>1, <1>2, <1>3, <1>4

LEMMA OneRequest ==
  ASSUME PageInv, SessionStep, UNCHANGED <<cookie, view, user>>,
         overlap => overlap', NEW s \in Slots,
         NEW r \in Requests \cup {Free}, slot' = [slot EXCEPT ![s] = r],
         RequestOK(slot[s])'
  PROVE  /\ slot' \in [Slots -> Requests \cup {Free}]
         /\ slot'[s] = r
         /\ \A x \in Slots \ {s} : slot'[x] = slot[x]
         /\ RequestsOK'
  <1>1. /\ slot' \in [Slots -> Requests \cup {Free}] /\ slot'[s] = r
        /\ \A x \in Slots \ {s} : slot'[x] = slot[x]
    BY DEF PageInv, TypeOK
  <1> QED BY <1>1, RequestStays DEF RequestsOK

-----------------------------------------------------------------------------
(* Drawing                                                                 *)

\* The slots after a drawing: one takes an answer out and its place is free
\* or the list is asked for; the others are detached.
LEMMA DetachedType ==
  ASSUME TypeOK, NEW s \in Slots, NEW r \in Requests \cup {Free},
         slot' = [Detached(slot) EXCEPT ![s] = r]
         \/ (r = Free /\ slot' = Detached(Freed(s)))
  PROVE  /\ slot' \in [Slots -> Requests \cup {Free}]
         /\ slot'[s] = r
         /\ \A x \in Slots \ {s} :
              slot'[x] = [slot[x] EXCEPT !.attached = FALSE]
  <1>1. slot \in [Slots -> Requests \cup {Free}]
    BY DEF TypeOK
  <1>2. \A q \in Requests \cup {Free} :
          [q EXCEPT !.attached = FALSE] \in Requests \cup {Free}
    BY DetachedFree DEF Requests
  <1>3. CASE slot' = [Detached(slot) EXCEPT ![s] = r]
    BY <1>1, <1>2, <1>3 DEF Detached
  <1>4. CASE r = Free /\ slot' = Detached(Freed(s))
    <2>1. Freed(s) \in [Slots -> Requests \cup {Free}] /\ Freed(s)[s] = Free
          /\ \A x \in Slots \ {s} : Freed(s)[x] = slot[x]
      BY <1>1 DEF Freed
    <2>2. slot' = [x \in Slots |-> [Freed(s)[x] EXCEPT !.attached = FALSE]]
      BY <1>4 DEF Detached
    <2>3. slot'[s] = Free
      BY <2>1, <2>2, DetachedFree
    <2>4. slot' \in [Slots -> Requests \cup {Free}]
      BY <1>2, <2>1, <2>2
    <2> QED BY <1>4, <2>1, <2>2, <2>3, <2>4
  <1> QED BY <1>3, <1>4

\* renderLogin, whatever led to it.
LEMMA LoginDrawn ==
  ASSUME PageInv, NEW s \in Slots, RenderLogin,
         slot' = Detached(Freed(s)),
         \A x \in Slots \ {s} : slot[x].kind # "me",
         UNCHANGED <<server, overlap, faults>>,
         cookie' \in {cookie, None}, user' \in {user, None},
         selected' \in {selected, None}
  PROVE  PageInv'
  <1>1. /\ SessionStep /\ UNCHANGED sessionVars
        /\ issued' = issued /\ mail' = mail /\ arrived' = arrived
    BY DEF server, sessionVars, SessionStep
  <1>2. /\ view' = "login" /\ busy' = FALSE /\ timer' = FALSE
        /\ rows' = {} /\ pane' = NoCopy /\ trash' = {}
        /\ live' = IF timer THEN live - 1 ELSE live
    BY DEF RenderLogin, ClearPanes
  <1>3. /\ slot' \in [Slots -> Requests \cup {Free}]
        /\ slot'[s] = Free
        /\ \A x \in Slots \ {s} :
             slot'[x] = [slot[x] EXCEPT !.attached = FALSE]
    BY DetachedType DEF PageInv
  <1>4. CookieIsIssued'
    BY <1>1 DEF PageInv, CookieIsIssued
  <1>5. RequestsOK'
    BY <1>1, <1>2, <1>3, RequestIsGone, RequestIsDetached DEF RequestsOK
  <1>6. Alone'
    <2>1. \A x \in Slots : slot'[x].kind \in {slot[x].kind, None}
      BY <1>3, FreeFields DEF PageInv, TypeOK, Requests
    <2> QED BY <2>1, StillAlone
  <1>7. live' \in Nat /\ TimerOK' /\ OneInterval'
    <2>1. TimerOK'
      BY <1>2 DEF TimerOK
    <2>2. live \in Nat /\ (timer => live > 0) /\ timer = (view = "inbox")
      BY DEF PageInv, TypeOK, TimerOK
    <2>3. live' \in Nat
      BY <1>2, <2>2
    <2>4. ~overlap => live' = 0
      <3>1. CASE timer
        <4>1. ~overlap => live = 1
          BY <2>2, <3>1 DEF PageInv, OneInterval
        <4> QED BY <1>2, <3>1, <4>1
      <3>2. CASE ~timer
        <4>1. ~overlap => live = 0
          BY <2>2, <3>2 DEF PageInv, OneInterval
        <4> QED BY <1>2, <3>2, <4>1
      <3> QED BY <3>1, <3>2
    <2> QED BY <1>2, <2>1, <2>3, <2>4 DEF OneInterval
  <1>8. CookieIsUsers' /\ PaneIsUsers'
    BY <1>2 DEF CookieIsUsers, PaneIsUsers
  <1>9. SessionTypeOK'
    BY <1>1, SessionStepType DEF PageInv, TypeOK
  <1>10. TypeOK'
    BY <1>1, <1>2, <1>3, <1>7, <1>9 DEF PageInv, TypeOK
  <1> QED
    BY <1>4, <1>5, <1>6, <1>7, <1>8, <1>10 DEF PageInv

\* renderInbox, where no other checkAuth or login is under way.
LEMMA InboxDrawn ==
  ASSUME PageInv, NEW s \in Slots, NEW m \in Mailboxes \cup {None},
         RenderInbox(m, s),
         view # "inbox" \/ overlap,
         \A x \in Slots \ {s} :
           slot[x].kind # "me" /\ (slot[x].kind = "login" => overlap),
         UNCHANGED <<server, overlap, faults, selected>>,
         cookie' \in Tokens, Owns(cookie', m)
  PROVE  PageInv'
  <1>1. /\ SessionStep /\ UNCHANGED sessionVars
        /\ issued' = issued /\ mail' = mail /\ arrived' = arrived
    BY DEF server, sessionVars, SessionStep
  <1>2. /\ view' = "inbox" /\ busy' = FALSE /\ timer' = TRUE /\ user' = m
        /\ rows' = {} /\ pane' = NoCopy /\ trash' = {}
        /\ live' = live + 1
    BY DEF RenderInbox, ClearPanes
  <1>3. /\ slot' \in [Slots -> Requests \cup {Free}]
        /\ slot'[s] = Fetch("list", cookie')
        /\ \A x \in Slots \ {s} :
             slot'[x] = [slot[x] EXCEPT !.attached = FALSE]
    <2>1. Fetch("list", cookie') \in Requests
      BY FetchType DEF Kinds
    <2> QED BY <2>1, DetachedType DEF PageInv, RenderInbox
  <1>4. CookieIsIssued'
    BY <1>1 DEF CookieIsIssued, Owns
  <1>5. RequestsOK'
    <2>1. RequestOK(slot[s])'
      BY <1>2, <1>3, <1>4, RequestIsNew DEF CookieIsIssued
    <2>2. \A x \in Slots \ {s} : RequestOK(slot[x])'
      BY <1>1, <1>2, <1>3, RequestIsDetached
    <2> QED BY <2>1, <2>2 DEF RequestsOK
  <1>6. Alone'
    <2>1. slot'[s].kind = "list"
      BY <1>3, FetchFields
    <2>2. \A x \in Slots \ {s} : slot'[x].kind = slot[x].kind
      BY <1>3 DEF PageInv, TypeOK, Requests, Free, Fetch
    <2> QED BY <2>1, <2>2, StillAlone
  <1>7. live' \in Nat /\ TimerOK' /\ OneInterval'
    <2>1. live' \in Nat /\ live' > 0
      BY <1>2 DEF PageInv, TypeOK
    <2>2. TimerOK'
      BY <1>2, <2>1 DEF TimerOK
    <2>3. ~overlap => live' = 1
      BY <1>2 DEF PageInv, OneInterval
    <2> QED BY <1>2, <2>1, <2>2, <2>3 DEF OneInterval
  <1>8. PaneIsUsers'
    BY <1>2 DEF PaneIsUsers
  <1>9. CookieIsUsers'
    BY <1>1, <1>2 DEF CookieIsUsers, Owns, Accepts, InDict, Expired,
                      sessionVars
  <1>10. SessionTypeOK'
    BY <1>1, SessionStepType DEF PageInv, TypeOK
  <1>11. TypeOK'
    BY <1>1, <1>2, <1>3, <1>7, <1>10 DEF PageInv, TypeOK
  <1> QED
    BY <1>4, <1>5, <1>6, <1>7, <1>8, <1>9, <1>11 DEF PageInv

-----------------------------------------------------------------------------
(* Answers                                                                 *)

LEMMA ReceiveDraws ==
  ASSUME PageInv, NEW s \in Slots, UNCHANGED <<overlap, faults>>,
         \/ BackToLogin(s) \/ MeAnswered(s)
         \/ LoginAnswered(s) \/ LogoutAnswered(s)
  PROVE  PageInv'
  <1>1. /\ RequestsOK /\ Alone /\ issued \subseteq Tokens
        /\ RequestOK(slot[s]) /\ \A x \in Slots : RequestOK(slot[x])
    BY DEF PageInv, TypeOK, SessionTypeOK, RequestsOK
  <1>2. ASSUME slot[s].kind \in Kinds \ {"me"}
        PROVE  \A x \in Slots : slot[x].kind # "me"
    BY <1>1, <1>2, FreeIsNoRequest DEF RequestOK
  <1>3. slot[s].mb \in Mailboxes \cup {None}
    BY DEF PageInv, TypeOK, Requests, Free, Fetch
  <1>4. CASE BackToLogin(s)
    <2>1. \A x \in Slots : slot[x].kind # "me"
      BY <1>2, <1>4 DEF BackToLogin, Answered, Kinds
    <2> QED BY <1>4, <2>1, LoginDrawn DEF BackToLogin
  <1>5. CASE LogoutAnswered(s)
    <2>1. \A x \in Slots : slot[x].kind # "me"
      BY <1>2, <1>5 DEF LogoutAnswered, Answered, Kinds
    <2> QED BY <1>5, <2>1, LoginDrawn DEF LogoutAnswered
  <1>6. CASE MeAnswered(s)
    <2>1. slot[s].kind = "me" /\ view = "blank"
      BY <1>1, <1>6 DEF MeAnswered, Answered, RequestOK
    <2>2. \A x \in Slots \ {s} : slot[x].kind = None
      BY <1>1, <2>1 DEF RequestOK, Alone
    <2>3. None # "me" /\ None # "login"
      BY DEF None
    <2>4. CASE slot[s].status = "ok"
      <3>1. /\ RenderInbox(slot[s].mb, s)
            /\ UNCHANGED <<server, selected, cookie>>
        BY <1>6, <2>4 DEF MeAnswered
      <3>2. cookie \in Tokens /\ Owns(cookie, slot[s].mb)
        BY <1>1, <2>1, <2>4 DEF RequestOK, Owns
      <3> QED BY <1>3, <2>1, <2>2, <2>3, <3>1, <3>2, InboxDrawn
    <2>5. CASE slot[s].status # "ok"
      <3>1. /\ RenderLogin /\ slot' = Detached(Freed(s))
            /\ UNCHANGED <<server, selected, cookie, user>>
        BY <1>6, <2>5 DEF MeAnswered
      <3> QED BY <2>2, <2>3, <3>1, LoginDrawn
    <2> QED BY <2>4, <2>5
  <1>7. CASE LoginAnswered(s)
    <2>1. slot[s].kind = "login"
      BY <1>7 DEF LoginAnswered, Answered
    <2>2. \A x \in Slots : slot[x].kind # "me"
      BY <1>2, <2>1 DEF Kinds
    <2>3. view # "inbox" \/ overlap
      BY <1>1, <2>1 DEF RequestOK
    <2>4. \A x \in Slots \ {s} : slot[x].kind = "login" => overlap
      BY <1>1, <2>1 DEF Alone
    <2>5. CASE slot[s].status = "ok"
      <3>1. /\ RenderInbox(slot[s].mb, s) /\ cookie' = slot[s].token
            /\ UNCHANGED <<server, selected>>
        BY <1>7, <2>5 DEF LoginAnswered
      <3>2. cookie' \in Tokens /\ Owns(cookie', slot[s].mb)
        BY <1>1, <2>1, <2>5, <3>1 DEF RequestOK, Owns
      <3> QED BY <1>3, <2>2, <2>3, <2>4, <3>1, <3>2, InboxDrawn
    <2>6. CASE slot[s].status # "ok"
      <3>1. /\ RenderLogin /\ slot' = Detached(Freed(s))
            /\ UNCHANGED <<server, selected, cookie, user>>
        BY <1>7, <2>6 DEF LoginAnswered
      <3> QED BY <2>2, <3>1, LoginDrawn
    <2> QED BY <2>5, <2>6
  <1> QED BY <1>4, <1>5, <1>6, <1>7

LEMMA ReceiveStays ==
  ASSUME PageInv, NEW s \in Slots, UNCHANGED <<overlap, faults>>,
         \/ ListAnswered(s) \/ DetailAnswered(s)
         \/ DeleteAnswered(s) \/ Failed(s)
  PROVE  PageInv'
  <1>1. /\ UNCHANGED <<server, cookie, view, user, timer, live, busy>>
        /\ SessionStep /\ mail' = mail /\ arrived' = arrived
    BY DEF ListAnswered, DetailAnswered, DeleteAnswered, Failed, page,
           server, SessionStep, sessionVars
  <1>2. /\ RequestOK(slot[s]) /\ slot[s] \in Requests \cup {Free}
        /\ cookie \in issued' \cup {None} /\ cookie \in Tokens \cup {None}
    BY <1>1
    DEF PageInv, TypeOK, RequestsOK, CookieIsIssued, server, sessionVars
  <1>3. \/ slot' = [slot EXCEPT ![s] = Free]
        \/ view # "blank" /\ slot' = [slot EXCEPT ![s] = Fetch("list", cookie)]
    <2>1. CASE DeleteAnswered(s)
      <3>1. view # "blank"
        BY <1>2, <2>1 DEF DeleteAnswered, Answered, RequestOK, None
      <3> QED BY <2>1, <3>1 DEF DeleteAnswered, Freed
    <2>2. CASE ListAnswered(s) \/ DetailAnswered(s) \/ Failed(s)
      BY <2>2 DEF ListAnswered, DetailAnswered, Failed, Freed
    <2> QED BY <2>1, <2>2
  <1>4. /\ slot' \in [Slots -> Requests \cup {Free}]
        /\ RequestsOK' /\ Alone'
    <2>1. PICK r \in {Free, Fetch("list", cookie)} :
            /\ slot' = [slot EXCEPT ![s] = r]
            /\ r # Free => view # "blank"
      BY <1>3
    <2>2. r \in Requests \cup {Free}
      BY <1>2, FetchType DEF Kinds
    <2>3. slot'[s] = r
      BY <2>1 DEF PageInv, TypeOK
    <2>4. RequestOK(slot[s])'
      BY <1>1, <1>2, <2>1, <2>3, RequestIsGone, RequestIsNew
    <2>5. /\ slot' \in [Slots -> Requests \cup {Free}] /\ RequestsOK'
          /\ \A x \in Slots \ {s} : slot'[x] = slot[x]
      BY <1>1, <2>1, <2>2, <2>4, OneRequest
    <2>6. slot'[s].kind \in {None, "list"}
      BY <2>1, <2>3, FreeFields, FetchFields
    <2> QED BY <2>5, <2>6, StillAlone
  <1>5. SessionTypeOK' /\ CookieIsIssued' /\ TimerOK' /\ CookieIsUsers'
        /\ OneInterval'
    BY <1>1, PageStays
  <1>6. /\ PaneIsUsers' /\ rows' \subseteq Ids /\ trash' \subseteq Ids
        /\ pane' \in Copies \cup {NoCopy} /\ selected' \in Ids \cup {None}
    <2>1. /\ PaneIsUsers /\ rows \subseteq Ids /\ trash \subseteq Ids
          /\ pane \in Copies \cup {NoCopy} /\ selected \in Ids \cup {None}
      BY DEF PageInv, TypeOK
    <2>2. CASE ListAnswered(s)
      <3>1. slot[s].emails \subseteq Ids
        BY <1>2, <2>2, FreeIsNoRequest
        DEF ListAnswered, Answered, Kinds, Requests
      <3>2. rows' \subseteq Ids /\ UNCHANGED <<pane, trash, selected>>
        BY <2>1, <2>2, <3>1 DEF ListAnswered
      <3> QED BY <1>1, <2>1, <3>2 DEF PaneIsUsers
    <2>3. CASE DetailAnswered(s)
      <3>1. /\ slot[s].kind = "detail" /\ slot[s].id \in Ids
            /\ slot[s].status = "ok" =>
                 <<slot[s].mb, slot[s].id>> \in Copies
        BY <1>2, <2>3 DEF DetailAnswered, Answered, RequestOK
      <3>2. /\ UNCHANGED <<rows, selected>>
            /\ trash' \subseteq trash \cup {slot[s].id}
        BY <2>3 DEF DetailAnswered
      <3>3. \/ pane' = pane \/ pane' = NoCopy
            \/ /\ slot[s].attached /\ slot[s].status = "ok"
               /\ pane' = <<slot[s].mb, slot[s].id>>
        BY <2>3 DEF DetailAnswered
      <3>4. slot[s].attached /\ slot[s].status = "ok" =>
              view = "inbox" /\ slot[s].mb = user
        BY <1>2 DEF RequestOK
      <3>5. PaneIsUsers'
        BY <1>1, <2>1, <3>3, <3>4 DEF PaneIsUsers
      <3> QED BY <2>1, <3>1, <3>2, <3>3, <3>5
    <2>4. CASE DeleteAnswered(s)
      <3>1. /\ rows' = rows /\ trash' \subseteq trash
            /\ pane' \in {pane, NoCopy} /\ selected' \in {selected, None}
        BY <2>4 DEF DeleteAnswered
      <3> QED BY <1>1, <2>1, <3>1 DEF PaneIsUsers
    <2>5. CASE Failed(s)
      BY <1>1, <2>1, <2>5 DEF Failed, page, PaneIsUsers
    <2> QED BY <2>2, <2>3, <2>4, <2>5
  <1>7. TypeOK'
    BY <1>1, <1>4, <1>5, <1>6 DEF PageInv, TypeOK
  <1> QED BY <1>4, <1>5, <1>6, <1>7 DEF PageInv

-----------------------------------------------------------------------------
(* The server                                                              *)

LEMMA ServeType ==
  ASSUME TypeOK, NEW s \in Slots, slot[s] \in Requests,
         Serve(s), SessionStep
  PROVE  /\ slot'[s] \in Requests
         /\ slot' = [slot EXCEPT ![s] = slot'[s]]
         /\ mail' \subseteq arrived' /\ arrived' = arrived
         /\ slot'[s].kind = slot[s].kind /\ slot'[s].id = slot[s].id
         /\ slot'[s].attached = slot[s].attached
  <1>1. /\ slot \in [Slots -> Requests \cup {Free}]
        /\ issued \subseteq Tokens /\ mail \subseteq arrived
        /\ arrived \subseteq Copies
    BY DEF TypeOK, SessionTypeOK
  <1>2. CASE ServeLogin(s)
    <2>1. Tokens \ issued # {} => NewToken \in Tokens
      BY DEF NewToken
    <2>2. PICK r : /\ slot' = [slot EXCEPT ![s] = r]
                   /\ \/ /\ r = [slot[s] EXCEPT !.status = "ok",
                                                !.token = NewToken]
                         /\ NewToken \in Tokens
                      \/ r = [slot[s] EXCEPT !.status = "error"]
      BY <1>2, <2>1 DEF ServeLogin, Answer
    <2>3. /\ r \in Requests /\ r.kind = slot[s].kind /\ r.id = slot[s].id
          /\ r.attached = slot[s].attached
      BY <2>2 DEF Requests, Statuses
    <2>4. slot'[s] = r
      BY <1>1, <2>2
    <2> QED BY <1>1, <1>2, <2>2, <2>3, <2>4 DEF ServeLogin
  <1>3. CASE ServeLogout(s)
    <2>1. DEFINE r == [slot[s] EXCEPT !.status = "ok"]
    <2>2. slot' = [slot EXCEPT ![s] = r]
      BY <1>3 DEF ServeLogout, Answer
    <2>3. /\ r \in Requests /\ r.kind = slot[s].kind /\ r.id = slot[s].id
          /\ r.attached = slot[s].attached
      BY DEF Requests, Statuses
    <2>4. slot'[s] = r
      BY <1>1, <2>2
    <2> HIDE DEF r
    <2> QED BY <1>1, <1>3, <2>2, <2>3, <2>4 DEF ServeLogout
  <1>4. CASE ServeProtected(s)
    <2>1. MailboxOf(slot[s].token) \in Mailboxes \cup {None}
      BY DEF MailboxOf, TypeOK, SessionTypeOK, Sessions, Accepts, InDict,
             Requests
    <2>2. \A m : Emails(m) \subseteq Ids
      BY <1>1 DEF Emails, Ids
    <2>3. PICK m \in Mailboxes \cup {None}, status \in Statuses,
               emails \in SUBSET Ids :
            slot' = [slot EXCEPT ![s] =
              [slot[s] EXCEPT !.mb = m, !.status = status,
                              !.emails = emails]]
      <3> DEFINE m == MailboxOf(slot[s].token)
                 status == IF m = None THEN "401"
                   ELSE IF slot[s].id # None /\ <<m, slot[s].id>> \notin mail
                        THEN "error" ELSE "ok"
                 emails == IF slot[s].kind = "list" THEN Emails(m) ELSE {}
      <3>1. slot' = [slot EXCEPT ![s] =
              [slot[s] EXCEPT !.mb = m, !.status = status,
                              !.emails = emails]]
        BY <1>4 DEF ServeProtected, Answer
      <3>2. status \in Statuses
        BY DEF Statuses
      <3>3. emails \in SUBSET Ids
        BY <2>2
      <3> HIDE DEF m, status, emails
      <3> QED BY <2>1, <3>1, <3>2, <3>3 DEF m
    <2>4. DEFINE r == [slot[s] EXCEPT !.mb = m, !.status = status,
                                      !.emails = emails]
    <2>5. /\ r \in Requests /\ r.kind = slot[s].kind /\ r.id = slot[s].id
          /\ r.attached = slot[s].attached
      BY DEF Requests
    <2>6. slot' = [slot EXCEPT ![s] = r]
      BY <2>3
    <2>7. slot'[s] = r
      BY <1>1, <2>6
    <2>8. mail' \subseteq mail /\ arrived' = arrived
      BY <1>4 DEF ServeProtected
    <2> HIDE DEF r
    <2> QED BY <1>1, <2>5, <2>6, <2>7, <2>8
  <1> QED BY <1>2, <1>3, <1>4 DEF Serve

LEMMA ServeRequest ==
  ASSUME PageInv, NEW s \in Slots, slot[s] \in Requests, Serve(s),
         SessionStep
  PROVE  RequestOK(slot[s])'
  <1>1. /\ slot'[s].kind = slot[s].kind /\ slot'[s].id = slot[s].id
        /\ slot'[s].attached = slot[s].attached
    BY ServeType DEF PageInv
  <1>2. /\ RequestOK(slot[s]) /\ SessionTypeOK
        /\ issued \subseteq Tokens /\ mail \subseteq Copies
        /\ slot \in [Slots -> Requests \cup {Free}]
        /\ UNCHANGED <<cookie, view, user, overlap>>
    BY DEF PageInv, TypeOK, SessionTypeOK, RequestsOK, Serve, page
  <1>3. slot[s].token \in issued => slot[s].token \in issued'
    BY <1>2, OwnerStays
  <1>4. CASE ServeLogin(s)
    <2>1. slot[s].kind = "login"
      BY <1>4 DEF ServeLogin, Sent
    <2>2. PICK r : /\ slot' = [slot EXCEPT ![s] = r]
                   /\ \/ /\ r = [slot[s] EXCEPT !.status = "ok",
                                                !.token = NewToken]
                         /\ Tokens \ issued # {}
                         /\ \E p \in Passwords :
                              CreateSession(NewToken, slot[s].mb, p)
                      \/ r = [slot[s] EXCEPT !.status = "error"]
      BY <1>4 DEF ServeLogin, Answer
    <2>3. slot'[s] = r /\ r.mb = slot[s].mb
      BY <1>2, <2>2 DEF Requests
    <2>4. CASE r = [slot[s] EXCEPT !.status = "error"]
      <3>1. r.status = "error" /\ r.token = slot[s].token
        BY <2>4 DEF Requests
      <3> QED BY <1>1, <1>2, <1>3, <2>1, <2>3, <3>1 DEF RequestOK
    <2>5. CASE /\ r = [slot[s] EXCEPT !.status = "ok", !.token = NewToken]
               /\ Tokens \ issued # {}
               /\ \E p \in Passwords :
                    CreateSession(NewToken, slot[s].mb, p)
      <3>1. r.token = NewToken
        BY <2>5 DEF Requests
      <3>2. NewToken \in Tokens
        BY <2>5 DEF NewToken
      <3>3. /\ NewToken \in issued'
            /\ sessions'[NewToken].mailbox = slot[s].mb
        BY <2>5, <3>2 DEF CreateSession
      <3> QED
        BY <1>1, <1>2, <2>1, <2>3, <3>1, <3>3 DEF RequestOK, Owns
    <2> QED BY <2>2, <2>4, <2>5
  <1>5. CASE ServeLogout(s)
    <2>1. /\ slot[s].kind = "logout"
          /\ slot' = [slot EXCEPT ![s] = [slot[s] EXCEPT !.status = "ok"]]
      BY <1>5 DEF ServeLogout, Sent, Answer
    <2>2. slot'[s].token = slot[s].token
      BY <1>2, <2>1 DEF Requests
    <2> QED BY <1>1, <1>2, <1>3, <2>1, <2>2 DEF RequestOK
  <1>6. CASE ServeProtected(s)
    <2>1. slot[s].kind \in {"me", "list", "detail", "delete"}
      BY <1>6 DEF ServeProtected, Sent, Kinds
    <2>2. PICK m : m = MailboxOf(slot[s].token)
      OBVIOUS
    <2> DEFINE status == IF m = None THEN "401"
                 ELSE IF slot[s].id # None /\ <<m, slot[s].id>> \notin mail
                      THEN "error" ELSE "ok"
               emails == IF slot[s].kind = "list" THEN Emails(m) ELSE {}
    <2>3. slot' = [slot EXCEPT ![s] =
            [slot[s] EXCEPT !.mb = m, !.status = status,
                            !.emails = emails]]
      BY <1>6, <2>2 DEF ServeProtected, Answer
    <2>4. status = "ok" => /\ m # None
                           /\ slot[s].id = None
                              \/ <<m, slot[s].id>> \in mail
      OBVIOUS
    <2> HIDE DEF status, emails
    <2>5. /\ slot'[s].mb = m /\ slot'[s].status = status
          /\ slot'[s].token = slot[s].token
      BY <1>2, <2>3 DEF Requests
    <2>6. status = "ok" /\ slot[s].kind = "detail" =>
            <<m, slot[s].id>> \in Copies
      BY <1>2, <2>4, ClientAssumption DEF RequestOK
    <2>7. status = "ok" =>
            /\ slot[s].token # None /\ Accepts(slot[s].token)
            /\ sessions[slot[s].token].mailbox = m
      BY <2>2, <2>4 DEF MailboxOf
    <2>8. status = "ok" => Owns(slot[s].token, m)'
      <3>1. status = "ok" => slot[s].token \in issued
        BY <1>2, <2>7 DEF RequestOK
      <3> QED BY <1>2, <2>5, <2>7, <3>1, OwnerStays DEF Owns
    <2>9. status = "ok" /\ slot[s].attached => m = user
      BY <1>2, <2>7 DEF RequestOK, PageInv, CookieIsUsers
    <2>10. slot[s].kind \notin {"login", "logout"}
      BY <2>1
    <2> QED
      BY <1>1, <1>2, <1>3, <2>5, <2>6, <2>8, <2>9, <2>10 DEF RequestOK
  <1> QED BY <1>4, <1>5, <1>6 DEF Serve

LEMMA ServeKeeps ==
  ASSUME PageInv, NEW s \in Slots, Serve(s), SessionStep
  PROVE  PageInv'
  <1>1. slot[s] \in Requests
    BY FreeIsNoRequest
    DEF PageInv, TypeOK, Serve, ServeLogin, ServeLogout, ServeProtected,
        Sent, Kinds
  <1>2. /\ slot'[s] \in Requests
        /\ slot' = [slot EXCEPT ![s] = slot'[s]]
        /\ mail' \subseteq arrived' /\ arrived' = arrived
        /\ slot'[s].kind = slot[s].kind
    BY <1>1, ServeType DEF PageInv
  <1>3. UNCHANGED <<cookie, page, overlap, faults>>
    BY DEF Serve
  <1>4. RequestOK(slot[s])'
    BY <1>1, ServeRequest
  <1>5. /\ slot' \in [Slots -> Requests \cup {Free}] /\ RequestsOK'
        /\ \A x \in Slots \ {s} : slot'[x] = slot[x]
    <2>1. PICK r : r = slot'[s]
      OBVIOUS
    <2>2. r \in Requests \cup {Free} /\ slot' = [slot EXCEPT ![s] = r]
      BY <1>2, <2>1
    <2> QED BY <1>3, <1>4, <2>2, OneRequest DEF page
  <1>6. Alone'
    BY <1>2, <1>3, <1>5, StillAlone
  <1>7. SessionTypeOK' /\ CookieIsIssued' /\ TimerOK' /\ CookieIsUsers'
        /\ OneInterval'
    BY <1>3, PageStays DEF page
  <1>8. PaneIsUsers'
    BY <1>3 DEF PageInv, PaneIsUsers, page
  <1>9. TypeOK'
    BY <1>2, <1>3, <1>5, <1>7 DEF PageInv, TypeOK, page
  <1> QED BY <1>5, <1>6, <1>7, <1>8, <1>9 DEF PageInv

\* The steps that no request takes part in.
LEMMA IdleStep ==
  ASSUME PageInv, SessionStep,
         UNCHANGED <<cookie, slot, page, overlap, faults>>,
         mail' \subseteq arrived', arrived' \subseteq Copies
  PROVE  PageInv'
  <1>1. RequestsOK'
    BY RequestStays DEF RequestsOK, page
  <1>2. Alone'
    BY StillAlone
  <1>3. SessionTypeOK' /\ CookieIsIssued' /\ TimerOK' /\ CookieIsUsers'
        /\ OneInterval'
    BY PageStays DEF page
  <1>4. PaneIsUsers'
    BY DEF PageInv, PaneIsUsers, page
  <1>5. TypeOK'
    BY <1>3 DEF PageInv, TypeOK, page
  <1> QED BY <1>1, <1>2, <1>3, <1>4, <1>5 DEF PageInv

-----------------------------------------------------------------------------
(* The user, the clock and the faults                                      *)

LEMMA SendOne ==
  ASSUME PageInv, NEW s \in Slots, NEW r \in Requests,
         slot' = [slot EXCEPT ![s] = r], RequestOK(slot[s])',
         r.kind \in {"list", "logout", "detail", "delete"}
         \/ (r.kind = "login" /\ Alone'),
         UNCHANGED <<server, cookie, view, user, rows, pane, trash, timer,
                     live, faults>>,
         busy' \in BOOLEAN, overlap' \in BOOLEAN,
         selected' \in Ids \cup {None},
         overlap => overlap', view = "blank" => overlap' = overlap
  PROVE  PageInv'
  <1>1. SessionStep /\ mail' = mail /\ arrived' = arrived
    BY DEF server, SessionStep, sessionVars
  <1>2. /\ slot' \in [Slots -> Requests \cup {Free}] /\ slot'[s] = r
        /\ \A x \in Slots \ {s} : slot'[x] = slot[x]
        /\ RequestsOK'
    BY <1>1, OneRequest
  <1>3. Alone'
    BY <1>2, StillAlone
  <1>4. SessionTypeOK' /\ CookieIsIssued' /\ TimerOK' /\ CookieIsUsers'
        /\ OneInterval'
    BY <1>1, PageStays
  <1>5. PaneIsUsers'
    BY DEF PageInv, PaneIsUsers
  <1>6. TypeOK'
    BY <1>1, <1>2, <1>4 DEF PageInv, TypeOK
  <1> QED BY <1>2, <1>3, <1>4, <1>5, <1>6 DEF PageInv

LEMMA SendKeeps ==
  ASSUME PageInv, NEW s \in Slots,
         \/ \E m \in Mailboxes : SubmitLogin(s, m)
         \/ ClickLogout(s)
         \/ Poll(s)
         \/ \E e \in Ids : Select(s, e) \/ ClickTrash(s, e)
  PROVE  PageInv'
  <1>1. /\ cookie \in issued \cup {None} /\ cookie \in Tokens \cup {None}
        /\ slot \in [Slots -> Requests \cup {Free}]
        /\ busy \in BOOLEAN /\ overlap \in BOOLEAN
        /\ selected \in Ids \cup {None}
        /\ timer = (view = "inbox") /\ (view = "blank" => live = 0)
    BY DEF PageInv, TypeOK, CookieIsIssued, TimerOK
  <1>2. ASSUME NEW kind \in {"list", "logout"}, Send(s, Fetch(kind, cookie)),
               view # "blank",
               UNCHANGED <<server, cookie, page, overlap, faults>>
        PROVE  PageInv'
    <2>1. /\ slot' = [slot EXCEPT ![s] = Fetch(kind, cookie)]
          /\ issued' = issued
      BY <1>2 DEF Send, server, sessionVars
    <2>2. Fetch(kind, cookie) \in Requests
      BY <1>1, FetchType DEF Kinds
    <2>3. slot'[s] = Fetch(kind, cookie)
      BY <1>1, <2>1
    <2>4. RequestOK(slot[s])'
      BY <1>1, <1>2, <2>1, <2>3, RequestIsNew DEF page
    <2>5. Fetch(kind, cookie).kind \in {"list", "logout"}
      BY FetchFields
    <2> QED BY <1>1, <1>2, <2>1, <2>2, <2>4, <2>5, SendOne DEF page
  <1>3. CASE ClickLogout(s)
    BY <1>2, <1>3 DEF ClickLogout
  <1>4. CASE Poll(s)
    <2>1. view # "blank"
      BY <1>1, <1>4 DEF Poll
    <2> QED BY <1>2, <1>4, <2>1 DEF Poll
  <1>5. ASSUME NEW m \in Mailboxes, SubmitLogin(s, m)
        PROVE  PageInv'
    <2>1. PICK r : r = [Fetch("login", None) EXCEPT !.mb = m]
      OBVIOUS
    <2>2. /\ r \in Requests /\ r.kind = "login" /\ r.token = None
          /\ r.mb = m /\ r.status = "sent" /\ r.attached = FALSE
      BY <2>1 DEF Fetch, Requests, Kinds, Statuses
    <2>3. /\ slot' = [slot EXCEPT ![s] = r] /\ view = "login"
          /\ UNCHANGED <<server, cookie, view, user, selected, rows, pane,
                         trash, timer, live, faults>>
          /\ busy' = TRUE
      BY <1>5, <2>1 DEF SubmitLogin, Send
    <2>4. overlap' = (overlap \/ \E x \in Slots : slot[x].kind = "login")
      BY <1>5 DEF SubmitLogin
    <2>5. slot'[s] = r /\ \A x \in Slots \ {s} : slot'[x] = slot[x]
      BY <1>1, <2>3
    <2>6. RequestOK(slot[s])'
      BY <2>2, <2>3, <2>5 DEF RequestOK
    <2>7. Alone'
      BY <2>2, <2>4, <2>5 DEF Alone, PageInv
    <2>8. overlap' \in BOOLEAN /\ (overlap => overlap')
      BY <2>4
    <2> QED BY <1>1, <2>2, <2>3, <2>6, <2>7, <2>8, SendOne
  <1>6. ASSUME NEW e \in Ids, Select(s, e)
        PROVE  PageInv'
    <2>1. PICK r :
            r = [Fetch("detail", cookie) EXCEPT !.id = e, !.attached = TRUE]
      OBVIOUS
    <2>2. /\ r \in Requests /\ r.kind = "detail" /\ r.token = cookie
          /\ r.id = e /\ r.status = "sent"
      BY <1>1, <2>1 DEF Fetch, Requests, Kinds, Statuses
    <2>3. /\ slot' = [slot EXCEPT ![s] = r] /\ view = "inbox"
          /\ UNCHANGED <<server, cookie, view, busy, user, rows, pane, trash,
                         timer, live, overlap, faults>>
          /\ selected' = e
      BY <1>6, <2>1 DEF Select, Send
    <2>4. slot'[s] = r /\ issued' = issued
      BY <1>1, <2>3 DEF server, sessionVars
    <2>5. RequestOK(slot[s])'
      BY <1>1, <2>2, <2>3, <2>4 DEF RequestOK
    <2> QED BY <1>1, <2>2, <2>3, <2>5, SendOne
  <1>7. ASSUME NEW e \in Ids, ClickTrash(s, e)
        PROVE  PageInv'
    <2>1. PICK r : r = [Fetch("delete", cookie) EXCEPT !.id = e]
      OBVIOUS
    <2>2. /\ r \in Requests /\ r.kind = "delete" /\ r.token = cookie
          /\ r.attached = FALSE
      BY <1>1, <2>1 DEF Fetch, Requests, Kinds, Statuses
    <2>3. /\ slot' = [slot EXCEPT ![s] = r] /\ view = "inbox"
          /\ UNCHANGED <<server, cookie, page, overlap, faults>>
      BY <1>7, <2>1 DEF ClickTrash, Send
    <2>4. slot'[s] = r /\ issued' = issued
      BY <1>1, <2>3 DEF server, sessionVars
    <2>5. RequestOK(slot[s])'
      BY <1>1, <2>2, <2>3, <2>4 DEF RequestOK, page
    <2> QED BY <1>1, <2>2, <2>3, <2>5, SendOne DEF page
  <1> QED BY <1>3, <1>4, <1>5, <1>6, <1>7

LEMMA FaultKeeps ==
  ASSUME PageInv, Restart \/ \E s \in Slots : Lose(s) \/ Reload(s)
  PROVE  PageInv'
  <1>1. /\ faults' \in 0..MaxFaults
        /\ slot \in [Slots -> Requests \cup {Free}]
    <2>1. /\ faults \in 0..MaxFaults /\ MaxFaults \in Nat
          /\ slot \in [Slots -> Requests \cup {Free}]
      BY ClientAssumption DEF PageInv, TypeOK
    <2>2. faults < MaxFaults /\ faults' = faults + 1
      BY DEF Restart, Lose, Reload, Fault
    <2> QED BY <2>1, <2>2
  <1>2. ASSUME UNCHANGED <<cookie, page, overlap>>, SessionStep,
               mail' = mail, arrived' = arrived,
               slot' \in [Slots -> Requests \cup {Free}],
               \A x \in Slots :
                 \/ slot'[x] = slot[x]
                 \/ /\ slot[x] # Free
                    /\ slot'[x] = [slot[x] EXCEPT !.status = "lost"]
        PROVE  PageInv'
    <2>1. RequestsOK'
      BY <1>2, RequestStays, RequestIsLost DEF RequestsOK, page
    <2>2. \A x \in Slots : slot'[x].kind = slot[x].kind
      BY <1>1, <1>2 DEF Requests
    <2>3. Alone'
      BY <1>2, <2>2, StillAlone
    <2>4. SessionTypeOK' /\ CookieIsIssued' /\ TimerOK' /\ CookieIsUsers'
          /\ OneInterval'
      BY <1>2, PageStays DEF page
    <2>5. PaneIsUsers'
      BY <1>2 DEF PageInv, PaneIsUsers, page
    <2>6. TypeOK'
      BY <1>1, <1>2, <2>4 DEF PageInv, TypeOK, page
    <2> QED BY <2>1, <2>3, <2>4, <2>5, <2>6 DEF PageInv
  <1>3. \A r \in Requests : [r EXCEPT !.status = "lost"] \in Requests
    BY DEF Requests, Statuses
  <1>4. ASSUME NEW s \in Slots, Lose(s)
        PROVE  PageInv'
    <2>1. /\ slot[s] # Free
          /\ slot' = [slot EXCEPT ![s].status = "lost"]
          /\ UNCHANGED <<server, cookie, page, overlap>>
      BY <1>4 DEF Lose, IsFree
    <2>2. /\ SessionStep /\ mail' = mail /\ arrived' = arrived
      BY <2>1 DEF server, SessionStep, sessionVars
    <2>3. /\ slot'[s] = [slot[s] EXCEPT !.status = "lost"]
          /\ \A x \in Slots \ {s} : slot'[x] = slot[x]
          /\ slot' \in [Slots -> Requests \cup {Free}]
      BY <1>1, <1>3, <2>1
    <2> QED BY <1>2, <2>1, <2>2, <2>3
  <1>5. CASE Restart
    <2>1. slot' = [s \in Slots |->
            IF slot[s].status = "sent" /\ ~IsFree(s)
              THEN [slot[s] EXCEPT !.status = "lost"] ELSE slot[s]]
      BY <1>5 DEF Restart
    <2>2. /\ \A x \in Slots :
               \/ slot'[x] = slot[x]
               \/ /\ slot[x] # Free
                  /\ slot'[x] = [slot[x] EXCEPT !.status = "lost"]
          /\ slot' \in [Slots -> Requests \cup {Free}]
      BY <1>1, <1>3, <2>1 DEF IsFree
    <2> QED BY <1>2, <1>5, <2>2 DEF Restart, SessionStep
  <1>6. ASSUME NEW s \in Slots, Reload(s)
        PROVE  PageInv'
    <2>1. /\ slot' = [x \in Slots |->
               IF x = s THEN Fetch("me", cookie) ELSE Free]
          /\ view' = "blank" /\ busy' = FALSE /\ user' = None
          /\ selected' = None /\ timer' = FALSE /\ live' = 0
          /\ rows' = {} /\ pane' = NoCopy /\ trash' = {}
          /\ overlap' = FALSE /\ UNCHANGED <<server, cookie>>
      BY <1>6 DEF Reload, ClearPanes
    <2>2. SessionStep /\ mail' = mail /\ arrived' = arrived
      BY <2>1 DEF server, SessionStep, sessionVars
    <2>3. SessionTypeOK' /\ CookieIsIssued'
      BY <2>1, <2>2, SessionStepType
      DEF PageInv, TypeOK, CookieIsIssued, server, sessionVars
    <2>4. Fetch("me", cookie) \in Requests
      BY FetchType DEF PageInv, TypeOK, Kinds
    <2>5. slot' \in [Slots -> Requests \cup {Free}]
      BY <2>1, <2>4
    <2>6. RequestOK(slot[s])'
      <3>1. slot'[s].kind = "me" /\ slot'[s].token = cookie'
            /\ slot'[s].status = "sent" /\ slot'[s].attached = FALSE
        BY <2>1, FetchFields
      <3> QED BY <2>1, <2>3, <3>1 DEF RequestOK, CookieIsIssued
    <2>7. RequestsOK'
      BY <2>1, <2>6, RequestIsGone DEF RequestsOK
    <2>8. Alone'
      <3>1. \A x \in Slots \ {s} : slot'[x].kind = None
        BY <2>1, FreeFields
      <3>2. None \notin {"me", "login"} /\ slot'[s].kind = "me"
        BY <2>1, FetchFields, FreeIsNoRequest DEF Kinds
      <3> QED BY <3>1, <3>2 DEF Alone
    <2>9. TimerOK' /\ OneInterval'
      BY <2>1 DEF TimerOK, OneInterval
    <2>10. CookieIsUsers' /\ PaneIsUsers'
      BY <2>1 DEF CookieIsUsers, PaneIsUsers
    <2>11. TypeOK'
      BY <1>1, <2>1, <2>2, <2>3, <2>5 DEF PageInv, TypeOK
    <2> QED
      BY <2>3, <2>7, <2>8, <2>9, <2>10, <2>11 DEF PageInv
  <1> QED BY <1>4, <1>5, <1>6

-----------------------------------------------------------------------------
(* The theorems                                                            *)

LEMMA InitPage == Init => PageInv
  <1> SUFFICES ASSUME Init PROVE PageInv
    OBVIOUS
  <1>1. PICK s \in Slots :
          slot = [x \in Slots |-> IF x = s THEN Fetch("me", None) ELSE Free]
    BY DEF Init
  <1>2. /\ view = "blank" /\ busy = FALSE /\ user = None /\ selected = None
        /\ rows = {} /\ pane = NoCopy /\ trash = {} /\ timer = FALSE
        /\ live = 0 /\ overlap = FALSE /\ faults = 0 /\ cookie = None
        /\ mail = {} /\ arrived = {}
    BY DEF Init
  <1>3. SessionTypeOK
    BY DEF Init, SessionInit, SessionTypeOK
  <1>4. slot \in [Slots -> Requests \cup {Free}]
    <2>1. Fetch("me", None) \in Requests
      BY FetchType DEF Kinds
    <2> QED BY <1>1, <2>1
  <1>5. TypeOK
    <2>1. live \in Nat /\ faults \in 0..MaxFaults
      BY <1>2, ClientAssumption
    <2>2. busy \in BOOLEAN /\ timer \in BOOLEAN /\ overlap \in BOOLEAN
      BY <1>2
    <2>3. /\ mail \subseteq arrived /\ arrived \subseteq Copies
          /\ cookie \in Tokens \cup {None} /\ user \in Mailboxes \cup {None}
          /\ selected \in Ids \cup {None} /\ pane \in Copies \cup {NoCopy}
          /\ rows \subseteq Ids /\ trash \subseteq Ids
          /\ view \in {"blank", "login", "inbox"}
      BY <1>2
    <2> QED BY <1>3, <1>4, <2>1, <2>2, <2>3 DEF TypeOK
  <1>6. /\ slot[s].kind = "me" /\ slot[s].token = None
        /\ slot[s].status = "sent" /\ slot[s].attached = FALSE
        /\ \A x \in Slots \ {s} :
             /\ slot[x].kind = None /\ slot[x].token = None
             /\ slot[x].attached = FALSE
    BY <1>1, FetchFields, FreeFields
  <1>7. None \notin {"me", "login", "detail"}
    BY FreeIsNoRequest DEF Kinds
  <1>8. RequestsOK /\ Alone
    BY <1>2, <1>6, <1>7 DEF RequestsOK, RequestOK, Alone
  <1>9. /\ CookieIsIssued /\ TimerOK /\ CookieIsUsers /\ PaneIsUsers
        /\ OneInterval
    BY <1>2
    DEF CookieIsIssued, TimerOK, CookieIsUsers, PaneIsUsers, OneInterval
  <1> QED BY <1>5, <1>8, <1>9 DEF PageInv

LEMMA NextPage == PageInv /\ [Next]_vars => PageInv'
  <1> SUFFICES ASSUME PageInv, [Next]_vars PROVE PageInv'
    OBVIOUS
  <1>1. SessionStep
    BY StepOfSessions
  <1>2. mail \subseteq arrived /\ arrived \subseteq Copies
    BY DEF PageInv, TypeOK
  <1>3. ASSUME NEW c \in Copies, Arrive(c)
        PROVE  PageInv'
    BY <1>1, <1>2, <1>3, IdleStep DEF Arrive
  <1>4. CASE Expire
    BY <1>1, <1>2, <1>4, IdleStep DEF Expire
  <1>5. CASE UNCHANGED vars
    BY <1>1, <1>2, <1>5, IdleStep DEF vars, server
  <1>6. ASSUME NEW s \in Slots, Receive(s)
        PROVE  PageInv'
    BY <1>6, ReceiveDraws, ReceiveStays DEF Receive
  <1> QED
    BY <1>1, <1>3, <1>4, <1>5, <1>6, ServeKeeps, SendKeeps, FaultKeeps
    DEF Next

\* The invariant of the proofs: which answers can be under way in which view,
\* and for whom (app.js:105-114, 145-165, 197-202, 233-312).
THEOREM SpecPageInv == Spec => []PageInv
  BY InitPage, NextPage, PTL DEF Spec

\* Every variable keeps its type, however the callbacks interleave: in
\* particular the number of running intervals never drops below zero, and
\* nothing is drawn that never arrived.
THEOREM TypeCorrect == Spec => []TypeOK
  BY SpecPageInv, PTL DEF PageInv

\* The inbox in view is never that of another mailbox than the session the
\* browser holds (app.js:157-160, 197-202).
THEOREM InboxIsOfTheSession == Spec => []CookieIsUsers
  BY SpecPageInv, PTL DEF PageInv

\* No late answer puts an email of another mailbox into the detail pane
\* (app.js:299-312).  The rows of the list are another matter: what a former
\* user asked for can be drawn in them, until the next poll is answered.
THEOREM PaneIsOfTheUser == Spec => []PaneIsUsers
  BY SpecPageInv, PTL DEF PageInv

\* Without overlapping logins no interval is ever left running, nor lost
\* (app.js:117-120, 210).
THEOREM IntervalsAreCleared == Spec => []OneInterval
  BY SpecPageInv, PTL DEF PageInv
=============================================================================
