----------------------------- MODULE SessionStore -----------------------------
(***************************************************************************)
(* SessionStore (web/session_store.py): tokens of logged-in browsers, kept *)
(* in memory.  _lock is held by every method, so each is one step.  Time   *)
(* is kept as the age of a session, which stops at MaxAge.                 *)
(***************************************************************************)
EXTENDS Integers, Accounts

CONSTANTS
  Tokens,   \* secrets.token_urlsafe(32), never drawn twice
  MaxAge    \* SESSION_MAX_AGE_SECONDS, in ticks

ASSUME SessionAssumption == MaxAge \in Nat \ {0}

VARIABLES
  sessions,  \* _sessions, NoSession where the dict has no such token
  issued,    \* the tokens drawn so far
  ended      \* history: the tokens that were logged out, that have run out,
             \* or that were lost in a restart

sessionVars == <<sessions, issued, ended>>

\* No login was made with NoPassword, so this is no session.
NoSession == [mailbox |-> "none", by |-> NoPassword, age |-> 0]

\* The field "by" is history: the password the login was made with.
Sessions == [mailbox : Mailboxes, by : Passwords, age : 0..MaxAge]

SessionTypeOK ==
  /\ sessions \in [Tokens -> Sessions \cup {NoSession}]
  /\ issued \subseteq Tokens
  /\ ended  \subseteq issued
  /\ \A k \in Tokens : sessions[k] # NoSession => k \in issued

SessionInit ==
  /\ sessions = [k \in Tokens |-> NoSession]
  /\ issued   = {}
  /\ ended    = {}

InDict(k)  == sessions[k] # NoSession
Expired(k) == InDict(k) /\ sessions[k].age >= MaxAge

\* A request that carries the token k is let in.
Accepts(k) == InDict(k) /\ ~Expired(k)

\* create sweeps what has expired, then adds the new session.
CreateSession(k, m, p) ==
  /\ k \notin issued
  /\ sessions' = [x \in Tokens |->
       IF x = k THEN [mailbox |-> m, by |-> p, age |-> 0]
       ELSE IF Expired(x) THEN NoSession ELSE sessions[x]]
  /\ issued' = issued \cup {k}
  /\ UNCHANGED ended

\* Mutant: a session that is used starts its lifetime again, late or not.
GetSessionRenews(k) ==
  /\ k \in issued
  /\ sessions' = IF InDict(k) THEN [sessions EXCEPT ![k].age = 0] ELSE sessions
  /\ UNCHANGED <<issued, ended>>

\* get evicts the session it finds expired.
GetSession(k) ==
  /\ k \in issued
  /\ sessions' = IF Expired(k) THEN [sessions EXCEPT ![k] = NoSession]
                 ELSE sessions
  /\ UNCHANGED <<issued, ended>>

\* Mutant: logging out clears the browser's cookie and no more.
DeleteSessionCookieOnly(k) ==
  /\ k \in issued
  /\ ended' = ended \cup {k}
  /\ UNCHANGED <<sessions, issued>>

DeleteSession(k) ==
  /\ k \in issued
  /\ sessions' = [sessions EXCEPT ![k] = NoSession]
  /\ ended' = ended \cup {k}
  /\ UNCHANGED issued

OlderBy1(s) ==
  IF s = NoSession \/ s.age = MaxAge THEN s ELSE [s EXCEPT !.age = @ + 1]

AgeSessions ==
  /\ sessions' = [k \in Tokens |-> OlderBy1(sessions[k])]
  /\ ended' = ended \cup
       {k \in Tokens : InDict(k) /\ sessions[k].age + 1 >= MaxAge}
  /\ UNCHANGED issued

LoseSessions ==
  /\ sessions' = [k \in Tokens |-> NoSession]
  /\ ended'    = issued
  /\ UNCHANGED issued
=============================================================================
