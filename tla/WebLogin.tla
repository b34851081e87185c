------------------------------- MODULE WebLogin -------------------------------
(***************************************************************************)
(* Logging in to the web process: POST /api/login and /api/logout          *)
(* (web/app.py), MailboxAuth.login (web/mailbox_auth.py), and the session  *)
(* that every other route asks for.                                        *)
(*                                                                         *)
(* The routes run on a pool of threads.  The limiter and the sessions have *)
(* a lock each; credentials.json is reached by system calls and has none.  *)
(* A username that is not an address is answered 401 and touches nothing,  *)
(* so a login is for a mailbox here.                                       *)
(***************************************************************************)
EXTENDS LoginRateLimiter, SessionStore, FiniteSets

CONSTANTS
  Threads,       \* the threads of the pool: bounds the logins in progress
  Faults         \* may the process crash, or a write fail?

(***************************************************************************)
(* What credentials.json of a mailbox holds: there is none, it is created  *)
(* and still empty, or it is the hash of a password, for which the         *)
(* password itself stands.                                                 *)
(***************************************************************************)
Absent == "absent"
Empty  == "empty"

ASSUME LoginAssumption ==
  /\ IsFiniteSet(Threads)
  /\ Faults \in BOOLEAN
  /\ Passwords \cap {Absent, Empty} = {}

VARIABLES
  creds,     \* creds[m]
  thread     \* the login that each thread serves

vars == <<failures, sessionVars, creds, thread>>

Logins ==
  [pc : {"idle", "claim", "write", "verify", "refused", "accepted", "create"},
   mb : Mailboxes \cup {"none"},
   pw : Passwords \cup {NoPassword}]

Idle == [pc |-> "idle", mb |-> "none", pw |-> NoPassword]

LoginTypeOK ==
  /\ creds  \in [Mailboxes -> Passwords \cup {Absent, Empty}]
  /\ thread \in [Threads -> Logins]
  /\ \A t \in Threads : thread[t].pc # "idle" => thread[t].mb \in Mailboxes
  /\ \A t \in Threads :
       thread[t].pc \notin {"idle", "refused"} => thread[t].pw \in Passwords

Init ==
  /\ LimiterInit
  /\ SessionInit
  /\ creds  = [m \in Mailboxes |-> Absent]
  /\ thread = [t \in Threads |-> Idle]

At(t, pc)   == thread[t].pc = pc
GoTo(t, pc) == thread' = [thread EXCEPT ![t].pc = pc]
Finish(t)   == thread' = [thread EXCEPT ![t] = Idle]

\* Mutant: an empty password is as good as any.
AdmitEmpty(t, m, p) ==
  /\ DropRolledOver(m)
  /\ thread' = [thread EXCEPT ![t] = [pc |-> "claim", mb |-> m, pw |-> p]]

\* Past the limiter.  MailboxAuth.login refuses an empty password at once.
Admit(t, m, p) ==
  /\ DropRolledOver(m)
  /\ thread' = [thread EXCEPT ![t] =
       [pc |-> IF p = NoPassword THEN "refused" ELSE "claim",
        mb |-> m, pw |-> p]]

\* Mutant: an attempt that is answered 429 starts the window again.
LoginCheckExtends(t, m, p) ==
  /\ At(t, "idle")
  /\ IF IsLimited(m)
       THEN /\ failures' = [failures EXCEPT ![m].age = 0]
            /\ UNCHANGED thread
       ELSE Admit(t, m, p)
  /\ UNCHANGED <<sessionVars, creds>>

\* A mailbox that is limited is answered 429, which changes nothing.
LoginCheck(t, m, p) ==
  /\ At(t, "idle")
  /\ ~IsLimited(m)
  /\ Admit(t, m, p)
  /\ UNCHANGED <<sessionVars, creds>>

\* Mutant: a record that is still empty is open to be claimed.
LoginClaimEmpty(t) ==
  /\ At(t, "claim")
  /\ IF creds[thread[t].mb] \in {Absent, Empty}
       THEN creds' = [creds EXCEPT ![thread[t].mb] = Empty] /\ GoTo(t, "write")
       ELSE GoTo(t, "verify") /\ UNCHANGED creds
  /\ UNCHANGED <<failures, sessionVars>>

\* os.open with O_CREAT and O_EXCL: one login finds that there is no file.
LoginClaim(t) ==
  /\ At(t, "claim")
  /\ IF creds[thread[t].mb] = Absent
       THEN creds' = [creds EXCEPT ![thread[t].mb] = Empty] /\ GoTo(t, "write")
       ELSE GoTo(t, "verify") /\ UNCHANGED creds
  /\ UNCHANGED <<failures, sessionVars>>

\* The hash takes its time; only then is there anything in the file.
LoginWrite(t) ==
  /\ At(t, "write")
  /\ creds' = [creds EXCEPT ![thread[t].mb] = thread[t].pw]
  /\ GoTo(t, "accepted")
  /\ UNCHANGED <<failures, sessionVars>>

\* The disk is full, say: 500.
LoginWriteFails(t) ==
  /\ Faults
  /\ At(t, "write")
  /\ Finish(t)
  /\ UNCHANGED <<failures, sessionVars, creds>>

\* Mutant: whoever finds a record that does not parse is let in.
LoginVerifyLenient(t) ==
  /\ At(t, "verify")
  /\ GoTo(t, IF creds[thread[t].mb] \in {thread[t].pw, Empty}
               THEN "accepted" ELSE "refused")
  /\ UNCHANGED <<failures, sessionVars, creds>>

\* An empty file does not parse, which is a ValueError: refused.
LoginVerify(t) ==
  /\ At(t, "verify")
  /\ GoTo(t, IF creds[thread[t].mb] = thread[t].pw
               THEN "accepted" ELSE "refused")
  /\ UNCHANGED <<failures, sessionVars, creds>>

LoginRefused(t) ==
  /\ At(t, "refused")
  /\ RecordFailure(thread[t].mb)
  /\ Finish(t)
  /\ UNCHANGED <<sessionVars, creds>>

LoginAccepted(t) ==
  /\ At(t, "accepted")
  /\ Reset(thread[t].mb)
  /\ GoTo(t, "create")
  /\ UNCHANGED <<sessionVars, creds>>

LoginCreate(t, k) ==
  /\ At(t, "create")
  /\ CreateSession(k, thread[t].mb, thread[t].pw)
  /\ Finish(t)
  /\ UNCHANGED <<failures, creds>>

\* A request on any other route: require_session.
Request(k) == GetSession(k) /\ UNCHANGED <<failures, creds, thread>>

Logout(k) == DeleteSession(k) /\ UNCHANGED <<failures, creds, thread>>

Tick == AgeFailures /\ AgeSessions /\ UNCHANGED <<creds, thread>>

\* A restart loses all but credentials.json.
WebCrash ==
  /\ Faults
  /\ failures' = [m \in Mailboxes |-> NoFailures]
  /\ LoseSessions
  /\ thread' = [t \in Threads |-> Idle]
  /\ UNCHANGED creds

LoginStep(t) ==
  \/ LoginClaim(t)
  \/ LoginWrite(t)
  \/ LoginWriteFails(t)
  \/ LoginVerify(t)
  \/ LoginRefused(t)
  \/ LoginAccepted(t)
  \/ \E k \in Tokens : LoginCreate(t, k)

Next ==
  \/ \E t \in Threads, m \in Mailboxes, p \in Passwords \cup {NoPassword} :
       LoginCheck(t, m, p)
  \/ \E t \in Threads : LoginStep(t)
  \/ \E k \in Tokens : Request(k) \/ Logout(k)
  \/ Tick
  \/ WebCrash

Spec == Init /\ [][Next]_vars

\* Time passes, whatever the logins do.
FairSpec == Spec /\ WF_vars(Tick)

-----------------------------------------------------------------------------
TypeOK == LimiterTypeOK /\ SessionTypeOK /\ LoginTypeOK

\* Each session was opened with the password its mailbox has: of the logins
\* that race to claim a mailbox, those that lose get no session unless they
\* gave the password that won (mailbox_auth.py:52-69).
SessionsAreEarned ==
  \A k \in Tokens : InDict(k) => creds[sessions[k].mailbox] = sessions[k].by

\* The password a mailbox was claimed with is its password from then on
\* (mailbox_auth.py:12-15), across races, failed writes and restarts.
PasswordKept ==
  [][\A m \in Mailboxes : creds[m] \in Passwords => creds'[m] = creds[m]]_vars

\* The inductive invariant behind SessionsAreEarned and PasswordKept: a
\* record that is being written has one writer and is still empty, and a
\* login that has been accepted gave the password the mailbox has.
ClaimInv ==
  /\ \A t \in Threads : At(t, "write") => creds[thread[t].mb] = Empty
  /\ \A t, u \in Threads :
       /\ At(t, "write") /\ At(u, "write")
       /\ thread[t].mb = thread[u].mb
       => t = u
  /\ \A t \in Threads :
       thread[t].pc \in {"accepted", "create"}
         => creds[thread[t].mb] = thread[t].pw
  /\ SessionsAreEarned

\* A token that was logged out, or has run out, is not accepted again,
\* although the store drops expired ones lazily (session_store.py:39-65).
EndedIsRefused == \A k \in ended : ~Accepts(k)

\* The logins for m that is_limited has let through and that may yet fail.
InFlight(m) ==
  {t \in Threads : thread[t].mb = m /\ thread[t].pc # "idle"}

\* The check and the count are two steps, so the count may pass MaxAttempts,
\* but by no more than the logins that were let through together
\* (app.py:115-121).
FailuresBounded ==
  \A m \in Mailboxes :
    failures[m].count + Cardinality(InFlight(m))
      <= MaxAttempts - 1 + Cardinality(Threads)

\* The window of a lockout is not started again: logins that were let through
\* before it began and fail during it count, but the window only gets older
\* or is dropped (login_rate_limit.py:38-43).
LockoutKeepsItsWindow ==
  [][\A m \in Mailboxes :
       IsLimited(m) => \/ failures'[m] = NoFailures
                       \/ failures'[m].age >= failures[m].age]_vars

\* A mailbox that is limited is limited for one window: attempts that are
\* answered 429 do not prolong it (login_rate_limit.py:14-18).
LockoutEnds == \A m \in Mailboxes : IsLimited(m) ~> ~IsLimited(m)

\* What a mailbox has for a password, and the sessions a request may use.
PasswordOf(m) == IF creds[m] \in Passwords THEN creds[m] ELSE Absent

OpenSessions ==
  {[token |-> k, mailbox |-> sessions[k].mailbox, by |-> sessions[k].by] :
     k \in {x \in Tokens : Accepts(x)}}

Promise == INSTANCE Access WITH
  Unclaimed <- Absent,
  password  <- [m \in Mailboxes |-> PasswordOf(m)],
  open      <- OpenSessions,
  spent     <- issued

\* The logins implement Access: whatever the threads, the clock, the sweeps
\* and the restarts do is one of its steps, or changes nothing it speaks of.
ImplementsAccess == Promise!Spec

\* The first login of a mailbox gives it its password, so a record that is
\* still empty is being written (mailbox_auth.py:12-15).
ClaimIsFinished ==
  \A m \in Mailboxes :
    creds[m] = Empty => \E t \in Threads : At(t, "write") /\ thread[t].mb = m
=============================================================================
