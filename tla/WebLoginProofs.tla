---------------------------- MODULE WebLoginProofs ----------------------------
(***************************************************************************)
(* Theorems about WebLogin, for every value of its constants.              *)
(***************************************************************************)
EXTENDS WebLogin, SessionStoreProofs, TLAPS, FiniteSetTheorems

-----------------------------------------------------------------------------
(* Type correctness                                                        *)

LEMMA InitType == Init => TypeOK
  BY LimiterAssumption, SessionAssumption
  DEF Init, LimiterInit, SessionInit, TypeOK, LimiterTypeOK, SessionTypeOK,
      LoginTypeOK, NoFailures, Idle, Logins

LEMMA AgeFailuresType ==
  ASSUME LimiterTypeOK, AgeFailures
  PROVE  LimiterTypeOK'
  <1>1. \A m \in Mailboxes :
          Aged(failures[m]) \in [count : Nat, age : 0..Window]
    BY LimiterAssumption DEF LimiterTypeOK, Aged
  <1> QED BY <1>1 DEF LimiterTypeOK, AgeFailures

LEMMA LimiterType ==
  ASSUME LimiterTypeOK, NEW m \in Mailboxes,
         DropRolledOver(m) \/ RecordFailure(m) \/ Reset(m)
  PROVE  LimiterTypeOK'
  <1> DEFINE Entry == [count : Nat, age : 0..Window]
  <1>1. NoFailures \in Entry /\ [count |-> 1, age |-> 0] \in Entry
    BY LimiterAssumption DEF NoFailures
  <1>2. failures[m].count \in Nat /\ failures[m].age \in 0..Window
    BY DEF LimiterTypeOK
  <1>3. [count |-> failures[m].count + 1, age |-> failures[m].age] \in Entry
    BY <1>2
  <1>4. failures \in [Mailboxes -> Entry]
    BY DEF LimiterTypeOK
  <1> HIDE DEF Entry
  <1>5. failures' \in [Mailboxes -> Entry]
    <2>1. CASE DropRolledOver(m)
      BY <1>1, <1>4, <2>1 DEF DropRolledOver
    <2>2. CASE RecordFailure(m)
      BY <1>1, <1>3, <1>4, <2>2 DEF RecordFailure
    <2>3. CASE Reset(m)
      BY <1>1, <1>4, <2>3 DEF Reset
    <2> QED BY <2>1, <2>2, <2>3
  <1> QED BY <1>5 DEF LimiterTypeOK, Entry

LEMMA LoginType ==
  ASSUME LoginTypeOK, NEW t \in Threads, LoginStep(t)
  PROVE  LoginTypeOK'
  <1>1. CASE LoginClaim(t)
    BY <1>1 DEF LoginTypeOK, LoginClaim, At, GoTo, Logins
  <1>2. CASE LoginWrite(t)
    BY <1>2 DEF LoginTypeOK, LoginWrite, At, GoTo, Logins
  <1>3. CASE LoginWriteFails(t) \/ LoginRefused(t)
    BY <1>3 DEF LoginTypeOK, LoginWriteFails, LoginRefused, Finish, Idle,
                Logins
  <1>4. CASE LoginVerify(t)
    BY <1>4 DEF LoginTypeOK, LoginVerify, At, GoTo, Logins
  <1>5. CASE LoginAccepted(t)
    BY <1>5 DEF LoginTypeOK, LoginAccepted, At, GoTo, Logins
  <1>6. CASE \E k \in Tokens : LoginCreate(t, k)
    BY <1>6 DEF LoginTypeOK, LoginCreate, Finish, Idle, Logins
  <1> QED BY <1>1, <1>2, <1>3, <1>4, <1>5, <1>6 DEF LoginStep

LEMMA LoginStepType ==
  ASSUME TypeOK, NEW t \in Threads, LoginStep(t)
  PROVE  TypeOK'
  <1>1. LoginTypeOK'
    BY LoginType DEF TypeOK
  <1>2. thread[t].pc # "idle" /\ thread[t].mb \in Mailboxes
    BY DEF TypeOK, LoginTypeOK, LoginStep, LoginClaim, LoginWrite,
           LoginWriteFails, LoginVerify, LoginRefused, LoginAccepted,
           LoginCreate, At
  <1>3. LimiterTypeOK'
    <2>1. \/ UNCHANGED failures \/ RecordFailure(thread[t].mb)
          \/ Reset(thread[t].mb)
      BY DEF LoginStep, LoginClaim, LoginWrite, LoginWriteFails, LoginVerify,
             LoginRefused, LoginAccepted, LoginCreate
    <2> QED BY <1>2, <2>1, LimiterType DEF TypeOK, LimiterTypeOK
  <1>4. SessionTypeOK'
    <2>1. \/ UNCHANGED sessionVars
          \/ \E k \in Tokens : At(t, "create")
               /\ CreateSession(k, thread[t].mb, thread[t].pw)
      BY DEF LoginStep, LoginClaim, LoginWrite, LoginWriteFails, LoginVerify,
             LoginRefused, LoginAccepted, LoginCreate
    <2>2. At(t, "create") => thread[t].pw \in Passwords
      BY DEF TypeOK, LoginTypeOK, At
    <2> QED
      BY <1>2, <2>1, <2>2, CreateSessionType
      DEF TypeOK, SessionTypeOK, sessionVars
  <1> QED BY <1>1, <1>3, <1>4 DEF TypeOK

LEMMA NextType == TypeOK /\ [Next]_vars => TypeOK'
  <1> SUFFICES ASSUME TypeOK, [Next]_vars PROVE TypeOK'
    OBVIOUS
  <1>1. ASSUME NEW t \in Threads, NEW m \in Mailboxes,
               NEW p \in Passwords \cup {NoPassword}, LoginCheck(t, m, p)
        PROVE  TypeOK'
    <2>1. LimiterTypeOK'
      BY <1>1, LimiterType DEF LoginCheck, Admit, TypeOK
    <2>2. LoginTypeOK'
      BY <1>1 DEF LoginCheck, Admit, TypeOK, LoginTypeOK, Logins
    <2> QED
      BY <1>1, <2>1, <2>2 DEF LoginCheck, TypeOK, SessionTypeOK, sessionVars
  <1>2. ASSUME NEW k \in Tokens, Request(k) \/ Logout(k)
        PROVE  TypeOK'
    <2>1. SessionTypeOK'
      BY <1>2 DEF Request, Logout, GetSession, DeleteSession, TypeOK,
                  SessionTypeOK
    <2> QED
      BY <1>2, <2>1 DEF Request, Logout, TypeOK, LimiterTypeOK, LoginTypeOK
  <1>3. CASE Tick
    <2>1. LimiterTypeOK' /\ SessionTypeOK'
      BY <1>3, AgeFailuresType, AgeSessionsType DEF Tick, TypeOK
    <2> QED BY <1>3, <2>1 DEF Tick, TypeOK, LoginTypeOK
  <1>4. CASE WebCrash
    BY <1>4, LimiterAssumption
    DEF WebCrash, LoseSessions, TypeOK, LimiterTypeOK, SessionTypeOK,
        LoginTypeOK, NoFailures, Idle, Logins
  <1>5. CASE UNCHANGED vars
    BY <1>5
    DEF vars, sessionVars, TypeOK, LimiterTypeOK, SessionTypeOK, LoginTypeOK
  <1> QED BY <1>1, <1>2, <1>3, <1>4, <1>5, LoginStepType DEF Next

\* Every variable keeps its type: in particular the ages stay within the
\* window and the session's lifetime, and no login with an empty password gets
\* past the check for one.
THEOREM TypeCorrect == Spec => []TypeOK
  BY InitType, NextType, PTL DEF Spec

-----------------------------------------------------------------------------
(* The race to claim a mailbox                                             *)

LEMMA InitClaim == Init => ClaimInv
  BY DEF Init, SessionInit, ClaimInv, SessionsAreEarned, InDict, At, Idle

\* A step that leaves creds alone and opens no session keeps ClaimInv if it
\* moves no login to a state that ClaimInv says something of.
LEMMA ClaimStays ==
  ASSUME TypeOK, ClaimInv, creds' = creds,
         \A t \in Threads : \/ thread'[t] = thread[t]
                            \/ thread'[t].pc \notin
                                 {"write", "accepted", "create"}
                            \/ /\ thread[t].pc = "accepted"
                               /\ thread'[t].pc = "create"
                               /\ thread'[t].mb = thread[t].mb
                               /\ thread'[t].pw = thread[t].pw,
         \A k \in Tokens : \/ sessions'[k] = NoSession
                           \/ /\ sessions[k] # NoSession
                              /\ sessions'[k].mailbox = sessions[k].mailbox
                              /\ sessions'[k].by = sessions[k].by
  PROVE  ClaimInv'
  <1>1. SessionsAreEarned'
    BY DEF ClaimInv, SessionsAreEarned, InDict
  <1>2. \A t \in Threads : At(t, "write")' => thread'[t] = thread[t]
    BY DEF At
  <1>3. \A t \in Threads :
          thread'[t].pc \in {"accepted", "create"} =>
            /\ thread[t].pc \in {"accepted", "create"}
            /\ thread'[t].mb = thread[t].mb /\ thread'[t].pw = thread[t].pw
    OBVIOUS
  <1> QED BY <1>1, <1>2, <1>3 DEF ClaimInv, At

LEMMA LoginClaimKeeps ==
  ASSUME TypeOK, ClaimInv, NEW t \in Threads, LoginClaim(t)
  PROVE  ClaimInv'
  <1> DEFINE b == thread[t].mb
  <1>1. /\ b \in Mailboxes /\ thread[t] \in Logins /\ thread[t].pc = "claim"
        /\ thread \in [Threads -> Logins]
        /\ UNCHANGED sessions
    BY DEF LoginClaim, At, TypeOK, LoginTypeOK, sessionVars
  <1>2. CASE creds[b] = Absent
    <2>1. /\ creds' = [creds EXCEPT ![b] = Empty]
          /\ thread' = [thread EXCEPT ![t].pc = "write"]
      BY <1>2 DEF LoginClaim, GoTo
    <2>2. \A m \in Mailboxes : creds'[m] = IF m = b THEN Empty ELSE creds[m]
      BY <1>1, <2>1 DEF TypeOK, LoginTypeOK
    <2>3. /\ thread'[t].pc = "write" /\ thread'[t].mb = b
          /\ \A u \in Threads \ {t} : thread'[u] = thread[u]
      BY <1>1, <2>1 DEF Logins
    <2>4. \A u \in Threads :
            thread[u].pc # "idle" => thread[u].mb \in Mailboxes
      BY DEF TypeOK, LoginTypeOK
    <2>5. Absent # Empty /\ Absent \notin Passwords
      BY LoginAssumption DEF Absent, Empty
    <2>6. \A u \in Threads : At(u, "write") => thread[u].mb # b
      BY <1>2, <2>5 DEF ClaimInv
    <2>7. \A u \in Threads :
            thread[u].pc \in {"accepted", "create"} => thread[u].mb # b
      BY <1>2, <2>5 DEF ClaimInv, TypeOK, LoginTypeOK
    <2>8. \A k \in Tokens : InDict(k) => sessions[k].mailbox # b
      BY <1>2, <2>5
      DEF ClaimInv, SessionsAreEarned, InDict, TypeOK, SessionTypeOK, Sessions
    <2>9. SessionsAreEarned'
      BY <1>1, <2>2, <2>8
      DEF ClaimInv, SessionsAreEarned, InDict, TypeOK, SessionTypeOK, Sessions
    <2> HIDE DEF b
    <2>10. \A u \in Threads : At(u, "write")' => creds'[thread'[u].mb] = Empty
      BY <1>1, <2>2, <2>3, <2>4 DEF ClaimInv, At
    <2>11. \A u, v \in Threads :
             /\ At(u, "write")' /\ At(v, "write")'
             /\ thread'[u].mb = thread'[v].mb
             => u = v
      BY <2>3, <2>6 DEF ClaimInv, At
    <2>12. \A u \in Threads :
             thread'[u].pc \in {"accepted", "create"}
               => creds'[thread'[u].mb] = thread'[u].pw
      BY <2>2, <2>3, <2>4, <2>7 DEF ClaimInv
    <2> QED BY <2>9, <2>10, <2>11, <2>12 DEF ClaimInv
  <1>3. CASE creds[b] # Absent
    <2>1. creds' = creds /\ thread' = [thread EXCEPT ![t].pc = "verify"]
      BY <1>3 DEF LoginClaim, GoTo
    <2>2. /\ thread'[t].pc = "verify"
          /\ \A u \in Threads \ {t} : thread'[u] = thread[u]
      BY <1>1, <2>1 DEF Logins
    <2> QED BY <1>1, <2>1, <2>2, ClaimStays
  <1> QED BY <1>2, <1>3

LEMMA LoginWriteKeeps ==
  ASSUME TypeOK, ClaimInv, NEW t \in Threads, LoginWrite(t)
  PROVE  ClaimInv'
  <1> DEFINE b == thread[t].mb
             p == thread[t].pw
  <1>1. /\ b \in Mailboxes /\ thread[t] \in Logins /\ thread[t].pc = "write"
        /\ thread \in [Threads -> Logins] /\ p \in Passwords
        /\ UNCHANGED sessions
    BY DEF LoginWrite, At, TypeOK, LoginTypeOK, sessionVars
  <1>2. /\ creds' = [creds EXCEPT ![b] = p]
        /\ thread' = [thread EXCEPT ![t].pc = "accepted"]
    BY DEF LoginWrite, GoTo
  <1>3. \A m \in Mailboxes : creds'[m] = IF m = b THEN p ELSE creds[m]
    BY <1>1, <1>2 DEF TypeOK, LoginTypeOK
  <1>4. /\ thread'[t].pc = "accepted" /\ thread'[t].mb = b
        /\ thread'[t].pw = p
        /\ \A u \in Threads \ {t} : thread'[u] = thread[u]
    BY <1>1, <1>2 DEF Logins
  <1>5. \A u \in Threads :
          thread[u].pc # "idle" => thread[u].mb \in Mailboxes
    BY DEF TypeOK, LoginTypeOK
  <1>6. creds[b] = Empty /\ Empty \notin Passwords
    BY <1>1, LoginAssumption DEF ClaimInv, At
  <1>7. \A u \in Threads :
          thread[u].pc \in {"accepted", "create"} => thread[u].mb # b
    BY <1>6 DEF ClaimInv, TypeOK, LoginTypeOK
  <1>8. \A k \in Tokens : InDict(k) => sessions[k].mailbox # b
    BY <1>6
    DEF ClaimInv, SessionsAreEarned, InDict, TypeOK, SessionTypeOK, Sessions
  <1>9. SessionsAreEarned'
    BY <1>1, <1>3, <1>8
    DEF ClaimInv, SessionsAreEarned, InDict, TypeOK, SessionTypeOK, Sessions
  <1>10. \A u \in Threads \ {t} : At(u, "write") => thread[u].mb # b
    BY <1>1 DEF ClaimInv, At
  <1> HIDE DEF b, p
  <1>11. \A u \in Threads : At(u, "write")' => creds'[thread'[u].mb] = Empty
    BY <1>3, <1>4, <1>5, <1>10 DEF ClaimInv, At
  <1>12. \A u, v \in Threads :
           /\ At(u, "write")' /\ At(v, "write")'
           /\ thread'[u].mb = thread'[v].mb
           => u = v
    BY <1>4 DEF ClaimInv, At
  <1>13. \A u \in Threads :
           thread'[u].pc \in {"accepted", "create"}
             => creds'[thread'[u].mb] = thread'[u].pw
    BY <1>1, <1>3, <1>4, <1>5, <1>7 DEF ClaimInv
  <1> QED BY <1>9, <1>11, <1>12, <1>13 DEF ClaimInv

LEMMA LoginVerifyKeeps ==
  ASSUME TypeOK, ClaimInv, NEW t \in Threads, LoginVerify(t)
  PROVE  ClaimInv'
  <1>1. /\ thread[t] \in Logins /\ thread \in [Threads -> Logins]
        /\ creds' = creds /\ sessions' = sessions
    BY DEF LoginVerify, TypeOK, LoginTypeOK, sessionVars
  <1>2. /\ thread'[t].mb = thread[t].mb /\ thread'[t].pw = thread[t].pw
        /\ \/ thread'[t].pc = "refused"
           \/ /\ thread'[t].pc = "accepted"
              /\ creds[thread[t].mb] = thread[t].pw
        /\ \A u \in Threads \ {t} : thread'[u] = thread[u]
    BY <1>1 DEF LoginVerify, GoTo, Logins
  <1>3. SessionsAreEarned'
    BY <1>1 DEF ClaimInv, SessionsAreEarned, InDict
  <1> QED BY <1>1, <1>2, <1>3 DEF ClaimInv, At

LEMMA LoginCreateKeeps ==
  ASSUME TypeOK, ClaimInv, NEW t \in Threads, NEW k \in Tokens,
         LoginCreate(t, k)
  PROVE  ClaimInv'
  <1>1. /\ creds' = creds /\ thread' = [thread EXCEPT ![t] = Idle]
        /\ creds[thread[t].mb] = thread[t].pw
    BY DEF LoginCreate, Finish, ClaimInv, At
  <1>2. /\ thread'[t] = Idle
        /\ \A u \in Threads \ {t} : thread'[u] = thread[u]
    BY <1>1 DEF TypeOK, LoginTypeOK
  <1>3. SessionsAreEarned'
    BY <1>1
    DEF LoginCreate, CreateSession, ClaimInv, SessionsAreEarned, InDict
  <1> QED BY <1>1, <1>2, <1>3 DEF ClaimInv, At, Idle

LEMMA NextClaim ==
  ASSUME TypeOK, ClaimInv, [Next]_vars
  PROVE  ClaimInv'
  <1>1. ASSUME NEW t \in Threads, NEW m \in Mailboxes,
               NEW p \in Passwords \cup {NoPassword}, LoginCheck(t, m, p)
        PROVE  ClaimInv'
    <2>1. /\ creds' = creds /\ sessions' = sessions
          /\ thread'[t].pc \in {"refused", "claim"}
          /\ \A u \in Threads \ {t} : thread'[u] = thread[u]
      BY <1>1 DEF LoginCheck, Admit, sessionVars, TypeOK, LoginTypeOK
    <2> QED BY <2>1, ClaimStays
  <1>2. ASSUME NEW t \in Threads, LoginWriteFails(t) \/ LoginRefused(t)
        PROVE  ClaimInv'
    <2>1. /\ creds' = creds /\ sessions' = sessions
          /\ thread'[t].pc = "idle"
          /\ \A u \in Threads \ {t} : thread'[u] = thread[u]
      BY <1>2 DEF LoginWriteFails, LoginRefused, Finish, Idle, sessionVars,
                  TypeOK, LoginTypeOK
    <2> QED BY <2>1, ClaimStays
  <1>3. ASSUME NEW t \in Threads, LoginAccepted(t)
        PROVE  ClaimInv'
    <2>1. /\ creds' = creds /\ sessions' = sessions
          /\ thread[t].pc = "accepted" /\ thread'[t].pc = "create"
          /\ thread'[t].mb = thread[t].mb /\ thread'[t].pw = thread[t].pw
          /\ \A u \in Threads \ {t} : thread'[u] = thread[u]
      BY <1>3 DEF LoginAccepted, At, GoTo, sessionVars, TypeOK, LoginTypeOK,
                  Logins
    <2> QED BY <2>1, ClaimStays
  <1>4. ASSUME NEW t \in Threads, LoginStep(t)
        PROVE  ClaimInv'
    BY <1>2, <1>3, <1>4, LoginClaimKeeps, LoginWriteKeeps, LoginVerifyKeeps,
       LoginCreateKeeps
    DEF LoginStep
  <1>5. ASSUME NEW k \in Tokens, Request(k) \/ Logout(k)
        PROVE  ClaimInv'
    <2>1. /\ creds' = creds /\ thread' = thread
          /\ \A x \in Tokens : sessions'[x] \in {sessions[x], NoSession}
      BY <1>5 DEF Request, Logout, GetSession, DeleteSession, TypeOK,
                  SessionTypeOK
    <2> QED BY <2>1, ClaimStays
  <1>6. CASE Tick
    <2>1. creds' = creds /\ thread' = thread
      BY <1>6 DEF Tick
    <2>2. ASSUME NEW x \in Tokens
          PROVE  \/ sessions'[x] = NoSession
                 \/ /\ sessions[x] # NoSession
                    /\ sessions'[x].mailbox = sessions[x].mailbox
                    /\ sessions'[x].by = sessions[x].by
      BY <1>6 DEF Tick, AgeSessions, OlderBy1, TypeOK, SessionTypeOK, Sessions
    <2> QED BY <2>1, <2>2, ClaimStays
  <1>7. CASE WebCrash
    <2>1. /\ creds' = creds /\ \A t \in Threads : thread'[t].pc = "idle"
          /\ \A x \in Tokens : sessions'[x] = NoSession
      BY <1>7 DEF WebCrash, LoseSessions, Idle
    <2> QED BY <2>1, ClaimStays
  <1>8. CASE UNCHANGED vars
    <2>1. UNCHANGED <<creds, thread, sessions>>
      BY <1>8 DEF vars, sessionVars
    <2> QED BY <2>1, ClaimStays
  <1> QED BY <1>1, <1>4, <1>5, <1>6, <1>7, <1>8 DEF Next

\* The inductive invariant of the race to claim.
THEOREM SpecClaimInv == Spec => []ClaimInv
  <1>1. TypeOK /\ ClaimInv /\ [Next]_vars => ClaimInv'
    BY NextClaim
  <1> QED BY InitClaim, <1>1, TypeCorrect, PTL DEF Spec

\* However many logins race to claim a mailbox, a session of it is one of
\* somebody who gave the password the mailbox now has.
THEOREM SessionsAreAlwaysEarned == Spec => []SessionsAreEarned
  <1>1. ClaimInv => SessionsAreEarned
    BY DEF ClaimInv
  <1> QED BY SpecClaimInv, <1>1, PTL

LEMMA StepKeepsPassword ==
  ASSUME TypeOK, ClaimInv, [Next]_vars,
         NEW m \in Mailboxes, creds[m] \in Passwords
  PROVE  creds'[m] = creds[m]
  <1>1. creds[m] # Absent /\ creds[m] # Empty
    BY LoginAssumption
  <1>2. ASSUME NEW t \in Threads, LoginClaim(t)
        PROVE  creds'[m] = creds[m]
    <2>1. CASE creds[thread[t].mb] = Absent
      <3>1. m # thread[t].mb
        BY <1>1, <2>1
      <3>2. creds' = [creds EXCEPT ![thread[t].mb] = Empty]
        BY <1>2, <2>1 DEF LoginClaim
      <3> QED BY <3>1, <3>2 DEF TypeOK, LoginTypeOK
    <2>2. CASE creds[thread[t].mb] # Absent
      BY <1>2, <2>2 DEF LoginClaim
    <2> QED BY <2>1, <2>2
  <1>3. ASSUME NEW t \in Threads, LoginWrite(t)
        PROVE  creds'[m] = creds[m]
    <2>1. creds[thread[t].mb] = Empty
      BY <1>3 DEF ClaimInv, LoginWrite
    <2> QED BY <1>1, <1>3, <2>1 DEF LoginWrite
  <1>4. ASSUME NEW t \in Threads, LoginStep(t)
        PROVE  creds'[m] = creds[m]
    <2>1. LoginClaim(t) \/ LoginWrite(t) \/ UNCHANGED creds
      BY <1>4 DEF LoginStep, LoginWriteFails, LoginVerify, LoginRefused,
                  LoginAccepted, LoginCreate
    <2> QED BY <1>2, <1>3, <2>1
  <1>5. (\A t \in Threads : ~LoginStep(t)) => UNCHANGED creds
    BY DEF Next, LoginCheck, Request, Logout, Tick, WebCrash, vars
  <1> QED BY <1>4, <1>5

\* A mailbox that has a password has it for ever: no race, failed write or
\* restart replaces it.
THEOREM PasswordIsKept == Spec => PasswordKept
  <1>1. TypeOK /\ ClaimInv /\ [Next]_vars =>
          \A m \in Mailboxes : creds[m] \in Passwords => creds'[m] = creds[m]
    BY StepKeepsPassword
  <1> QED BY <1>1, TypeCorrect, SpecClaimInv, PTL DEF Spec, PasswordKept

-----------------------------------------------------------------------------
(* Sessions that have ended                                                *)

LEMMA NextEnded == TypeOK /\ EndedIsRefused /\ [Next]_vars => EndedIsRefused'
  <1> SUFFICES ASSUME TypeOK, EndedIsRefused, [Next]_vars
               PROVE  EndedIsRefused'
    OBVIOUS
  <1> USE DEF EndedIsRefused, Accepts, InDict, Expired
  <1>1. ASSUME NEW t \in Threads, NEW k \in Tokens, LoginCreate(t, k)
        PROVE  EndedIsRefused'
    <2>1. k \notin ended /\ ended' = ended
      BY <1>1 DEF LoginCreate, CreateSession, TypeOK, SessionTypeOK
    <2>2. \A x \in Tokens \ {k} : sessions'[x] \in {sessions[x], NoSession}
      BY <1>1 DEF LoginCreate, CreateSession
    <2> QED BY <2>1, <2>2 DEF TypeOK, SessionTypeOK
  <1>2. ASSUME NEW k \in Tokens, Request(k) \/ Logout(k)
        PROVE  EndedIsRefused'
    BY <1>2 DEF Request, Logout, GetSession, DeleteSession, TypeOK,
                SessionTypeOK
  <1>3. CASE Tick
    <2>1. ASSUME NEW x \in ended'
          PROVE  ~Accepts(x)'
      <3>1. x \in Tokens /\ sessions[x] \in Sessions \cup {NoSession}
        BY <1>3, <2>1 DEF Tick, AgeSessions, TypeOK, SessionTypeOK
      <3>2. sessions'[x] = OlderBy1(sessions[x])
        BY <1>3, <3>1 DEF Tick, AgeSessions
      <3>3. CASE sessions[x] = NoSession
        BY <3>2, <3>3 DEF OlderBy1
      <3>4. CASE sessions[x] # NoSession
        <4>1. sessions[x].age \in 0..MaxAge /\ sessions[x].age + 1 >= MaxAge
          BY <1>3, <2>1, <3>1, <3>4, SessionAssumption
          DEF Tick, AgeSessions, Sessions
        <4>2. sessions'[x].age >= MaxAge
          BY <3>1, <3>2, <3>4, <4>1, SessionAssumption DEF OlderBy1, Sessions
        <4> QED BY <4>2
      <3> QED BY <3>3, <3>4
    <2> QED BY <2>1
  <1>4. CASE WebCrash
    BY <1>4 DEF WebCrash, LoseSessions, TypeOK, SessionTypeOK
  <1>5. ASSUME UNCHANGED sessionVars
        PROVE  EndedIsRefused'
    BY <1>5 DEF sessionVars
  <1>6. ASSUME NEW t \in Threads, LoginStep(t)
        PROVE  EndedIsRefused'
    BY <1>1, <1>5, <1>6
    DEF LoginStep, LoginClaim, LoginWrite, LoginWriteFails, LoginVerify,
        LoginRefused, LoginAccepted
  <1>7. ASSUME NEW t \in Threads, NEW m, NEW p, LoginCheck(t, m, p)
        PROVE  EndedIsRefused'
    BY <1>5, <1>7 DEF LoginCheck
  <1>8. CASE UNCHANGED vars
    BY <1>5, <1>8 DEF vars
  <1> QED BY <1>2, <1>3, <1>4, <1>6, <1>7, <1>8 DEF Next

\* A session that was logged out or that has run out is never accepted again,
\* though only create and get remove what has run out.
THEOREM EndedSessionsAreRefused == Spec => []EndedIsRefused
  <1>1. Init => EndedIsRefused
    BY DEF Init, SessionInit, EndedIsRefused
  <1> QED BY <1>1, NextEnded, TypeCorrect, PTL DEF Spec

-----------------------------------------------------------------------------
(* How far the count of failures can pass max_attempts                     *)

Bounded(m) ==
  failures[m].count + Cardinality(InFlight(m))
    <= MaxAttempts - 1 + Cardinality(Threads)

LEMMA InFlightFinite ==
  ASSUME NEW m
  PROVE  /\ IsFiniteSet(InFlight(m))
         /\ Cardinality(InFlight(m)) \in Nat
         /\ Cardinality(Threads) \in Nat
         /\ Cardinality(InFlight(m)) <= Cardinality(Threads)
  <1>1. InFlight(m) \subseteq Threads
    BY DEF InFlight
  <1> QED BY <1>1, LoginAssumption, FS_Subset, FS_CardinalityType

\* Fewer failures and fewer logins in flight keep the bound.
LEMMA BoundStays ==
  ASSUME TypeOK, TypeOK', NEW m \in Mailboxes, Bounded(m),
         failures'[m].count <= failures[m].count,
         InFlight(m)' \subseteq InFlight(m)
  PROVE  Bounded(m)'
  <1>1. Cardinality(InFlight(m)') <= Cardinality(InFlight(m))
    BY InFlightFinite, FS_Subset
  <1>2. Cardinality(InFlight(m)') \in Nat
    BY InFlightFinite, FS_Subset, FS_CardinalityType
  <1>3. failures[m].count \in Nat /\ failures'[m].count \in Nat
    BY DEF TypeOK, LimiterTypeOK
  <1> QED
    BY <1>1, <1>2, <1>3, InFlightFinite, LimiterAssumption DEF Bounded

LEMMA CheckBound ==
  ASSUME TypeOK, TypeOK', NEW t \in Threads, NEW m \in Mailboxes, NEW p,
         LoginCheck(t, m, p), NEW n \in Mailboxes, Bounded(n)
  PROVE  Bounded(n)'
  <1>1. /\ \A u \in Threads \ {t} : thread'[u] = thread[u]
        /\ thread'[t].mb = m
    BY DEF LoginCheck, Admit, TypeOK, LoginTypeOK
  <1>2. CASE n = m
    <2>1. failures'[m].count <= MaxAttempts - 1
      BY LimiterAssumption
      DEF LoginCheck, Admit, DropRolledOver, IsLimited, RolledOver,
          NoFailures, TypeOK, LimiterTypeOK
    <2>2. InFlight(m)' \subseteq Threads
      BY DEF InFlight
    <2>3. /\ Cardinality(InFlight(m)') <= Cardinality(Threads)
          /\ Cardinality(InFlight(m)') \in Nat /\ Cardinality(Threads) \in Nat
      BY <2>2, LoginAssumption, FS_Subset, FS_CardinalityType
    <2>4. failures'[m].count \in Nat
      BY DEF TypeOK, LimiterTypeOK
    <2> QED BY <1>2, <2>1, <2>3, <2>4, LimiterAssumption DEF Bounded
  <1>3. CASE n # m
    <2>1. InFlight(n)' \subseteq InFlight(n)
      BY <1>1, <1>3 DEF InFlight
    <2>2. failures'[n].count <= failures[n].count
      BY <1>3 DEF LoginCheck, Admit, DropRolledOver, TypeOK, LimiterTypeOK
    <2> QED BY <2>1, <2>2, BoundStays
  <1> QED BY <1>2, <1>3

LEMMA RefusedBound ==
  ASSUME TypeOK, TypeOK', NEW t \in Threads, LoginRefused(t),
         NEW n \in Mailboxes, Bounded(n)
  PROVE  Bounded(n)'
  <1> DEFINE m == thread[t].mb
  <1>1. /\ m \in Mailboxes /\ thread[t].pc = "refused"
        /\ \A u \in Threads \ {t} : thread'[u] = thread[u]
        /\ thread'[t] = Idle
    BY DEF LoginRefused, At, Finish, TypeOK, LoginTypeOK
  <1>2. CASE n = m
    <2>1. InFlight(n)' = InFlight(n) \ {t} /\ t \in InFlight(n)
      BY <1>1, <1>2 DEF InFlight, Idle
    <2>2. Cardinality(InFlight(n)') = Cardinality(InFlight(n)) - 1
      BY <2>1, InFlightFinite, FS_RemoveElement
    <2>3. /\ failures[n].count \in Nat /\ failures'[n].count \in Nat
          /\ failures'[n].count <= failures[n].count + 1
      BY <1>1, <1>2 DEF LoginRefused, RecordFailure, TypeOK, LimiterTypeOK
    <2> QED
      BY <2>2, <2>3, InFlightFinite, LimiterAssumption DEF Bounded
  <1>3. CASE n # m
    <2>1. InFlight(n)' \subseteq InFlight(n)
      BY <1>1 DEF InFlight, Idle
    <2>2. failures'[n].count <= failures[n].count
      BY <1>3 DEF LoginRefused, RecordFailure, TypeOK, LimiterTypeOK
    <2> QED BY <2>1, <2>2, BoundStays
  <1> QED BY <1>2, <1>3

LEMMA NextBound ==
  ASSUME TypeOK, TypeOK', [Next]_vars, NEW n \in Mailboxes, Bounded(n)
  PROVE  Bounded(n)'
  <1>1. failures[n].count \in Nat
    BY DEF TypeOK, LimiterTypeOK
  <1>2. ASSUME NEW t \in Threads,
               LoginStep(t) /\ ~LoginRefused(t) /\ ~LoginAccepted(t)
        PROVE  Bounded(n)'
    <2>1. failures' = failures
      BY <1>2 DEF LoginStep, LoginClaim, LoginWrite, LoginWriteFails,
                  LoginVerify, LoginCreate
    <2>2. /\ thread[t].pc # "idle"
          /\ thread'[t].pc = "idle" \/ thread'[t].mb = thread[t].mb
          /\ \A u \in Threads \ {t} : thread'[u] = thread[u]
      BY <1>2 DEF LoginStep, LoginClaim, LoginWrite, LoginWriteFails,
                  LoginVerify, LoginCreate, At, GoTo, Finish, Idle, TypeOK,
                  LoginTypeOK, Logins
    <2>3. InFlight(n)' \subseteq InFlight(n)
      BY <2>2 DEF InFlight
    <2> QED BY <1>1, <2>1, <2>3, BoundStays
  <1>3. ASSUME NEW t \in Threads, LoginAccepted(t)
        PROVE  Bounded(n)'
    <2>1. failures'[n].count <= failures[n].count
      BY <1>1, <1>3
      DEF LoginAccepted, Reset, NoFailures, TypeOK, LimiterTypeOK
    <2>2. /\ thread[t].pc # "idle" /\ thread'[t].mb = thread[t].mb
          /\ \A u \in Threads \ {t} : thread'[u] = thread[u]
      BY <1>3 DEF LoginAccepted, At, GoTo, TypeOK, LoginTypeOK, Logins
    <2>3. InFlight(n)' \subseteq InFlight(n)
      BY <2>2 DEF InFlight
    <2> QED BY <2>1, <2>3, BoundStays
  <1>4. ASSUME UNCHANGED thread, failures'[n].count <= failures[n].count
        PROVE  Bounded(n)'
    <2>1. InFlight(n)' \subseteq InFlight(n)
      BY <1>4 DEF InFlight
    <2> QED BY <1>4, <2>1, BoundStays
  <1>5. CASE Tick
    <2>1. failures'[n].count = failures[n].count
      BY <1>5 DEF Tick, AgeFailures, Aged
    <2> QED BY <1>1, <1>4, <1>5, <2>1 DEF Tick
  <1>6. CASE WebCrash
    <2>1. failures'[n].count <= failures[n].count
      BY <1>1, <1>6 DEF WebCrash, NoFailures
    <2>2. InFlight(n)' \subseteq InFlight(n)
      BY <1>6 DEF WebCrash, InFlight, Idle
    <2> QED BY <2>1, <2>2, BoundStays
  <1>7. ASSUME NEW k \in Tokens, Request(k) \/ Logout(k)
        PROVE  Bounded(n)'
    BY <1>1, <1>4, <1>7 DEF Request, Logout
  <1>8. CASE UNCHANGED vars
    BY <1>1, <1>4, <1>8 DEF vars
  <1> QED
    BY <1>2, <1>3, <1>5, <1>6, <1>7, <1>8, CheckBound, RefusedBound DEF Next

\* Checking the limit and counting a failure are two steps, and still no
\* more than MaxAttempts - 1 + |Threads| failures are ever counted.
THEOREM FailuresAreBounded == Spec => []FailuresBounded
  <1>1. FailuresBounded <=> \A n \in Mailboxes : Bounded(n)
    BY DEF FailuresBounded, Bounded
  <1>2. Init => FailuresBounded
    <2> SUFFICES ASSUME Init, NEW n \in Mailboxes PROVE Bounded(n)
      BY <1>1
    <2>1. failures[n].count = 0
      BY DEF Init, LimiterInit, NoFailures
    <2> QED BY <2>1, InFlightFinite, LimiterAssumption DEF Bounded
  <1>3. TypeOK /\ TypeOK' /\ FailuresBounded /\ [Next]_vars
          => FailuresBounded'
    BY <1>1, NextBound DEF FailuresBounded, Bounded
  <1> QED BY <1>2, <1>3, TypeCorrect, PTL DEF Spec

\* The limiter's methods are the only ones that write to it: no count, and
\* no restart, starts the window of a lockout again.
LEMMA StepKeepsWindow ==
  ASSUME TypeOK, [Next]_vars, NEW n \in Mailboxes, IsLimited(n)
  PROVE  \/ failures'[n] = NoFailures
         \/ failures'[n].age >= failures[n].age
  <1>1. /\ failures \in [Mailboxes -> [count : Nat, age : 0..Window]]
        /\ ~RolledOver(n) /\ failures[n].count # 0 /\ Window \in Nat \ {0}
    BY LimiterAssumption DEF TypeOK, LimiterTypeOK, IsLimited
  <1>2. ASSUME NEW m \in Mailboxes, RecordFailure(m)
        PROVE  failures'[n].age = failures[n].age
    BY <1>1, <1>2 DEF RecordFailure
  <1>3. ASSUME NEW m \in Mailboxes, DropRolledOver(m) \/ Reset(m)
        PROVE  failures'[n] \in {failures[n], NoFailures}
    BY <1>1, <1>3 DEF DropRolledOver, Reset
  <1>4. CASE Tick
    <2>1. failures'[n] = Aged(failures[n])
      BY <1>4 DEF Tick, AgeFailures
    <2> QED BY <1>1, <2>1 DEF Aged
  <1>5. CASE WebCrash
    BY <1>5 DEF WebCrash
  <1>6. CASE UNCHANGED failures
    BY <1>1, <1>6
  <1>7. ASSUME NEW t \in Threads, LoginStep(t)
        PROVE  \/ UNCHANGED failures
               \/ \E m \in Mailboxes : RecordFailure(m) \/ Reset(m)
    <2>1. LoginRefused(t) \/ LoginAccepted(t) => thread[t].mb \in Mailboxes
      BY DEF LoginRefused, LoginAccepted, At, TypeOK, LoginTypeOK
    <2> QED
      BY <1>7, <2>1
      DEF LoginStep, LoginClaim, LoginWrite, LoginWriteFails, LoginVerify,
          LoginRefused, LoginAccepted, LoginCreate
  <1>8. ASSUME NEW t \in Threads, NEW m \in Mailboxes, NEW p,
               LoginCheck(t, m, p)
        PROVE  DropRolledOver(m)
    BY <1>8 DEF LoginCheck, Admit
  <1>9. ASSUME \/ \E k \in Tokens : Request(k) \/ Logout(k)
               \/ UNCHANGED vars
        PROVE  UNCHANGED failures
    BY <1>9 DEF Request, Logout, vars
  <1>10. ASSUME \/ \E m \in Mailboxes : DropRolledOver(m) \/ RecordFailure(m)
                                           \/ Reset(m)
                \/ UNCHANGED failures
         PROVE  \/ failures'[n] = NoFailures
                \/ failures'[n].age >= failures[n].age
    BY <1>1, <1>2, <1>3, <1>6, <1>10
  <1> QED
    BY <1>4, <1>5, <1>7, <1>8, <1>9, <1>10 DEF Next

\* A lockout lasts one window at most: whatever fails while it lasts, its
\* window only gets older or is dropped.
THEOREM LockoutsKeepTheirWindow == Spec => LockoutKeepsItsWindow
  <1>1. TypeOK /\ [Next]_vars =>
          \A m \in Mailboxes :
            IsLimited(m) => \/ failures'[m] = NoFailures
                            \/ failures'[m].age >= failures[m].age
    BY StepKeepsWindow
  <1> QED BY <1>1, TypeCorrect, PTL DEF Spec, LockoutKeepsItsWindow

-----------------------------------------------------------------------------
(* The logins implement Access                                             *)

PasswordMap == [m \in Mailboxes |-> PasswordOf(m)]

SessionOf(k) ==
  [token |-> k, mailbox |-> sessions[k].mailbox, by |-> sessions[k].by]

LEMMA AccessCloses ==
  ASSUME PasswordMap' = PasswordMap, issued' = issued,
         OpenSessions' \subseteq OpenSessions
  PROVE  [Promise!Next]_(Promise!vars)
  BY DEF Promise!Next, Promise!Close, PasswordMap

LEMMA AccessClaims ==
  ASSUME NEW m \in Mailboxes, NEW p \in Passwords,
         PasswordMap[m] = Absent,
         PasswordMap' = [PasswordMap EXCEPT ![m] = p],
         UNCHANGED <<OpenSessions, issued>>
  PROVE  [Promise!Next]_(Promise!vars)
  BY DEF Promise!Next, Promise!Claim, PasswordMap

LEMMA AccessOpens ==
  ASSUME NEW k \in Tokens, NEW m \in Mailboxes, NEW p \in Passwords,
         k \notin issued, PasswordMap[m] = p,
         PasswordMap' = PasswordMap, issued' = issued \cup {k},
         OpenSessions' = OpenSessions
                           \cup {[token |-> k, mailbox |-> m, by |-> p]}
  PROVE  [Promise!Next]_(Promise!vars)
  BY DEF Promise!Next, Promise!Open, PasswordMap

LEMMA PasswordsStay == creds' = creds => PasswordMap' = PasswordMap
  BY DEF PasswordMap, PasswordOf

\* A step after which no other session is accepted than before closes some,
\* or none.
LEMMA SessionsClose ==
  ASSUME \A k \in Tokens : Accepts(k)' =>
           /\ Accepts(k)
           /\ sessions'[k].mailbox = sessions[k].mailbox
           /\ sessions'[k].by = sessions[k].by
  PROVE  OpenSessions' \subseteq OpenSessions
  <1>1. ASSUME NEW x \in OpenSessions'
        PROVE  x \in OpenSessions
    <2>1. PICK k \in Tokens :
            /\ Accepts(k)'
            /\ x = [token |-> k, mailbox |-> sessions'[k].mailbox,
                    by |-> sessions'[k].by]
      BY <1>1 DEF OpenSessions
    <2>2. /\ Accepts(k)
          /\ x = [token |-> k, mailbox |-> sessions[k].mailbox,
                  by |-> sessions[k].by]
      BY <2>1
    <2> QED BY <2>2 DEF OpenSessions
  <1> QED BY <1>1

LEMMA CreateOpens ==
  ASSUME TypeOK, ClaimInv, NEW t \in Threads, NEW k \in Tokens,
         LoginCreate(t, k)
  PROVE  [Promise!Next]_(Promise!vars)
  <1> DEFINE m == thread[t].mb
             p == thread[t].pw
  <1>1. /\ m \in Mailboxes /\ p \in Passwords /\ creds[m] = p
        /\ k \notin issued /\ issued' = issued \cup {k} /\ creds' = creds
        /\ \A x \in Tokens : sessions'[x] =
             IF x = k THEN [mailbox |-> m, by |-> p, age |-> 0]
             ELSE IF Expired(x) THEN NoSession ELSE sessions[x]
    BY DEF LoginCreate, CreateSession, At, ClaimInv, TypeOK, LoginTypeOK
  <1> HIDE DEF m, p
  <1>2. PasswordMap[m] = p /\ PasswordMap' = PasswordMap
    BY <1>1, PasswordsStay DEF PasswordMap, PasswordOf
  <1>3. Accepts(k)'
    <2>1. sessions'[k] = [mailbox |-> m, by |-> p, age |-> 0]
      BY <1>1
    <2>2. sessions'[k] # NoSession
      BY <1>1, <2>1, AccountsAssumption DEF NoSession
    <2> QED BY <2>1, <2>2, SessionAssumption DEF Accepts, InDict, Expired
  <1>4. ~Accepts(k)
    BY <1>1 DEF Accepts, InDict, TypeOK, SessionTypeOK
  <1>5. \A x \in Tokens \ {k} :
          /\ Accepts(x)' <=> Accepts(x)
          /\ Accepts(x) => sessions'[x] = sessions[x]
    BY <1>1 DEF Accepts, InDict, Expired
  <1>6. OpenSessions' = OpenSessions
                          \cup {[token |-> k, mailbox |-> m, by |-> p]}
    <2> DEFINE new == [token |-> k, mailbox |-> m, by |-> p]
    <2>1. ASSUME NEW x \in OpenSessions'
          PROVE  x \in OpenSessions \/ x = new
      <3>1. PICK y \in Tokens :
              /\ Accepts(y)'
              /\ x = [token |-> y, mailbox |-> sessions'[y].mailbox,
                      by |-> sessions'[y].by]
        BY <2>1 DEF OpenSessions
      <3>2. CASE y = k
        BY <1>1, <3>1, <3>2
      <3>3. CASE y # k
        <4>1. Accepts(y) /\ sessions'[y] = sessions[y]
          BY <1>5, <3>1, <3>3
        <4> QED BY <3>1, <4>1 DEF OpenSessions
      <3> QED BY <3>2, <3>3
    <2>2. ASSUME NEW x \in OpenSessions
          PROVE  x \in OpenSessions'
      <3>1. PICK y \in Tokens :
              /\ Accepts(y)
              /\ x = [token |-> y, mailbox |-> sessions[y].mailbox,
                      by |-> sessions[y].by]
        BY <2>2 DEF OpenSessions
      <3>2. Accepts(y)' /\ sessions'[y] = sessions[y]
        BY <1>4, <1>5, <3>1
      <3> QED BY <3>1, <3>2 DEF OpenSessions
    <2>3. new \in OpenSessions'
      <3>1. new = [token |-> k, mailbox |-> sessions'[k].mailbox,
                   by |-> sessions'[k].by]
        BY <1>1
      <3> QED BY <1>3, <3>1 DEF OpenSessions
    <2> HIDE DEF new
    <2> QED BY <2>1, <2>2, <2>3 DEF new
  <1> QED BY <1>1, <1>2, <1>6, AccessOpens

LEMMA LoginStepAccess ==
  ASSUME TypeOK, ClaimInv, NEW t \in Threads, LoginStep(t)
  PROVE  [Promise!Next]_(Promise!vars)
  <1>1. ASSUME UNCHANGED <<creds, sessions, issued>>
        PROVE  [Promise!Next]_(Promise!vars)
    BY <1>1, PasswordsStay, SessionsClose, AccessCloses
    DEF Accepts, InDict, Expired
  <1>2. CASE LoginClaim(t)
    <2> DEFINE b == thread[t].mb
    <2>1. UNCHANGED <<sessions, issued>> /\ creds \in [Mailboxes ->
                                             Passwords \cup {Absent, Empty}]
      BY <1>2 DEF LoginClaim, sessionVars, TypeOK, LoginTypeOK
    <2>2. \A m \in Mailboxes : creds'[m] = creds[m] \/
            (creds[m] = Absent /\ creds'[m] = Empty)
      BY <1>2, <2>1 DEF LoginClaim
    <2>3. PasswordMap' = PasswordMap
      BY <2>2, LoginAssumption DEF PasswordMap, PasswordOf
    <2>4. OpenSessions' \subseteq OpenSessions
      BY <2>1, SessionsClose DEF Accepts, InDict, Expired
    <2> QED BY <2>1, <2>3, <2>4, AccessCloses
  <1>3. CASE LoginWrite(t)
    <2> DEFINE b == thread[t].mb
               p == thread[t].pw
    <2>1. /\ b \in Mailboxes /\ p \in Passwords /\ creds[b] = Empty
          /\ UNCHANGED <<sessions, issued>>
          /\ creds' = [creds EXCEPT ![b] = p]
          /\ creds \in [Mailboxes -> Passwords \cup {Absent, Empty}]
      BY <1>3 DEF LoginWrite, At, ClaimInv, TypeOK, LoginTypeOK, sessionVars
    <2> HIDE DEF b, p
    <2>2. PasswordMap[b] = Absent
      BY <2>1, LoginAssumption DEF PasswordMap, PasswordOf
    <2>3. PasswordMap' = [PasswordMap EXCEPT ![b] = p]
      BY <2>1 DEF PasswordMap, PasswordOf
    <2>4. OpenSessions' = OpenSessions
      BY <2>1 DEF OpenSessions, Accepts, InDict, Expired
    <2> QED BY <2>1, <2>2, <2>3, <2>4, AccessClaims
  <1>4. ASSUME LoginWriteFails(t) \/ LoginVerify(t) \/ LoginRefused(t)
                 \/ LoginAccepted(t)
        PROVE  UNCHANGED <<creds, sessions, issued>>
    BY <1>4 DEF LoginWriteFails, LoginVerify, LoginRefused, LoginAccepted,
                sessionVars
  <1> QED BY <1>1, <1>2, <1>3, <1>4, CreateOpens DEF LoginStep

LEMMA NextAccess ==
  ASSUME TypeOK, ClaimInv, [Next]_vars
  PROVE  [Promise!Next]_(Promise!vars)
  <1>1. ASSUME UNCHANGED <<creds, issued>>,
               OpenSessions' \subseteq OpenSessions
        PROVE  [Promise!Next]_(Promise!vars)
    BY <1>1, PasswordsStay, AccessCloses
  <1>2. ASSUME NEW k \in Tokens, Request(k) \/ Logout(k)
        PROVE  [Promise!Next]_(Promise!vars)
    <2>1. /\ UNCHANGED <<creds, issued>>
          /\ \A x \in Tokens : sessions'[x] \in {sessions[x], NoSession}
      BY <1>2 DEF Request, Logout, GetSession, DeleteSession, TypeOK,
                  SessionTypeOK
    <2>2. OpenSessions' \subseteq OpenSessions
      BY <2>1, SessionsClose DEF Accepts, InDict, Expired
    <2> QED BY <1>1, <2>1, <2>2
  <1>3. CASE Tick
    <2>1. UNCHANGED <<creds, issued>>
      BY <1>3 DEF Tick, AgeSessions
    <2>2. ASSUME NEW x \in Tokens, Accepts(x)'
          PROVE  /\ Accepts(x)
                 /\ sessions'[x].mailbox = sessions[x].mailbox
                 /\ sessions'[x].by = sessions[x].by
      <3>1. /\ sessions'[x] = OlderBy1(sessions[x])
            /\ sessions[x] \in Sessions \cup {NoSession}
        BY <1>3 DEF Tick, AgeSessions, TypeOK, SessionTypeOK
      <3>2. sessions[x] # NoSession
        BY <2>2, <3>1 DEF Accepts, InDict, OlderBy1
      <3>3. sessions[x].age < MaxAge /\ sessions[x].age \in 0..MaxAge
        BY <2>2, <3>1, <3>2, SessionAssumption
        DEF Accepts, InDict, Expired, OlderBy1, Sessions
      <3> QED
        BY <3>1, <3>2, <3>3, SessionAssumption
        DEF Accepts, InDict, Expired, OlderBy1, Sessions
    <2>3. OpenSessions' \subseteq OpenSessions
      BY <2>2, SessionsClose
    <2> QED BY <1>1, <2>1, <2>3
  <1>4. CASE WebCrash
    <2>1. /\ UNCHANGED <<creds, issued>>
          /\ \A x \in Tokens : sessions'[x] = NoSession
      BY <1>4 DEF WebCrash, LoseSessions
    <2>2. OpenSessions' \subseteq OpenSessions
      BY <2>1, SessionsClose DEF Accepts, InDict
    <2> QED BY <1>1, <2>1, <2>2
  <1>5. ASSUME UNCHANGED <<creds, sessionVars>>
        PROVE  [Promise!Next]_(Promise!vars)
    <2>1. OpenSessions' \subseteq OpenSessions
      BY <1>5, SessionsClose DEF Accepts, InDict, Expired, sessionVars
    <2> QED BY <1>1, <1>5, <2>1 DEF sessionVars
  <1>6. ASSUME NEW t \in Threads, NEW m, NEW p, LoginCheck(t, m, p)
        PROVE  [Promise!Next]_(Promise!vars)
    BY <1>5, <1>6 DEF LoginCheck
  <1>7. CASE UNCHANGED vars
    BY <1>5, <1>7 DEF vars
  <1> QED BY <1>2, <1>3, <1>4, <1>6, <1>7, LoginStepAccess DEF Next

\* However logins race, fail, wait for the limiter or are cut off by a
\* restart, what they do to passwords and sessions is, step by step, what
\* Access allows: a password is set once, and a session is opened only by who
\* gave that password, under a token nobody had before.
THEOREM AccessIsImplemented == Spec => ImplementsAccess
  <1>1. Init => Promise!Init
    <2> SUFFICES ASSUME Init PROVE Promise!Init
      OBVIOUS
    <2>1. \A m \in Mailboxes : PasswordOf(m) = Absent
      BY DEF Init, PasswordOf
    <2>2. OpenSessions = {} /\ issued = {}
      BY DEF Init, SessionInit, OpenSessions, Accepts, InDict
    <2> QED BY <2>1, <2>2 DEF Promise!Init
  <1>2. TypeOK /\ ClaimInv /\ [Next]_vars => [Promise!Next]_(Promise!vars)
    BY NextAccess
  <1> QED
    BY <1>1, <1>2, TypeCorrect, SpecClaimInv, PTL
    DEF Spec, ImplementsAccess, Promise!Spec
=============================================================================
