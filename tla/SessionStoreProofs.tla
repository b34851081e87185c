-------------------------- MODULE SessionStoreProofs --------------------------
(***************************************************************************)
(* Lemmas about the methods of SessionStore, for the two modules that call *)
(* them.                                                                   *)
(***************************************************************************)
EXTENDS SessionStore, TLAPS

LEMMA CreateSessionType ==
  ASSUME SessionTypeOK, NEW k \in Tokens, NEW m \in Mailboxes,
         NEW p \in Passwords, CreateSession(k, m, p)
  PROVE  SessionTypeOK'
  BY SessionAssumption DEF CreateSession, SessionTypeOK, Sessions, NoSession

LEMMA AgeSessionsType ==
  ASSUME SessionTypeOK, AgeSessions
  PROVE  SessionTypeOK'
  <1>1. \A k \in Tokens :
          /\ OlderBy1(sessions[k]) \in Sessions \cup {NoSession}
          /\ OlderBy1(sessions[k]) # NoSession => sessions[k] # NoSession
    BY SessionAssumption DEF SessionTypeOK, Sessions, OlderBy1
  <1> QED BY <1>1 DEF AgeSessions, SessionTypeOK, InDict

\* What may happen to the store in one step.
SessionStep ==
  \/ \E k \in Tokens, m \in Mailboxes, p \in Passwords :
       CreateSession(k, m, p)
  \/ \E k \in Tokens : GetSession(k) \/ DeleteSession(k)
  \/ AgeSessions
  \/ LoseSessions
  \/ UNCHANGED sessionVars

LEMMA SessionStepType ==
  ASSUME SessionTypeOK, SessionStep
  PROVE  SessionTypeOK'
  <1>1. CASE \E k \in Tokens : GetSession(k) \/ DeleteSession(k)
    BY <1>1 DEF GetSession, DeleteSession, SessionTypeOK
  <1>2. CASE LoseSessions
    BY <1>2 DEF LoseSessions, SessionTypeOK
  <1>3. CASE UNCHANGED sessionVars
    BY <1>3 DEF sessionVars, SessionTypeOK
  <1> QED
    BY <1>1, <1>2, <1>3, CreateSessionType, AgeSessionsType DEF SessionStep

\* A session that has been drawn is never drawn again: it stays as it is, or
\* it ends.
LEMMA SessionsStay ==
  ASSUME SessionTypeOK, SessionStep, NEW k \in issued
  PROVE  /\ k \in issued'
         /\ Accepts(k)' => /\ Accepts(k)
                           /\ sessions'[k].mailbox = sessions[k].mailbox
  <1>1. k \in Tokens /\ sessions[k] \in Sessions \cup {NoSession}
    BY DEF SessionTypeOK
  <1>2. CASE \E x \in Tokens, m \in Mailboxes, p \in Passwords :
               CreateSession(x, m, p)
    BY <1>1, <1>2 DEF CreateSession, Accepts, Expired, InDict
  <1>3. CASE \E x \in Tokens : GetSession(x) \/ DeleteSession(x)
    BY <1>1, <1>3
    DEF GetSession, DeleteSession, Accepts, Expired, InDict, SessionTypeOK
  <1>4. CASE AgeSessions
    <2>1. sessions'[k] = OlderBy1(sessions[k]) /\ issued' = issued
      BY <1>1, <1>4 DEF AgeSessions
    <2>2. CASE sessions[k] = NoSession \/ sessions[k].age = MaxAge
      BY <2>1, <2>2, SessionAssumption DEF OlderBy1, Accepts, Expired, InDict
    <2>3. CASE ~(sessions[k] = NoSession \/ sessions[k].age = MaxAge)
      <3>1. /\ sessions[k] \in Sessions
            /\ sessions'[k] = [sessions[k] EXCEPT !.age = @ + 1]
        BY <1>1, <2>1, <2>3 DEF OlderBy1
      <3>2. /\ sessions'[k].mailbox = sessions[k].mailbox
            /\ sessions'[k].age = sessions[k].age + 1
            /\ sessions[k].age \in 0..MaxAge
        BY <3>1 DEF Sessions
      <3> QED
        BY <2>1, <2>3, <3>2, SessionAssumption DEF Accepts, Expired, InDict
    <2> QED BY <2>2, <2>3
  <1>5. CASE LoseSessions
    BY <1>1, <1>5 DEF LoseSessions, Accepts, InDict
  <1>6. CASE UNCHANGED sessionVars
    BY <1>6 DEF sessionVars, Accepts, Expired, InDict
  <1> QED BY <1>2, <1>3, <1>4, <1>5, <1>6 DEF SessionStep
=============================================================================
