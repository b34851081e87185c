---------------------------- MODULE DeliveryProofs ----------------------------
(***************************************************************************)
(* Proofs about Delivery, for any senders, emails, addresses and bounds.   *)
(***************************************************************************)
EXTENDS Delivery, TLAPS

Trusted(s) == Credentials[s] = <<Username, Password>>

Holds(m, x) == \E c \in stored : c.mailbox = m /\ c.of = x

\* The mailboxes of an envelope, and of the first k - 1 recipients of an
\* email.
Reached(rcpt_tos) == {MailboxOf[rcpt_tos[j]] : j \in DOMAIN rcpt_tos}
Named(s, n, k) ==
  {MailboxOf[a] : a \in {Emails[s][n][j] : j \in 1..(k - 1)} \cap Valid}

\* An email that has come to DATA: a script that has still to send it is in
\* a later run.
Begun(x) ==
  LET c == client[x[1]]
  IN  /\ x[2] <= c.run
      /\ x[2] = c.run =>
           /\ x[3] <= c.n
           /\ c.pc \in {"login", "rcpt"} => x[3] < c.n

\* The envelope has the recipients of this email so far; an answer waits for
\* its script, and 250 tells the truth.
EnvelopeInv(s) ==
  LET c == client[s]  e == session[s]
  IN  /\ c.pc = "login" => c.k = 1 /\ e.rcpt_tos = << >> /\ e.answer = "none"
      /\ c.pc = "rcpt" =>
           /\ Trusted(s)
           /\ e.answer = "none"
           /\ Reached(e.rcpt_tos) = Named(s, c.n, c.k)
      /\ c.pc = "answer" =>
           /\ Trusted(s)
           /\ e.answer # "none" => e.rcpt_tos = << >>
           /\ e.answer = "250" =>
                \A m \in Targets(s, c.n) : Holds(m, Current(s))

\* The save under way is for the email that its sender is at, it has done
\* the recipients before the k-th, and all its copies have its id.
SavingInv ==
  Saving =>
    /\ Trusted(Sender)
    /\ saving.of = Current(Sender)
    /\ Reached(saving.rcpt_tos) = Targets(Sender, saving.of[3])
    /\ IF saving.connected
         THEN client[Sender].pc = "answer" /\ session[Sender].answer = "none"
       ELSE client[Sender].pc = "idle"
    /\ \A j \in DOMAIN saving.rcpt_tos :
         j < saving.k => Holds(MailboxOf[saving.rcpt_tos[j]], saving.of)
    /\ \A c \in stored : c.of = saving.of => c.id = saving.id

StoredInv ==
  /\ \A c \in stored : Begun(c.of)
  /\ \A c, d \in stored : c.of = d.of => c.id = d.id
  /\ SentIsStored /\ OnlyAddressed /\ StrangersStoreNothing

DeliveryInv ==
  TypeOK /\ (\A s \in Senders : EnvelopeInv(s)) /\ SavingInv /\ StoredInv

\* Copies have an id that was drawn, and share it with those of the same
\* sending alone.  A save has the id drawn last.
DrawnInv ==
  /\ \A c \in stored : c.id <= drawn
  /\ \A c, d \in stored : c.id = d.id => c.of = d.of
  /\ Saving => /\ saving.id = drawn
               /\ \A c \in stored : c.id = saving.id => c.of = saving.of

\* What was reported of a script's run is what comes before its email, or is
\* all of it.
SentInv ==
  /\ \A s \in Senders :
       /\ client[s].n \in DOMAIN Emails[s]
       /\ \A i \in 1..(client[s].n - 1) : <<s, client[s].run, i>> \in sent
  /\ \A x \in sent :
       LET c == client[x[1]]
       IN  /\ x[2] <= c.run
           /\ x[2] = c.run => x[3] < c.n \/ c.pc = "done"
  /\ \A s \in Senders :
       client[s].pc = "answer" => Targets(s, client[s].n) # {}

\* A run has failed when its script is idle again, or has 451 to read.
Failed(s) ==
  \/ client[s].pc = "idle"
  \/ client[s].pc = "answer" /\ session[s].answer = "451"

RunsInv ==
  \A s \in Senders :
    CanSend(s) =>
      client[s].run <= faults + (IF Failed(s) THEN 0 ELSE 1)

OrderInv == DrawnInv /\ SentInv /\ RunsInv

-----------------------------------------------------------------------------
(* Type correctness                                                        *)

\* What senders give: email n of s is a sequence of addresses, and not empty.
LEMMA EmailType ==
  ASSUME NEW s \in Senders, NEW n \in DOMAIN Emails[s]
  PROVE  /\ Emails[s] \in Seq(Seq(Addresses))
         /\ n \in 1..Len(Emails[s])
         /\ Emails[s][n] \in Seq(Addresses)
         /\ Len(Emails[s][n]) >= 1
  <1>1. /\ Emails[s] \in Seq(Seq(Addresses) \ {<< >>})
    BY DeliveryAssumption
  <1>2. Emails[s][n] \in Seq(Addresses) \ {<< >>} /\ n \in 1..Len(Emails[s])
    BY <1>1
  <1> QED BY <1>1, <1>2

LEMMA FirstEmail ==
  ASSUME NEW s \in Senders
  PROVE  1 \in DOMAIN Emails[s]
  <1>1. Emails[s] \in Seq(Seq(Addresses) \ {<< >>}) /\ Emails[s] # << >>
    BY DeliveryAssumption
  <1> QED BY <1>1

LEMMA MailboxType ==
  /\ Valid \subseteq Addresses
  /\ \A a \in Valid : MailboxOf[a] \in Mailboxes
  BY DeliveryAssumption DEF Valid

LEMMA FreshType == Fresh \in Sessions
  <1>1. << >> \in Seq(Valid)
    OBVIOUS
  <1> QED BY <1>1 DEF Fresh, Sessions

\* A client that runs has sent an email of its sender's.
LEMMA CurrentType ==
  ASSUME TypeOK, NEW s \in Senders, Running(s)
  PROVE  /\ Current(s) \in Sendings
         /\ client[s].n \in DOMAIN Emails[s]
         /\ Recipients(s) \in Seq(Addresses)
         /\ client[s].k \in 1..(Len(Recipients(s)) + 1)
  BY EmailType, DeliveryAssumption
  DEF TypeOK, Running, Current, Sendings, Clients, Recipients, AtAnEmail

LEMMA ClientUpdate ==
  ASSUME TypeOK, NEW s \in Senders, NEW c \in Clients, AtAnEmail(s, c),
         client' = [client EXCEPT ![s] = c]
  PROVE  /\ client' \in [Senders -> Clients]
         /\ \A x \in Senders : AtAnEmail(x, client'[x])
  BY DEF TypeOK

\* A client that moves within its email, or ends.
LEMMA ClientMoves ==
  ASSUME TypeOK, NEW s \in Senders, Running(s),
         NEW pc \in {"idle", "login", "rcpt", "answer", "done"},
         client' = [client EXCEPT ![s].pc = pc]
  PROVE  /\ client' \in [Senders -> Clients]
         /\ \A x \in Senders : AtAnEmail(x, client'[x])
  <1> DEFINE c == [client[s] EXCEPT !.pc = pc]
  <1>1. client[s] \in Clients /\ AtAnEmail(s, client[s])
    BY DEF TypeOK
  <1>2. c \in Clients /\ AtAnEmail(s, c)
    BY <1>1 DEF Clients, AtAnEmail, Running
  <1>3. client' = [client EXCEPT ![s] = c]
    BY DEF TypeOK
  <1> HIDE DEF c
  <1> QED BY <1>2, <1>3, ClientUpdate

LEMMA ClientStepType ==
  ASSUME TypeOK, NEW s \in Senders, ClientStep(s)
  PROVE  TypeOK'
  <1>1. client[s] \in Clients /\ AtAnEmail(s, client[s])
    BY DEF TypeOK
  <1>2. session[s] \in Sessions
    BY DEF TypeOK
  <1>3. MaxRuns \in Nat /\ MaxFaults \in Nat
    BY DeliveryAssumption
  <1>4. CASE StartRun(s)
    <2> DEFINE c == [pc |-> "login", run |-> client[s].run + 1, n |-> 1,
                     k |-> 1]
    <2>1. 1 \in DOMAIN Emails[s] /\ 1 \in 1..(Len(Emails[s][1]) + 1)
      BY FirstEmail, EmailType
    <2>2. client[s].run + 1 \in 1..MaxRuns
      BY <1>1, <1>3, <1>4 DEF StartRun, Clients
    <2>3. c \in Clients /\ AtAnEmail(s, c)
      BY <2>1, <2>2 DEF Clients, AtAnEmail
    <2>4. client' = [client EXCEPT ![s] = c]
      BY <1>4 DEF StartRun
    <2> HIDE DEF c
    <2>5. session' \in [Senders -> Sessions]
      BY <1>4, FreshType DEF StartRun, TypeOK
    <2> QED BY <1>4, <2>3, <2>4, <2>5, ClientUpdate DEF StartRun, TypeOK
  <1>5. CASE Login(s)
    <2>1. /\ client' \in [Senders -> Clients]
          /\ \A x \in Senders : AtAnEmail(x, client'[x])
      BY <1>5, ClientMoves DEF Login, Running
    <2>2. [session[s] EXCEPT !.authenticated = TRUE] \in Sessions
      BY <1>2 DEF Sessions
    <2> QED BY <1>5, <2>1, <2>2 DEF Login, TypeOK
  <1>6. CASE Rcpt(s)
    <2>1. /\ client[s].k + 1 \in 1..(Len(Recipients(s)) + 1)
          /\ Recipients(s)[client[s].k] \in Addresses
      BY <1>6, CurrentType DEF Rcpt, Running
    <2>2. session' \in [Senders -> Sessions]
      <3> DEFINE a == Recipients(s)[client[s].k]
      <3>1. CASE a \in Valid
        <4>1. Append(session[s].rcpt_tos, a) \in Seq(Valid)
          BY <1>2, <3>1 DEF Sessions
        <4>2. session' = [session EXCEPT
                ![s].rcpt_tos = Append(session[s].rcpt_tos, a)]
          BY <1>6, <3>1 DEF Rcpt, HandleRcpt
        <4> DEFINE l == Append(session[s].rcpt_tos, a)
        <4> HIDE DEF l
        <4>3. [session[s] EXCEPT !.rcpt_tos = l] \in Sessions
          BY <1>2, <4>1 DEF Sessions, l
        <4> QED BY <4>2, <4>3 DEF TypeOK, l
      <3>2. CASE a \notin Valid
        BY <1>6, <3>2 DEF Rcpt, HandleRcpt, TypeOK
      <3> QED BY <3>1, <3>2
    <2> DEFINE c == [client[s] EXCEPT !.k = @ + 1]
    <2>3. client' = [client EXCEPT ![s] = c]
      BY <1>6 DEF Rcpt
    <2>4. c \in Clients /\ AtAnEmail(s, c)
      BY <1>1, <2>1 DEF Clients, AtAnEmail, Recipients
    <2> HIDE DEF c
    <2> QED BY <1>6, <2>2, <2>3, <2>4, ClientUpdate DEF Rcpt, TypeOK
  <1>7. CASE AllRefused(s)
    BY <1>7, ClientMoves DEF AllRefused, Running, TypeOK
  <1>8. CASE Data(s)
    <2>1. /\ Current(s) \in Sendings
          /\ session[s].rcpt_tos \in Seq(Valid)
          /\ drawn + 1 \in Nat
      <3>1. Current(s) \in Sendings
        BY <1>8, CurrentType DEF Data, Running
      <3>2. drawn + 1 \in Nat
        BY DEF TypeOK
      <3> QED BY <1>2, <3>1, <3>2 DEF Sessions
    <2>2. saving' = [of |-> Current(s), id |-> drawn + 1, k |-> 1,
                     rcpt_tos |-> session[s].rcpt_tos, connected |-> TRUE]
      BY <1>8 DEF Data
    <2>3. saving' \in Savings
      BY <2>1, <2>2 DEF Savings
    <2>4. /\ client' \in [Senders -> Clients]
          /\ \A x \in Senders : AtAnEmail(x, client'[x])
      BY <1>8, ClientMoves DEF Data, Running
    <2> QED BY <1>8, <2>1, <2>3, <2>4 DEF Data, TypeOK
  <1>9. CASE Accepted(s)
    <2>0. /\ Running(s) /\ client[s].n \in 1..Len(Emails[s])
          /\ Emails[s] \in Seq(Seq(Addresses))
      BY <1>9, CurrentType, EmailType DEF Accepted, Running
    <2>1. sent' \subseteq Sendings
      BY <1>9, <2>0, CurrentType DEF Accepted, TypeOK
    <2>2. session' \in [Senders -> Sessions]
      <3>1. [session[s] EXCEPT !.answer = "none"] \in Sessions
        BY <1>2 DEF Sessions
      <3> QED BY <1>9, <3>1 DEF Accepted, TypeOK
    <2>3. CASE client[s].n < Len(Emails[s])
      <3> DEFINE c == [pc |-> "rcpt", run |-> client[s].run,
                       n |-> client[s].n + 1, k |-> 1]
      <3>1. client' = [client EXCEPT ![s] = c]
        BY <1>9, <2>3 DEF Accepted
      <3>2. client[s].n + 1 \in DOMAIN Emails[s]
        BY <2>0, <2>3
      <3>3. 1 \in 1..(Len(Emails[s][client[s].n + 1]) + 1)
        BY <3>2, EmailType
      <3>4. c \in Clients /\ AtAnEmail(s, c)
        <4>1. client[s].run \in 0..MaxRuns /\ client[s].run > 0
          BY <1>1, <2>0 DEF Clients, AtAnEmail, Running
        <4>2. client[s].n + 1 \in Nat \ {0} /\ 1 \in Nat \ {0}
          BY <2>0
        <4>3. c \in Clients
          BY <4>1, <4>2 DEF Clients
        <4>4. AtAnEmail(s, c)
          BY <3>2, <3>3, <4>1 DEF AtAnEmail
        <4> QED BY <4>3, <4>4
      <3> HIDE DEF c
      <3>5. /\ client' \in [Senders -> Clients]
            /\ \A x \in Senders : AtAnEmail(x, client'[x])
        BY <3>1, <3>4, ClientUpdate
      <3> QED BY <1>9, <2>1, <2>2, <3>5 DEF Accepted, TypeOK
    <2>4. CASE ~(client[s].n < Len(Emails[s]))
      <3>1. client' = [client EXCEPT ![s].pc = "done"]
        BY <1>9, <2>4 DEF Accepted
      <3> QED BY <1>9, <2>0, <2>1, <2>2, <3>1, ClientMoves DEF Accepted, TypeOK
    <2> QED BY <2>3, <2>4
  <1>10. CASE Rejected(s)
    BY <1>10, ClientMoves DEF Rejected, Running, TypeOK
  <1> QED BY <1>4, <1>5, <1>6, <1>7, <1>8, <1>9, <1>10 DEF ClientStep

\* What is being saved is an email of a sender's, for addresses that sanitize.
LEMMA SavingType ==
  ASSUME TypeOK, Saving
  PROVE  /\ saving \in Savings
         /\ Sender \in Senders
         /\ \A j \in DOMAIN saving.rcpt_tos :
              MailboxOf[saving.rcpt_tos[j]] \in Mailboxes
  BY MailboxType DEF TypeOK, Saving, Sender, Savings, Sendings

LEMMA ReplyType ==
  ASSUME TypeOK, Saving, NEW a \in {"250", "451"}, Reply(a),
         faults' \in 0..MaxFaults
  PROVE  TypeOK'
  <1>1. session' \in [Senders -> Sessions]
    <2>1. session[Sender] \in Sessions
      BY SavingType DEF TypeOK
    <2>2. << >> \in Seq(Valid)
      OBVIOUS
    <2>3. [session[Sender] EXCEPT !.rcpt_tos = << >>, !.answer = a]
            \in Sessions
      BY <2>1, <2>2 DEF Sessions
    <2> QED BY <2>3, SavingType DEF Reply, TypeOK
  <1> QED BY <1>1 DEF Reply, TypeOK

LEMMA ServerStepType ==
  ASSUME TypeOK, ServerStep
  PROVE  TypeOK'
  <1>1. CASE SaveCopy
    <2>1. saving.k \in DOMAIN saving.rcpt_tos
      BY <1>1, SavingType DEF SaveCopy, Savings
    <2>2. [mailbox |-> MailboxOf[saving.rcpt_tos[saving.k]],
           id |-> saving.id, of |-> saving.of] \in StoredCopies
      BY <1>1, <2>1, SavingType DEF SaveCopy, StoredCopies, Savings
    <2>3. saving' \in Savings
      BY <1>1, SavingType DEF SaveCopy, Savings
    <2> QED BY <1>1, <2>2, <2>3 DEF SaveCopy, TypeOK
  <1>2. CASE ReplyAccepted
    <2>1. faults' \in 0..MaxFaults
      BY <1>2 DEF ReplyAccepted, TypeOK
    <2> QED BY <1>2, <2>1, ReplyType DEF ReplyAccepted
  <1>3. CASE ReplyError
    <2>1. faults' \in 0..MaxFaults
      BY <1>3, DeliveryAssumption DEF ReplyError, TypeOK
    <2> QED BY <1>3, <2>1, ReplyType DEF ReplyError
  <1> QED BY <1>1, <1>2, <1>3 DEF ServerStep

LEMMA FaultType ==
  ASSUME TypeOK, Kill \/ Restart \/ \E s \in Senders : Disconnect(s)
  PROVE  TypeOK'
  <1> USE DEF TypeOK
  <1>1. CASE Restart
    BY <1>1 DEF Restart
  <1>2. CASE Kill
    <2>1. \A s \in Senders :
            /\ [client[s] EXCEPT !.pc = "idle"] \in Clients
            /\ AtAnEmail(s, [client[s] EXCEPT !.pc = "idle"])
      BY DEF Clients, AtAnEmail
    <2>2. client' \in [Senders -> Clients]
      BY <1>2, <2>1 DEF Kill
    <2>3. \A s \in Senders : AtAnEmail(s, client'[s])
      BY <1>2, <2>1 DEF Kill
    <2>4. faults' \in 0..MaxFaults
      BY <1>2, DeliveryAssumption DEF Kill, Fault
    <2> QED BY <1>2, <2>2, <2>3, <2>4, FreshType DEF Kill
  <1>3. ASSUME NEW s \in Senders, Disconnect(s)
        PROVE  TypeOK'
    <2>1. /\ client' \in [Senders -> Clients]
          /\ \A x \in Senders : AtAnEmail(x, client'[x])
      BY <1>3, ClientMoves DEF Disconnect
    <2>2. faults' \in 0..MaxFaults
      BY <1>3, DeliveryAssumption DEF Disconnect, Fault
    <2>3. saving' \in Savings \cup {NotSaving}
      <3>1. CASE Saving /\ Sender = s
        BY <1>3, <3>1, SavingType DEF Disconnect, Savings
      <3>2. CASE ~(Saving /\ Sender = s)
        BY <1>3, <3>2 DEF Disconnect
      <3> QED BY <3>1, <3>2
    <2> QED BY <1>3, <2>1, <2>2, <2>3, FreshType DEF Disconnect
  <1> QED BY <1>1, <1>2, <1>3

\* Clients, sessions, the save under way and what is stored stay in their
\* ranges.
THEOREM TypeCorrect == Spec => []TypeOK
  <1>1. Init => TypeOK
    BY DeliveryAssumption, FreshType
    DEF Init, TypeOK, Clients, AtAnEmail
  <1>2. TypeOK /\ [Next]_vars => TypeOK'
    <2>1. ASSUME TypeOK, UNCHANGED vars
          PROVE  TypeOK'
      BY <2>1 DEF vars, TypeOK
    <2> QED BY <2>1, ClientStepType, ServerStepType, FaultType DEF Next
  <1> QED BY <1>1, <1>2, PTL DEF Spec

-----------------------------------------------------------------------------
(* What stays as it is                                                     *)

LEMMA HoldsKept ==
  ASSUME NEW m, NEW x, stored \subseteq stored', Holds(m, x)
  PROVE  Holds(m, x)'
  BY DEF Holds

LEMMA EnvelopeKept ==
  ASSUME NEW s \in Senders, EnvelopeInv(s), stored \subseteq stored',
         client'[s] = client[s], session'[s] = session[s]
  PROVE  EnvelopeInv(s)'
  <1>1. Current(s)' = Current(s)
    BY DEF Current
  <1>2. \A m : Holds(m, Current(s)) => Holds(m, Current(s))'
    BY <1>1 DEF Holds
  <1> QED
    BY <1>1, <1>2 DEF EnvelopeInv, Trusted, Targets, Valid, Reached, Named

LEMMA StoredKept ==
  ASSUME TypeOK, StoredInv, stored' = stored, sent' = sent,
         \A x \in Sendings : Begun(x) => Begun(x)'
  PROVE  StoredInv'
  <1>1. \A c \in stored : Begun(c.of)'
    BY DEF TypeOK, StoredCopies, StoredInv
  <1> QED BY <1>1 DEF StoredInv, SentIsStored, OnlyAddressed,
                      StrangersStoreNothing, Targets, Valid

LEMMA SavingKept ==
  ASSUME TypeOK, SavingInv, saving' = saving, stored' = stored,
         Saving => /\ client'[Sender] = client[Sender]
                   /\ session'[Sender] = session[Sender]
  PROVE  SavingInv'
  <1> SUFFICES ASSUME Saving PROVE SavingInv'
    BY DEF SavingInv, Saving
  <1>1. Sender' = Sender
    BY DEF Sender
  <1>2. /\ client'[Sender'] = client[Sender]
        /\ session'[Sender'] = session[Sender]
    BY <1>1
  <1>3. Current(Sender)' = Current(Sender)
    BY <1>1, <1>2 DEF Current
  <1>4. Reached(saving.rcpt_tos)' = Reached(saving.rcpt_tos)
    BY DEF Reached
  <1>5. Targets(Sender, saving.of[3])' = Targets(Sender, saving.of[3])
    BY <1>1 DEF Targets, Valid
  <1>6. Trusted(Sender)' = Trusted(Sender)
    BY <1>1 DEF Trusted
  <1>7. \A j : Holds(MailboxOf[saving.rcpt_tos[j]], saving.of)
                => Holds(MailboxOf[saving.rcpt_tos[j]], saving.of)'
    BY DEF Holds
  <1> QED BY <1>1, <1>2, <1>3, <1>4, <1>5, <1>6, <1>7 DEF SavingInv

\* One script goes on, in its run or in a new one.
LEMMA BegunKept ==
  ASSUME TypeOK, NEW s \in Senders, NEW c \in Clients,
         client' = [client EXCEPT ![s] = c],
         \/ c.run = client[s].run + 1
         \/ /\ c.run = client[s].run /\ c.n = client[s].n
            /\ c.pc \in {"login", "rcpt"}
                 => client[s].pc \in {"login", "rcpt"}
         \/ /\ c.run = client[s].run /\ c.n = client[s].n + 1
  PROVE  \A x \in Sendings : Begun(x) => Begun(x)'
  <1> TAKE x \in Sendings
  <1>1. CASE x[1] = s
    <2>1. /\ client'[s] = c
          /\ client[s].run \in Nat /\ client[s].n \in Nat
          /\ x[2] \in Nat /\ x[3] \in Nat
      <3>1. client'[s] = c
        BY DEF TypeOK
      <3>2. client[s].run \in Nat /\ client[s].n \in Nat
        BY DeliveryAssumption DEF TypeOK, Clients
      <3>3. x[2] \in Nat /\ x[3] \in Nat
        BY DeliveryAssumption DEF Sendings
      <3> QED BY <3>1, <3>2, <3>3
    <2>2. CASE c.run = client[s].run + 1
      BY <1>1, <2>1, <2>2 DEF Begun
    <2>3. CASE c.run = client[s].run /\ c.n = client[s].n
      BY <1>1, <2>1, <2>3 DEF Begun
    <2>4. CASE c.run = client[s].run /\ c.n = client[s].n + 1
      BY <1>1, <2>1, <2>4 DEF Begun
    <2> QED BY <2>2, <2>3, <2>4
  <1>2. CASE x[1] # s
    BY <1>2 DEF Begun, TypeOK
  <1> QED BY <1>1, <1>2

-----------------------------------------------------------------------------
(* Envelopes                                                               *)

LEMMA ReachedAppend ==
  ASSUME NEW l \in Seq(Valid), NEW a \in Valid
  PROVE  Reached(Append(l, a)) = Reached(l) \cup {MailboxOf[a]}
  <1> DEFINE l2 == Append(l, a)
  <1>1. /\ DOMAIN l = 1..Len(l) /\ DOMAIN l2 = 1..(Len(l) + 1)
        /\ Len(l) \in Nat
        /\ \A j \in 1..Len(l) : l2[j] = l[j]
        /\ l2[Len(l) + 1] = a
    OBVIOUS
  <1> HIDE DEF l2
  <1>2. 1..(Len(l) + 1) = (1..Len(l)) \cup {Len(l) + 1}
    BY <1>1
  <1> QED BY <1>1, <1>2 DEF Reached, l2

LEMMA NamedNext ==
  ASSUME NEW s, NEW n, NEW k \in Nat \ {0}
  PROVE  Named(s, n, k + 1) =
           Named(s, n, k) \cup
             (IF Emails[s][n][k] \in Valid THEN {MailboxOf[Emails[s][n][k]]}
              ELSE {})
  <1>1. 1..(k + 1 - 1) = (1..(k - 1)) \cup {k}
    OBVIOUS
  <1> QED BY <1>1 DEF Named

LEMMA NamedAll ==
  ASSUME NEW s \in Senders, NEW n \in DOMAIN Emails[s]
  PROVE  Named(s, n, Len(Emails[s][n]) + 1) = Targets(s, n)
  <1>1. /\ DOMAIN Emails[s][n] = 1..Len(Emails[s][n])
        /\ Len(Emails[s][n]) + 1 - 1 = Len(Emails[s][n])
    BY EmailType
  <1> QED BY <1>1 DEF Named, Targets

LEMMA NamedNone == \A s, n : Named(s, n, 1) = {} /\ Reached(<< >>) = {}
  <1>1. 1..(1 - 1) = {} /\ DOMAIN << >> = {}
    OBVIOUS
  <1> QED BY <1>1 DEF Named, Reached

-----------------------------------------------------------------------------
(* The steps of a script                                                   *)

LEMMA TypeKept ==
  ASSUME TypeOK, [Next]_vars
  PROVE  TypeOK'
  <1>1. CASE UNCHANGED vars
    BY <1>1 DEF vars, TypeOK
  <1> QED BY <1>1, ClientStepType, ServerStepType, FaultType DEF Next

\* A step of one script that touches neither the store nor a save.
LEMMA OnlyScript ==
  ASSUME DeliveryInv, TypeOK', NEW s \in Senders, NEW c \in Clients,
         client' = [client EXCEPT ![s] = c],
         \/ c.run = client[s].run + 1
         \/ /\ c.run = client[s].run /\ c.n = client[s].n
            /\ c.pc \in {"login", "rcpt"}
                 => client[s].pc \in {"login", "rcpt"},
         \A x \in Senders \ {s} : session'[x] = session[x],
         saving' = saving, stored' = stored, sent' = sent,
         Saving => Sender # s,
         EnvelopeInv(s)'
  PROVE  DeliveryInv'
  <1>1. \A x \in Senders \ {s} : client'[x] = client[x]
    BY DEF DeliveryInv, TypeOK
  <1>2. \A x \in Senders : EnvelopeInv(x)'
    BY <1>1, EnvelopeKept DEF DeliveryInv
  <1>3. SavingInv'
    BY <1>1, SavingKept, SavingType DEF DeliveryInv
  <1>4. StoredInv'
    BY BegunKept, StoredKept DEF DeliveryInv
  <1> QED BY <1>2, <1>3, <1>4 DEF DeliveryInv

\* Nobody is saved for while commands are taken, and not for a script that
\* has its answer.
LEMMA NotSavedFor ==
  ASSUME DeliveryInv, NEW s \in Senders,
         \/ Ready
         \/ client[s].pc = "answer" /\ session[s].answer # "none"
  PROVE  Saving => Sender # s
  BY DEF DeliveryInv, SavingInv, Ready, Saving

LEMMA StartRunInv ==
  ASSUME DeliveryInv, TypeOK', NEW s \in Senders, StartRun(s)
  PROVE  DeliveryInv'
  <1> DEFINE c == [pc |-> "login", run |-> client[s].run + 1, n |-> 1,
                   k |-> 1]
  <1>1. client' = [client EXCEPT ![s] = c]
    BY DEF StartRun
  <1>2. c \in Clients
    <2>1. client'[s] = c /\ client'[s] \in Clients
      BY <1>1 DEF DeliveryInv, TypeOK
    <2> QED BY <2>1
  <1>3. EnvelopeInv(s)'
    <2>1. client'[s] = c /\ session'[s] = Fresh
      BY <1>1 DEF StartRun, DeliveryInv, TypeOK
    <2> QED BY <2>1 DEF EnvelopeInv, Fresh
  <1>4. \A x \in Senders \ {s} : session'[x] = session[x]
    BY DEF StartRun, DeliveryInv, TypeOK
  <1>5. c.run = client[s].run + 1
    OBVIOUS
  <1> HIDE DEF c
  <1> QED BY <1>1, <1>2, <1>3, <1>4, <1>5, OnlyScript, NotSavedFor
          DEF StartRun

\* A script that stays at its email.
LEMMA ScriptMoves ==
  ASSUME DeliveryInv, TypeOK', NEW s \in Senders,
         NEW pc \in {"idle", "rcpt", "done"},
         client' = [client EXCEPT ![s].pc = pc],
         pc = "rcpt" => client[s].pc = "login",
         \A x \in Senders \ {s} : session'[x] = session[x],
         saving' = saving, stored' = stored, sent' = sent,
         Saving => Sender # s,
         EnvelopeInv(s)'
  PROVE  DeliveryInv'
  <1> DEFINE c == [client[s] EXCEPT !.pc = pc]
  <1>1. client[s] \in Clients
    BY DEF DeliveryInv, TypeOK
  <1>2. /\ c \in Clients /\ c.pc = pc
        /\ c.run = client[s].run /\ c.n = client[s].n
    BY <1>1 DEF Clients
  <1>3. client' = [client EXCEPT ![s] = c]
    OBVIOUS
  <1> HIDE DEF c
  <1> QED BY <1>2, <1>3, OnlyScript

LEMMA LoginInv ==
  ASSUME DeliveryInv, TypeOK', NEW s \in Senders, Login(s)
  PROVE  DeliveryInv'
  <1>1. client[s] \in Clients /\ session[s] \in Sessions
    BY DEF DeliveryInv, TypeOK
  <1>2. \A x \in Senders \ {s} : session'[x] = session[x]
    BY DEF Login, DeliveryInv, TypeOK
  <1>3. CASE Authenticates(Credentials[s])
    <2>1. client' = [client EXCEPT ![s].pc = "rcpt"]
      BY <1>3 DEF Login
    <2>2. Trusted(s)
      BY <1>3, DeliveryAssumption DEF Authenticates, Trusted
    <2>3. /\ client'[s].pc = "rcpt" /\ client'[s].k = client[s].k
          /\ client'[s].n = client[s].n
      BY <1>1, <2>1 DEF DeliveryInv, TypeOK, Clients
    <2>4. /\ session'[s].rcpt_tos = session[s].rcpt_tos
          /\ session'[s].answer = session[s].answer
      BY <1>1, <1>3 DEF Login, DeliveryInv, TypeOK, Sessions
    <2>5. client[s].k = 1 /\ session[s].rcpt_tos = << >>
          /\ session[s].answer = "none"
      BY DEF DeliveryInv, EnvelopeInv, Login
    <2>6. Reached(session[s].rcpt_tos) = Named(s, client[s].n, client[s].k)
      BY <2>5, NamedNone
    <2>7. EnvelopeInv(s)'
      BY <2>2, <2>3, <2>4, <2>5, <2>6 DEF EnvelopeInv, Trusted, Reached, Named
    <2> QED BY <1>2, <2>1, <2>7, ScriptMoves, NotSavedFor DEF Login
  <1>4. CASE ~Authenticates(Credentials[s])
    <2>1. client' = [client EXCEPT ![s].pc = "idle"]
      BY <1>4 DEF Login
    <2>2. EnvelopeInv(s)'
      BY <1>1, <2>1 DEF EnvelopeInv, DeliveryInv, TypeOK, Clients
    <2> QED BY <1>2, <2>1, <2>2, ScriptMoves, NotSavedFor DEF Login
  <1> QED BY <1>3, <1>4

LEMMA RcptInv ==
  ASSUME DeliveryInv, TypeOK', NEW s \in Senders, Rcpt(s)
  PROVE  DeliveryInv'
  <1> DEFINE a == Recipients(s)[client[s].k]
             c == [client[s] EXCEPT !.k = @ + 1]
  <1>1. client[s] \in Clients /\ session[s] \in Sessions
    BY DEF DeliveryInv, TypeOK
  <1>2. /\ Trusted(s) /\ session[s].answer = "none"
        /\ Reached(session[s].rcpt_tos) = Named(s, client[s].n, client[s].k)
    BY DEF DeliveryInv, EnvelopeInv, Rcpt
  <1>3. client' = [client EXCEPT ![s] = c]
    BY DEF Rcpt
  <1>4. /\ c \in Clients /\ c.pc = "rcpt" /\ c.run = client[s].run
        /\ c.n = client[s].n /\ c.k = client[s].k + 1
        /\ client[s].k \in Nat \ {0}
    BY <1>1 DEF Rcpt, Clients
  <1> HIDE DEF c
  <1>5. client'[s] = c
    BY <1>3 DEF DeliveryInv, TypeOK
  <1>6. /\ \A x \in Senders \ {s} : session'[x] = session[x]
        /\ session'[s].answer = session[s].answer
        /\ session'[s].rcpt_tos = IF a \in Valid
             THEN Append(session[s].rcpt_tos, a) ELSE session[s].rcpt_tos
    BY <1>1 DEF Rcpt, HandleRcpt, DeliveryInv, TypeOK, Sessions
  <1>7. Reached(session'[s].rcpt_tos) = Named(s, client[s].n, client[s].k + 1)
    <2>1. CASE a \in Valid
      <3>1. Reached(session'[s].rcpt_tos)
              = Reached(session[s].rcpt_tos) \cup {MailboxOf[a]}
        BY <1>1, <1>6, <2>1, ReachedAppend DEF Sessions
      <3> QED BY <1>2, <1>4, <2>1, <3>1, NamedNext DEF Recipients
    <2>2. CASE a \notin Valid
      <3>1. Named(s, client[s].n, client[s].k + 1)
              = Named(s, client[s].n, client[s].k) \cup {}
        BY <1>4, <2>2, NamedNext DEF Recipients
      <3>2. session'[s].rcpt_tos = session[s].rcpt_tos
        BY <1>6, <2>2
      <3> QED BY <1>2, <3>1, <3>2
    <2> QED BY <2>1, <2>2
  <1>8. EnvelopeInv(s)'
    <2>1. Trusted(s)' /\ session'[s].answer = "none"
      BY <1>2, <1>6 DEF Trusted
    <2>2. /\ client'[s].pc = "rcpt" /\ client'[s].n = client[s].n
          /\ client'[s].k = client[s].k + 1
      BY <1>4, <1>5
    <2>3. Reached(session[s].rcpt_tos)' = Named(s, client[s].n, client[s].k)'
      BY <1>7, <2>2 DEF Reached, Named, Valid
    <2> QED BY <2>1, <2>2, <2>3 DEF EnvelopeInv
  <1> QED BY <1>3, <1>4, <1>6, <1>8, OnlyScript, NotSavedFor DEF Rcpt

LEMMA EndsInv ==
  ASSUME DeliveryInv, TypeOK', NEW s \in Senders, AllRefused(s) \/ Rejected(s)
  PROVE  DeliveryInv'
  <1>1. /\ client' = [client EXCEPT ![s].pc = "idle"]
        /\ saving' = saving /\ stored' = stored /\ sent' = sent
        /\ session' = session
    BY DEF AllRefused, Rejected
  <1>2. client'[s].pc = "idle"
    BY <1>1 DEF DeliveryInv, TypeOK, Clients
  <1>3. EnvelopeInv(s)'
    BY <1>2 DEF EnvelopeInv
  <1>4. Saving => Sender # s
    BY NotSavedFor DEF AllRefused, Rejected
  <1> QED BY <1>1, <1>3, <1>4, ScriptMoves

\* The copy of one script changes; what began stays begun.
LEMMA PcKept ==
  ASSUME TypeOK, NEW s \in Senders,
         NEW pc \in {"idle", "answer", "done"},
         client' = [client EXCEPT ![s].pc = pc]
  PROVE  /\ \A x \in Sendings : Begun(x) => Begun(x)'
         /\ Current(s)' = Current(s)
         /\ client'[s].pc = pc /\ client'[s].n = client[s].n
  <1> DEFINE c == [client[s] EXCEPT !.pc = pc]
  <1>1. client[s] \in Clients
    BY DEF TypeOK
  <1>2. /\ c \in Clients /\ c.pc = pc
        /\ c.run = client[s].run /\ c.n = client[s].n
    BY <1>1 DEF Clients
  <1>3. client' = [client EXCEPT ![s] = c]
    OBVIOUS
  <1> HIDE DEF c
  <1>4. client'[s] = c
    BY <1>3 DEF TypeOK
  <1> QED BY <1>2, <1>3, <1>4, BegunKept DEF Current

LEMMA DataInv ==
  ASSUME DeliveryInv, TypeOK', NEW s \in Senders, Data(s)
  PROVE  DeliveryInv'
  <1>1. /\ client[s].pc = "rcpt" /\ client[s].k = Len(Recipients(s)) + 1
        /\ client[s].n \in DOMAIN Emails[s]
    <2>1. /\ client[s].k \in 1..(Len(Recipients(s)) + 1)
          /\ client[s].n \in DOMAIN Emails[s]
          /\ Len(Recipients(s)) \in Nat
      BY CurrentType DEF Data, Running, DeliveryInv
    <2> QED BY <2>1 DEF Data
  <1>2. /\ Trusted(s) /\ session[s].answer = "none"
        /\ Reached(session[s].rcpt_tos) = Named(s, client[s].n, client[s].k)
    BY <1>1 DEF DeliveryInv, EnvelopeInv
  <1>3. Reached(session[s].rcpt_tos) = Targets(s, client[s].n)
    BY <1>1, <1>2, NamedAll DEF Recipients
  <1>4. client' = [client EXCEPT ![s].pc = "answer"]
    BY DEF Data
  <1>5. /\ \A x \in Sendings : Begun(x) => Begun(x)'
        /\ Current(s)' = Current(s)
        /\ client'[s].pc = "answer" /\ client'[s].n = client[s].n
    BY <1>4, PcKept DEF DeliveryInv
  <1>6. /\ saving'.of = Current(s) /\ saving'.k = 1
        /\ saving'.rcpt_tos = session[s].rcpt_tos /\ saving'.connected
        /\ session' = session /\ stored' = stored /\ sent' = sent
    BY DEF Data
  <1>7. Sender' = s /\ saving'.of[3] = client[s].n
    BY <1>6 DEF Sender, Current
  <1>8. \A c \in stored : c.of # Current(s)
    <2> SUFFICES ASSUME NEW c \in stored, c.of = Current(s) PROVE FALSE
      OBVIOUS
    <2>1. Begun(Current(s))
      BY DEF DeliveryInv, StoredInv
    <2>2. client[s].n < client[s].n /\ client[s].n \in Nat
      BY <1>1, <2>1 DEF Begun, Current, DeliveryInv, TypeOK, Clients
    <2> QED BY <2>2
  <1>9. SavingInv'
    <2>1. Trusted(Sender)'
      BY <1>2, <1>7 DEF Trusted
    <2>2. saving'.of = Current(Sender)'
      BY <1>5, <1>6, <1>7 DEF Current
    <2>3. Reached(saving.rcpt_tos)' = Targets(Sender, saving.of[3])'
      BY <1>3, <1>6, <1>7 DEF Reached, Targets, Valid
    <2>4. /\ client'[Sender'].pc = "answer"
          /\ session'[Sender'].answer = "none"
      BY <1>2, <1>5, <1>6, <1>7
    <2>5. \A j \in DOMAIN session[s].rcpt_tos : ~(j < 1)
      BY DEF DeliveryInv, TypeOK, Sessions
    <2> QED BY <1>6, <1>8, <2>1, <2>2, <2>3, <2>4, <2>5 DEF SavingInv
  <1>10. \A x \in Senders : EnvelopeInv(x)'
    <2>1. EnvelopeInv(s)'
      BY <1>2, <1>5, <1>6 DEF EnvelopeInv, Trusted
    <2>2. ASSUME NEW x \in Senders \ {s}
          PROVE  EnvelopeInv(x)'
      BY <1>4, <1>6, <2>2, EnvelopeKept DEF DeliveryInv, TypeOK
    <2> QED BY <2>1, <2>2
  <1>11. StoredInv'
    BY <1>5, <1>6, StoredKept DEF DeliveryInv
  <1> QED BY <1>9, <1>10, <1>11 DEF DeliveryInv

LEMMA AcceptedInv ==
  ASSUME DeliveryInv, TypeOK', NEW s \in Senders, Accepted(s)
  PROVE  DeliveryInv'
  <1>1. client[s] \in Clients /\ session[s] \in Sessions
    BY DEF DeliveryInv, TypeOK
  <1>2. /\ Trusted(s) /\ session[s].rcpt_tos = << >>
        /\ \A m \in Targets(s, client[s].n) : Holds(m, Current(s))
    BY DEF DeliveryInv, EnvelopeInv, Accepted
  <1>3. Saving => Sender # s
    BY NotSavedFor DEF Accepted
  <1>4. /\ session'[s].rcpt_tos = << >> /\ session'[s].answer = "none"
        /\ \A x \in Senders \ {s} : session'[x] = session[x]
    BY <1>1, <1>2 DEF Accepted, DeliveryInv, TypeOK, Sessions
  <1>5. /\ \A x \in Senders \ {s} : client'[x] = client[x]
        /\ \A x \in Sendings : Begun(x) => Begun(x)'
        /\ EnvelopeInv(s)'
    <2>1. CASE client[s].n < Len(Emails[s])
      <3> DEFINE c == [pc |-> "rcpt", run |-> client[s].run,
                       n |-> client[s].n + 1, k |-> 1]
      <3>1. client' = [client EXCEPT ![s] = c]
        BY <2>1 DEF Accepted
      <3>2. client'[s] = c
        BY <3>1 DEF DeliveryInv, TypeOK
      <3>3. c \in Clients
        BY <3>2 DEF TypeOK
      <3>4. /\ c.run = client[s].run /\ c.n = client[s].n + 1
            /\ c.pc = "rcpt" /\ c.k = 1
        OBVIOUS
      <3> HIDE DEF c
      <3>5. \A x \in Sendings : Begun(x) => Begun(x)'
        BY <3>1, <3>3, <3>4, BegunKept DEF DeliveryInv
      <3>6. EnvelopeInv(s)'
        <4>1. Reached(session[s].rcpt_tos)' =
                Named(s, client[s].n, client[s].k)'
          <5>1. Reached(<< >>) = Named(s, c.n, 1)
            BY NamedNone
          <5> QED BY <1>4, <3>2, <3>4, <5>1 DEF Reached, Named, Valid
        <4> QED BY <1>2, <1>4, <3>2, <3>4, <4>1 DEF EnvelopeInv, Trusted
      <3> QED BY <3>1, <3>5, <3>6 DEF DeliveryInv, TypeOK
    <2>2. CASE ~(client[s].n < Len(Emails[s]))
      <3>1. client' = [client EXCEPT ![s].pc = "done"]
        BY <2>2 DEF Accepted
      <3>2. /\ \A x \in Sendings : Begun(x) => Begun(x)'
            /\ client'[s].pc = "done"
        BY <3>1, PcKept DEF DeliveryInv
      <3>3. \A x \in Senders \ {s} : client'[x] = client[x]
        BY <3>1 DEF DeliveryInv, TypeOK
      <3> QED BY <3>2, <3>3 DEF EnvelopeInv
    <2> QED BY <2>1, <2>2
  <1>6. \A x \in Senders : EnvelopeInv(x)'
    BY <1>4, <1>5, EnvelopeKept DEF DeliveryInv, Accepted
  <1>7. SavingInv'
    BY <1>3, <1>4, <1>5, SavingKept, SavingType DEF DeliveryInv, Accepted
  <1>8. StoredInv'
    <2>1. stored' = stored /\ sent' = sent \cup {Current(s)}
      BY DEF Accepted
    <2>2. SentIsStored'
      <3>1. Current(s)[1] = s /\ Current(s)[3] = client[s].n
        BY DEF Current
      <3>2. ASSUME NEW x \in sent', NEW m \in Targets(x[1], x[3])
            PROVE  Holds(m, x)
        BY <1>2, <2>1, <3>1, <3>2
        DEF DeliveryInv, StoredInv, SentIsStored, Holds
      <3> QED BY <2>1, <3>2 DEF SentIsStored, Holds, Targets, Valid
    <2>3. \A c \in stored : Begun(c.of)'
      BY <1>5 DEF DeliveryInv, StoredInv, TypeOK, StoredCopies
    <2> QED BY <2>1, <2>2, <2>3 DEF DeliveryInv, StoredInv, OnlyAddressed,
                                    StrangersStoreNothing, Targets, Valid
  <1> QED BY <1>6, <1>7, <1>8 DEF DeliveryInv

-----------------------------------------------------------------------------
(* The steps of the server                                                 *)

LEMMA SaveCopyInv ==
  ASSUME DeliveryInv, TypeOK', SaveCopy
  PROVE  DeliveryInv'
  <1> DEFINE m == MailboxOf[saving.rcpt_tos[saving.k]]
             new == [mailbox |-> m, id |-> saving.id, of |-> saving.of]
  <1>1. saving \in Savings /\ Sender \in Senders
    BY SavingType DEF DeliveryInv, SaveCopy
  <1>2. /\ stored' = stored \cup {new}
        /\ saving' = [saving EXCEPT !.k = @ + 1]
        /\ UNCHANGED <<client, session, sent>>
    BY DEF SaveCopy
  <1>3. /\ saving.k \in Nat \ {0}
        /\ saving.k \in DOMAIN saving.rcpt_tos
        /\ DOMAIN saving.rcpt_tos = 1..Len(saving.rcpt_tos)
    BY <1>1 DEF SaveCopy, Savings
  <1>4. /\ saving'.of = saving.of /\ saving'.id = saving.id
        /\ saving'.rcpt_tos = saving.rcpt_tos
        /\ saving'.connected = saving.connected
        /\ saving'.k = saving.k + 1
    BY <1>1, <1>2 DEF Savings
  <1>5. /\ Trusted(Sender) /\ saving.of = Current(Sender)
        /\ Reached(saving.rcpt_tos) = Targets(Sender, saving.of[3])
        /\ client[Sender].pc \in {"answer", "idle"}
        /\ \A c \in stored : c.of = saving.of => c.id = saving.id
        /\ \A j \in DOMAIN saving.rcpt_tos :
             j < saving.k => Holds(MailboxOf[saving.rcpt_tos[j]], saving.of)
    BY DEF DeliveryInv, SavingInv, SaveCopy
  <1>6. m \in Targets(Sender, saving.of[3])
    BY <1>3, <1>5 DEF Reached
  <1>7. new.mailbox = m /\ new.id = saving.id /\ new.of = saving.of
    OBVIOUS
  <1> HIDE DEF new, m
  <1>8. \A x \in Senders : EnvelopeInv(x)'
    BY <1>2, EnvelopeKept DEF DeliveryInv
  <1>9. SavingInv'
    <2>1. Sender' = Sender
      BY <1>4 DEF Sender
    <2>2. /\ Trusted(Sender)' /\ Current(Sender)' = Current(Sender)
          /\ Reached(saving.rcpt_tos)' = Reached(saving.rcpt_tos)
          /\ Targets(Sender, saving.of[3])' = Targets(Sender, saving.of[3])
      BY <1>2, <1>4, <1>5, <2>1
      DEF Trusted, Current, Reached, Targets, Valid
    <2>3. \A j \in DOMAIN saving.rcpt_tos : j < saving.k + 1 =>
            Holds(MailboxOf[saving.rcpt_tos[j]], saving.of)'
      <3> TAKE j \in DOMAIN saving.rcpt_tos
      <3> HAVE j < saving.k + 1
      <3>1. CASE j < saving.k
        <4>1. Holds(MailboxOf[saving.rcpt_tos[j]], saving.of)
          BY <1>5, <3>1
        <4> QED BY <1>2, <1>4, <4>1 DEF Holds
      <3>2. CASE j = saving.k
        BY <1>2, <1>4, <1>7, <3>2 DEF Holds, m
      <3> QED BY <1>3, <3>1, <3>2
    <2>4. IF saving'.connected
            THEN client'[Sender'].pc = "answer"
                 /\ session'[Sender'].answer = "none"
          ELSE client'[Sender'].pc = "idle"
      BY <1>2, <1>4, <2>1 DEF DeliveryInv, SavingInv, SaveCopy
    <2>5. \A c \in stored' : c.of = saving.of => c.id = saving.id
      BY <1>2, <1>5, <1>7
    <2> QED BY <1>4, <1>5, <2>1, <2>2, <2>3, <2>4, <2>5 DEF SavingInv
  <1>10. StoredInv'
    <2>1. saving.of[1] = Sender
      BY DEF Sender
    <2>2. Begun(saving.of)
      <3>1. client[Sender].run \in Int /\ client[Sender].n \in Int
        BY <1>1, DeliveryAssumption DEF DeliveryInv, TypeOK, Clients
      <3> QED BY <1>5, <3>1 DEF Begun, Current
    <2>3. \A c \in stored' : Begun(c.of)'
      BY <1>2, <1>7, <2>2 DEF DeliveryInv, StoredInv, Begun
    <2>4. \A c, d \in stored' : c.of = d.of => c.id = d.id
      BY <1>2, <1>5, <1>7 DEF DeliveryInv, StoredInv
    <2>5. SentIsStored'
      BY <1>2 DEF DeliveryInv, StoredInv, SentIsStored, Targets, Valid
    <2>6. OnlyAddressed'
      BY <1>2, <1>6, <1>7, <2>1
      DEF DeliveryInv, StoredInv, OnlyAddressed, Targets, Valid
    <2>7. StrangersStoreNothing'
      BY <1>2, <1>5, <1>7, <2>1
      DEF DeliveryInv, StoredInv, StrangersStoreNothing, Trusted
    <2> QED BY <2>3, <2>4, <2>5, <2>6, <2>7 DEF StoredInv
  <1> QED BY <1>8, <1>9, <1>10 DEF DeliveryInv

\* Either answer.  250 follows the last recipient.
LEMMA ReplyInv ==
  ASSUME DeliveryInv, TypeOK', Saving, NEW a \in {"250", "451"}, Reply(a),
         a = "250" => saving.k > Len(saving.rcpt_tos)
  PROVE  DeliveryInv'
  <1>1. saving \in Savings /\ Sender \in Senders
    BY SavingType DEF DeliveryInv
  <1>2. /\ Trusted(Sender) /\ saving.of = Current(Sender)
        /\ Reached(saving.rcpt_tos) = Targets(Sender, saving.of[3])
        /\ saving.connected => client[Sender].pc = "answer"
        /\ \A j \in DOMAIN saving.rcpt_tos :
             j < saving.k => Holds(MailboxOf[saving.rcpt_tos[j]], saving.of)
    BY DEF DeliveryInv, SavingInv
  <1>3. ~Saving'
    BY DEF Reply, Saving
  <1>4. /\ stored' = stored /\ sent' = sent /\ client' = client
        /\ \A x \in Senders \ {Sender} : session'[x] = session[x]
    BY DEF Reply, DeliveryInv, TypeOK
  <1>5. ASSUME NEW s \in Senders, s = Sender
        PROVE  EnvelopeInv(s)'
    <2>1. CASE saving.connected
      <3>1. /\ session'[s].rcpt_tos = << >> /\ session'[s].answer = a
        BY <1>1, <1>5, <2>1 DEF Reply, DeliveryInv, TypeOK, Sessions
      <3>2. a = "250" =>
              \A m \in Targets(s, saving.of[3]) : Holds(m, saving.of)
        <4> SUFFICES ASSUME a = "250", NEW m \in Targets(s, saving.of[3])
                     PROVE  Holds(m, saving.of)
          OBVIOUS
        <4>1. m \in Reached(saving.rcpt_tos)
          BY <1>2, <1>5
        <4>2. PICK j \in DOMAIN saving.rcpt_tos :
                m = MailboxOf[saving.rcpt_tos[j]]
          BY <4>1 DEF Reached
        <4>3. /\ saving.rcpt_tos \in Seq(Valid) /\ saving.k \in Nat
              /\ saving.k > Len(saving.rcpt_tos)
          BY <1>1 DEF Savings
        <4>4. j < saving.k
          BY <4>2, <4>3
        <4> QED BY <1>2, <4>2, <4>4
      <3>3. /\ client'[s].pc = "answer" /\ client'[s].n = saving.of[3]
            /\ Current(s)' = saving.of
        BY <1>2, <1>4, <1>5, <2>1 DEF Current
      <3>4. a = "250" =>
              \A m \in Targets(s, saving.of[3]) : Holds(m, Current(s))'
        BY <1>4, <3>2, <3>3 DEF Holds
      <3>5. Trusted(s)'
        BY <1>2, <1>5 DEF Trusted
      <3> QED BY <3>1, <3>3, <3>4, <3>5 DEF EnvelopeInv, Targets, Valid
    <2>2. CASE ~saving.connected
      <3>1. session' = session
        BY <2>2 DEF Reply
      <3> QED BY <1>4, <3>1, EnvelopeKept DEF DeliveryInv
    <2> QED BY <2>1, <2>2
  <1>6. \A x \in Senders : EnvelopeInv(x)'
    BY <1>1, <1>4, <1>5, EnvelopeKept DEF DeliveryInv
  <1>7. SavingInv'
    BY <1>3 DEF SavingInv
  <1>8. StoredInv'
    BY <1>4, StoredKept DEF DeliveryInv, Begun
  <1> QED BY <1>6, <1>7, <1>8 DEF DeliveryInv

LEMMA DisconnectInv ==
  ASSUME DeliveryInv, TypeOK', NEW s \in Senders, Disconnect(s)
  PROVE  DeliveryInv'
  <1>1. /\ client' = [client EXCEPT ![s].pc = "idle"]
        /\ stored' = stored /\ sent' = sent
        /\ \A x \in Senders \ {s} : /\ client'[x] = client[x]
                                   /\ session'[x] = session[x]
    BY DEF Disconnect, DeliveryInv, TypeOK
  <1>2. /\ \A x \in Sendings : Begun(x) => Begun(x)'
        /\ Current(s)' = Current(s) /\ client'[s].pc = "idle"
    BY <1>1, PcKept DEF DeliveryInv
  <1>3. \A x \in Senders : EnvelopeInv(x)'
    <2>1. EnvelopeInv(s)'
      BY <1>2 DEF EnvelopeInv
    <2> QED BY <1>1, <2>1, EnvelopeKept DEF DeliveryInv
  <1>4. SavingInv'
    <2>1. CASE Saving /\ Sender = s
      <3>1. saving \in Savings
        BY <2>1, SavingType DEF DeliveryInv
      <3>2. /\ saving'.of = saving.of /\ saving'.id = saving.id
            /\ saving'.rcpt_tos = saving.rcpt_tos /\ saving'.k = saving.k
            /\ ~saving'.connected
        BY <2>1, <3>1 DEF Disconnect, Savings
      <3>3. /\ Trusted(s) /\ saving.of = Current(s)
            /\ Reached(saving.rcpt_tos) = Targets(s, saving.of[3])
            /\ \A c \in stored : c.of = saving.of => c.id = saving.id
            /\ \A j \in DOMAIN saving.rcpt_tos : j < saving.k =>
                 Holds(MailboxOf[saving.rcpt_tos[j]], saving.of)
        BY <2>1 DEF DeliveryInv, SavingInv
      <3>4. Sender' = s
        BY <2>1, <3>2 DEF Sender
      <3>5. Trusted(Sender)' /\ saving'.of = Current(Sender)'
        BY <1>2, <3>2, <3>3, <3>4 DEF Trusted, Current
      <3>6. Reached(saving.rcpt_tos)' = Targets(Sender, saving.of[3])'
        BY <3>2, <3>3, <3>4 DEF Reached, Targets, Valid
      <3>7. \A j \in DOMAIN saving.rcpt_tos : j < saving.k =>
              Holds(MailboxOf[saving.rcpt_tos[j]], saving.of)'
        BY <1>1, <3>2, <3>3 DEF Holds
      <3> QED BY <1>1, <1>2, <3>2, <3>3, <3>4, <3>5, <3>6, <3>7 DEF SavingInv
    <2>2. CASE ~(Saving /\ Sender = s)
      <3>1. saving' = saving
        BY <2>2 DEF Disconnect
      <3> QED BY <1>1, <2>2, <3>1, SavingKept, SavingType DEF DeliveryInv
    <2> QED BY <2>1, <2>2
  <1>5. StoredInv'
    BY <1>1, <1>2, StoredKept DEF DeliveryInv
  <1> QED BY <1>3, <1>4, <1>5 DEF DeliveryInv

LEMMA KillInv ==
  ASSUME DeliveryInv, TypeOK', Kill
  PROVE  DeliveryInv'
  <1>1. \A s \in Senders : client[s] \in Clients
    BY DEF DeliveryInv, TypeOK
  <1>2. \A s \in Senders :
          /\ client'[s].pc \in {"idle", "done"}
          /\ client'[s].run = client[s].run /\ client'[s].n = client[s].n
    BY <1>1 DEF Kill, Running, Clients
  <1>3. \A s \in Senders : EnvelopeInv(s)'
    BY <1>2 DEF EnvelopeInv
  <1>4. SavingInv'
    BY DEF Kill, SavingInv, Saving
  <1>5. \A x \in Sendings : Begun(x) => Begun(x)'
    BY <1>2 DEF Begun, Sendings
  <1>6. StoredInv'
    BY <1>5, StoredKept DEF DeliveryInv, Kill
  <1> QED BY <1>3, <1>4, <1>6 DEF DeliveryInv

LEMMA UnchangedInv ==
  ASSUME DeliveryInv, TypeOK',
         UNCHANGED <<client, session, saving, stored, sent>>
  PROVE  DeliveryInv'
  <1>1. \A s \in Senders : EnvelopeInv(s)'
    BY EnvelopeKept DEF DeliveryInv
  <1>2. SavingInv'
    BY SavingKept DEF DeliveryInv
  <1>3. StoredInv'
    BY StoredKept DEF DeliveryInv, Begun
  <1> QED BY <1>1, <1>2, <1>3 DEF DeliveryInv

-----------------------------------------------------------------------------
(* The theorems                                                            *)

LEMMA InitInv == Init => DeliveryInv
  <1> SUFFICES ASSUME Init PROVE DeliveryInv
    OBVIOUS
  <1>1. TypeOK
    BY DeliveryAssumption, FreshType DEF Init, TypeOK, Clients, AtAnEmail
  <1>2. \A s \in Senders : EnvelopeInv(s)
    BY DEF Init, EnvelopeInv
  <1>3. SavingInv
    BY DEF Init, SavingInv, Saving
  <1>4. StoredInv
    BY DEF Init, StoredInv, SentIsStored, OnlyAddressed, StrangersStoreNothing
  <1> QED BY <1>1, <1>2, <1>3, <1>4 DEF DeliveryInv

LEMMA StepInv == DeliveryInv /\ [Next]_vars => DeliveryInv'
  <1> SUFFICES ASSUME DeliveryInv, [Next]_vars PROVE DeliveryInv'
    OBVIOUS
  <1>1. TypeOK'
    BY TypeKept DEF DeliveryInv
  <1>2. ASSUME NEW s \in Senders, ClientStep(s)
        PROVE  DeliveryInv'
    BY <1>1, <1>2, StartRunInv, LoginInv, RcptInv, EndsInv, DataInv,
       AcceptedInv DEF ClientStep
  <1>3. CASE ServerStep
    BY <1>1, <1>3, SaveCopyInv, ReplyInv
    DEF ServerStep, ReplyAccepted, ReplyError
  <1>4. CASE Restart \/ UNCHANGED vars
    BY <1>1, <1>4, UnchangedInv DEF Restart, vars
  <1> QED BY <1>1, <1>2, <1>3, <1>4, DisconnectInv, KillInv DEF Next

\* The inductive invariant: where each script, its session and the save under
\* way stand to one another, and what is stored for whom.
THEOREM SpecDeliveryInv == Spec => []DeliveryInv
  BY InitInv, StepInv, PTL DEF Spec

\* "sent:" is printed only for what is in every recipient's mailbox.
THEOREM SentEmailsAreStored == Spec => []SentIsStored
  <1>1. DeliveryInv => SentIsStored
    BY DEF DeliveryInv, StoredInv
  <1> QED BY <1>1, SpecDeliveryInv, PTL

\* No session's recipients end up in another's email.
THEOREM CopiesAreAddressed == Spec => []OnlyAddressed
  <1>1. DeliveryInv => OnlyAddressed
    BY DEF DeliveryInv, StoredInv
  <1> QED BY <1>1, SpecDeliveryInv, PTL

\* Whatever is stored came with the server's name and password.
THEOREM StrangersAreKeptOut == Spec => []StrangersStoreNothing
  <1>1. DeliveryInv => StrangersStoreNothing
    BY DEF DeliveryInv, StoredInv
  <1> QED BY <1>1, SpecDeliveryInv, PTL

\* A mailbox holds one copy of an email for each run that sent it, even when
\* the email names the mailbox twice.
THEOREM NoRunStoresTwice == Spec => []OncePerRun
  <1>1. DeliveryInv => OncePerRun
    BY DEF DeliveryInv, StoredInv, OncePerRun, TypeOK, StoredCopies
  <1> QED BY <1>1, SpecDeliveryInv, PTL

-----------------------------------------------------------------------------
(* The order of sendings                                                   *)

LEMMA SenderType ==
  ASSUME TypeOK, NEW s \in Senders
  PROVE  /\ client[s] \in Clients /\ session[s] \in Sessions
         /\ client[s].run \in Nat /\ client[s].n \in Nat \ {0}
         /\ faults \in Nat /\ drawn \in Nat
  BY DeliveryAssumption DEF TypeOK, Clients

LEMMA DrawnKept ==
  ASSUME DrawnInv, stored' = stored, drawn' = drawn,
         Saving' => Saving /\ saving'.id = saving.id /\ saving'.of = saving.of
  PROVE  DrawnInv'
  BY DEF DrawnInv

LEMMA DrawnStep ==
  ASSUME DeliveryInv, DrawnInv, [Next]_vars
  PROVE  DrawnInv'
  <1>0. drawn \in Nat /\ \A c \in stored : c.id \in Nat
    BY DEF DeliveryInv, TypeOK, StoredCopies
  <1>1. CASE SaveCopy
    <2> DEFINE new == [mailbox |-> MailboxOf[saving.rcpt_tos[saving.k]],
                       id |-> saving.id, of |-> saving.of]
    <2>1. stored' = stored \cup {new} /\ drawn' = drawn /\ Saving
      BY <1>1 DEF SaveCopy
    <2>2. saving'.id = saving.id /\ saving'.of = saving.of
      BY <1>1, SavingType DEF SaveCopy, DeliveryInv, Savings
    <2>3. new.id = saving.id /\ new.of = saving.of
      OBVIOUS
    <2> HIDE DEF new
    <2> QED BY <1>0, <2>1, <2>2, <2>3 DEF DrawnInv
  <1>2. ASSUME NEW s \in Senders, Data(s)
        PROVE  DrawnInv'
    <2>1. /\ stored' = stored /\ drawn' = drawn + 1
          /\ saving'.id = drawn + 1
      BY <1>2 DEF Data
    <2>2. \A c \in stored : c.id <= drawn + 1 /\ c.id # drawn + 1
      BY <1>0 DEF DrawnInv
    <2> QED BY <2>1, <2>2 DEF DrawnInv
  <1>3. CASE ReplyAccepted \/ ReplyError
    BY <1>3, DrawnKept DEF ReplyAccepted, ReplyError, Reply, Saving
  <1>4. CASE Kill
    BY <1>4, DrawnKept DEF Kill, Saving
  <1>5. ASSUME NEW s \in Senders, Disconnect(s)
        PROVE  DrawnInv'
    <2>1. stored' = stored /\ drawn' = drawn
      BY <1>5 DEF Disconnect
    <2>2. CASE Saving /\ Sender = s
      <3>1. saving'.id = saving.id /\ saving'.of = saving.of
        BY <1>5, <2>2, SavingType DEF Disconnect, DeliveryInv, Savings
      <3> QED BY <2>1, <2>2, <3>1, DrawnKept
    <2>3. CASE ~(Saving /\ Sender = s)
      <3>1. saving' = saving
        BY <1>5, <2>3 DEF Disconnect
      <3> QED BY <2>1, <3>1, DrawnKept DEF Saving
    <2> QED BY <2>2, <2>3
  <1>6. ASSUME NEW s \in Senders,
               StartRun(s) \/ Login(s) \/ Rcpt(s) \/ AllRefused(s)
                 \/ Accepted(s) \/ Rejected(s)
        PROVE  DrawnInv'
    <2>1. saving' = saving /\ stored' = stored /\ drawn' = drawn
      BY <1>6
      DEF StartRun, Login, Rcpt, AllRefused, Accepted, Rejected
    <2> QED BY <2>1, DrawnKept DEF Saving
  <1>7. CASE Restart \/ UNCHANGED vars
    BY <1>7, DrawnKept DEF Restart, vars, Saving
  <1> QED BY <1>1, <1>2, <1>3, <1>4, <1>5, <1>6, <1>7
          DEF Next, ServerStep, ClientStep

\* A script that stays at its email and in its run.
Stays(s) ==
  /\ client'[s].run = client[s].run /\ client'[s].n = client[s].n
  /\ client[s].pc = "done" => client'[s].pc = "done"
  /\ client'[s].pc = "answer" =>
       client[s].pc = "answer" \/ Targets(s, client[s].n) # {}

\* DATA follows only when a recipient was accepted.
LEMMA DataHasTargets ==
  ASSUME DeliveryInv, NEW s \in Senders, Data(s)
  PROVE  Targets(s, client[s].n) # {}
  <1>1. /\ client[s].k = Len(Recipients(s)) + 1
        /\ client[s].n \in DOMAIN Emails[s]
    <2>1. /\ client[s].k \in 1..(Len(Recipients(s)) + 1)
          /\ client[s].n \in DOMAIN Emails[s]
          /\ Len(Recipients(s)) \in Nat
      BY CurrentType DEF Data, Running, DeliveryInv
    <2> QED BY <2>1 DEF Data
  <1>2. Reached(session[s].rcpt_tos) = Named(s, client[s].n, client[s].k)
    BY DEF DeliveryInv, EnvelopeInv, Data
  <1>3. Reached(session[s].rcpt_tos) = Targets(s, client[s].n)
    BY <1>1, <1>2, NamedAll DEF Recipients
  <1>4. session[s].rcpt_tos \in Seq(Valid) /\ session[s].rcpt_tos # << >>
    BY DEF DeliveryInv, TypeOK, Sessions, Data
  <1>5. 1 \in DOMAIN session[s].rcpt_tos
    BY <1>4
  <1> QED BY <1>3, <1>5 DEF Reached

LEMMA PcStays ==
  ASSUME TypeOK, NEW s \in Senders,
         NEW pc \in {"idle", "rcpt", "answer", "done"},
         client' = [client EXCEPT ![s].pc = pc],
         client[s].pc # "done",
         pc = "answer" => Targets(s, client[s].n) # {}
  PROVE  \A x \in Senders : Stays(x)
  <1>1. /\ client'[s].pc = pc
        /\ client'[s].run = client[s].run /\ client'[s].n = client[s].n
        /\ \A x \in Senders \ {s} : client'[x] = client[x]
    BY SenderType DEF TypeOK, Clients
  <1> QED BY <1>1 DEF Stays

LEMMA MostStay ==
  ASSUME DeliveryInv, [Next]_vars,
         \A s \in Senders : ~StartRun(s) /\ ~Accepted(s)
  PROVE  sent' = sent /\ \A x \in Senders : Stays(x)
  <1> USE DEF DeliveryInv
  <1>1. ASSUME NEW s \in Senders, Login(s)
        PROVE  sent' = sent /\ \A x \in Senders : Stays(x)
    BY <1>1, PcStays DEF Login
  <1>2. ASSUME NEW s \in Senders, Rcpt(s)
        PROVE  sent' = sent /\ \A x \in Senders : Stays(x)
    <2>1. \A x \in Senders : /\ client'[x].run = client[x].run
                             /\ client'[x].n = client[x].n
                             /\ client'[x].pc = client[x].pc
      BY <1>2, SenderType DEF Rcpt, TypeOK, Clients
    <2> QED BY <1>2, <2>1 DEF Rcpt, Stays
  <1>3. ASSUME NEW s \in Senders, AllRefused(s) \/ Rejected(s)
        PROVE  sent' = sent /\ \A x \in Senders : Stays(x)
    BY <1>3, PcStays DEF AllRefused, Rejected
  <1>4. ASSUME NEW s \in Senders, Data(s)
        PROVE  sent' = sent /\ \A x \in Senders : Stays(x)
    BY <1>4, PcStays, DataHasTargets DEF Data
  <1>5. ASSUME NEW s \in Senders, Disconnect(s)
        PROVE  sent' = sent /\ \A x \in Senders : Stays(x)
    BY <1>5, PcStays DEF Disconnect, Running
  <1>6. CASE Kill
    <2>1. \A x \in Senders :
            /\ client'[x].run = client[x].run /\ client'[x].n = client[x].n
            /\ \/ client'[x].pc = "idle" /\ client[x].pc # "done"
               \/ client'[x].pc = client[x].pc
      BY <1>6, SenderType DEF Kill, Running, TypeOK, Clients
    <2> QED BY <1>6, <2>1 DEF Kill, Stays
  <1>7. CASE ServerStep \/ Restart \/ UNCHANGED vars
    <2>1. client' = client /\ sent' = sent
      BY <1>7 DEF ServerStep, SaveCopy, ReplyAccepted, ReplyError, Reply,
                  Restart, vars
    <2> QED BY <2>1 DEF Stays
  <1> QED BY <1>1, <1>2, <1>3, <1>4, <1>5, <1>6, <1>7 DEF Next, ClientStep

LEMMA SentNext ==
  ASSUME \A s \in Senders :
           /\ client'[s].n \in DOMAIN Emails[s]
           /\ \A i \in 1..(client'[s].n - 1) :
                <<s, client'[s].run, i>> \in sent'
           /\ client'[s].pc = "answer" => Targets(s, client'[s].n) # {},
         \A x \in sent' :
           /\ x[2] <= client'[x[1]].run
           /\ x[2] = client'[x[1]].run =>
                x[3] < client'[x[1]].n \/ client'[x[1]].pc = "done"
  PROVE  SentInv'
  BY DEF SentInv, Targets, Valid

LEMMA SentStep ==
  ASSUME DeliveryInv, SentInv, [Next]_vars
  PROVE  SentInv'
  <1> USE DEF DeliveryInv
  <1>0. \A x \in sent :
          x[1] \in Senders /\ x[2] \in Nat /\ x[3] \in Nat
    BY DeliveryAssumption DEF TypeOK, Sendings
  <1>1. ASSUME NEW s \in Senders, StartRun(s)
        PROVE  SentInv'
    <2>1. /\ client'[s].run = client[s].run + 1 /\ client'[s].n = 1
          /\ client'[s].pc = "login" /\ sent' = sent
          /\ \A x \in Senders \ {s} : client'[x] = client[x]
      BY <1>1 DEF StartRun, TypeOK
    <2>2. client[s].run \in Nat
      BY SenderType
    <2>3. /\ client'[s].n \in DOMAIN Emails[s]
          /\ 1..(client'[s].n - 1) = {}
      BY <2>1, FirstEmail
    <2>4. \A x \in sent : x[1] = s =>
            x[2] <= client'[s].run /\ x[2] # client'[s].run
      BY <1>0, <2>1, <2>2 DEF SentInv
    <2>5. \A y \in Senders :
            /\ client'[y].n \in DOMAIN Emails[y]
            /\ \A i \in 1..(client'[y].n - 1) :
                 <<y, client'[y].run, i>> \in sent'
            /\ client'[y].pc = "answer" => Targets(y, client'[y].n) # {}
      BY <2>1, <2>3 DEF SentInv
    <2>6. \A x \in sent' :
            /\ x[2] <= client'[x[1]].run
            /\ x[2] = client'[x[1]].run =>
                 x[3] < client'[x[1]].n \/ client'[x[1]].pc = "done"
      BY <1>0, <2>1, <2>4 DEF SentInv
    <2> QED BY <2>5, <2>6, SentNext
  <1>2. ASSUME NEW s \in Senders, Accepted(s)
        PROVE  SentInv'
    <2>0. /\ client[s].n \in 1..Len(Emails[s]) /\ Len(Emails[s]) \in Nat
          /\ DOMAIN Emails[s] = 1..Len(Emails[s])
      BY <1>2, CurrentType, EmailType DEF Accepted, Running
    <2>1. /\ sent' = sent \cup {Current(s)}
          /\ Current(s) = <<s, client[s].run, client[s].n>>
          /\ client'[s].run = client[s].run
          /\ \/ /\ client[s].n < Len(Emails[s])
                /\ client'[s].n = client[s].n + 1
             \/ client'[s].n = client[s].n /\ client'[s].pc = "done"
          /\ client'[s].pc # "answer"
          /\ \A x \in Senders \ {s} : client'[x] = client[x]
      <3>1. CASE client[s].n < Len(Emails[s])
        BY <1>2, <3>1, SenderType DEF Accepted, TypeOK, Current
      <3>2. CASE ~(client[s].n < Len(Emails[s]))
        BY <1>2, <3>2, SenderType DEF Accepted, TypeOK, Current, Clients
      <3> QED BY <3>1, <3>2
    <2>2. client[s].run \in Nat
      BY SenderType
    <2>3. /\ client'[s].n \in DOMAIN Emails[s]
          /\ \A i \in 1..(client'[s].n - 1) :
               <<s, client'[s].run, i>> \in sent'
      <3>1. \A i \in 1..(client'[s].n - 1) :
              i \in 1..(client[s].n - 1) \/ i = client[s].n
        BY <2>0, <2>1
      <3> QED BY <2>0, <2>1, <3>1 DEF SentInv
    <2>4. \A y \in Senders : \A i \in 1..(client'[y].n - 1) :
            <<y, client'[y].run, i>> \in sent'
      BY <2>1, <2>3 DEF SentInv
    <2>5. ASSUME NEW x \in sent'
          PROVE  /\ x[2] <= client'[x[1]].run
                 /\ x[2] = client'[x[1]].run =>
                      x[3] < client'[x[1]].n \/ client'[x[1]].pc = "done"
      <3>1. CASE x \in sent /\ x[1] = s
        BY <1>0, <1>2, <2>0, <2>1, <2>2, <3>1 DEF SentInv, Accepted
      <3>2. CASE x \in sent /\ x[1] # s
        BY <1>0, <2>1, <3>2 DEF SentInv
      <3>3. CASE x = Current(s)
        BY <2>0, <2>1, <2>2, <3>3
      <3> QED BY <2>1, <3>1, <3>2, <3>3
    <2>6. \A y \in Senders :
            /\ client'[y].n \in DOMAIN Emails[y]
            /\ client'[y].pc = "answer" => Targets(y, client'[y].n) # {}
      BY <2>1, <2>3 DEF SentInv
    <2> QED BY <2>4, <2>5, <2>6, SentNext
  <1>3. CASE \A s \in Senders : ~StartRun(s) /\ ~Accepted(s)
    <2>1. sent' = sent /\ \A s \in Senders : Stays(s)
      BY <1>3, MostStay
    <2>2. \A s \in Senders :
            /\ client'[s].n \in DOMAIN Emails[s]
            /\ \A i \in 1..(client'[s].n - 1) :
                 <<s, client'[s].run, i>> \in sent'
            /\ client'[s].pc = "answer" => Targets(s, client'[s].n) # {}
      BY <2>1 DEF SentInv, Stays
    <2>3. \A x \in sent' :
            /\ x[2] <= client'[x[1]].run
            /\ x[2] = client'[x[1]].run =>
                 x[3] < client'[x[1]].n \/ client'[x[1]].pc = "done"
      BY <1>0, <2>1 DEF SentInv, Stays
    <2> QED BY <2>2, <2>3, SentNext
  <1> QED BY <1>1, <1>2, <1>3

LEMMA RunsNext ==
  ASSUME \A s \in Senders : CanSend(s) =>
           client'[s].run <= faults' + (IF Failed(s)' THEN 0 ELSE 1)
  PROVE  RunsInv'
  <1> SUFFICES ASSUME NEW s \in Senders, CanSend(s)
               PROVE  client'[s].run
                        <= faults' + (IF Failed(s)' THEN 0 ELSE 1)
    BY DEF RunsInv, CanSend, Targets, Valid
  <1> QED OBVIOUS

\* A run goes on, or fails, or a fault counts for it.
LEMMA RunsKept ==
  ASSUME TypeOK, RunsInv, faults' \in Nat,
         \A s \in Senders : CanSend(s) =>
           /\ client'[s].run = client[s].run
           /\ \/ faults' = faults + 1
              \/ faults' = faults /\ (Failed(s)' => Failed(s))
  PROVE  RunsInv'
  <1> SUFFICES ASSUME NEW s \in Senders, CanSend(s)
               PROVE  client'[s].run
                        <= faults' + (IF Failed(s)' THEN 0 ELSE 1)
    BY RunsNext
  <1>1. client[s].run \in Nat /\ faults \in Nat
    BY SenderType
  <1>2. client[s].run <= faults + (IF Failed(s) THEN 0 ELSE 1)
    BY DEF RunsInv
  <1> QED BY <1>1, <1>2

\* A script that can send is not told that all its recipients are refused.
LEMMA NeverAllRefused ==
  ASSUME DeliveryInv, NEW s \in Senders, CanSend(s), AllRefused(s)
  PROVE  FALSE
  <1>1. /\ client[s].k = Len(Recipients(s)) + 1
        /\ client[s].n \in DOMAIN Emails[s]
    <2>1. /\ client[s].k \in 1..(Len(Recipients(s)) + 1)
          /\ client[s].n \in DOMAIN Emails[s]
          /\ Len(Recipients(s)) \in Nat
      BY CurrentType DEF AllRefused, Running, DeliveryInv
    <2> QED BY <2>1 DEF AllRefused
  <1>2. Reached(<< >>) = Named(s, client[s].n, client[s].k)
    BY DEF DeliveryInv, EnvelopeInv, AllRefused
  <1>3. {} = Targets(s, client[s].n)
    BY <1>1, <1>2, NamedAll, NamedNone DEF Recipients
  <1> QED BY <1>1, <1>3 DEF CanSend

LEMMA RunsStep ==
  ASSUME DeliveryInv, RunsInv, [Next]_vars
  PROVE  RunsInv'
  <1> USE DEF DeliveryInv
  <1>0. faults \in Nat /\ TypeOK'
    BY TypeKept DEF TypeOK
  <1>1. ASSUME NEW s \in Senders, StartRun(s)
        PROVE  RunsInv'
    <2>1. /\ client'[s].run = client[s].run + 1
          /\ client'[s].pc = "login" /\ faults' = faults
          /\ \A x \in Senders \ {s} : /\ client'[x] = client[x]
                                     /\ session'[x] = session[x]
      BY <1>1 DEF StartRun, TypeOK
    <2>2. CanSend(s) => client[s].run + 1 <= faults + 1
      <3>1. client[s].run \in Nat
        BY SenderType
      <3> QED BY <1>0, <1>1, <3>1 DEF RunsInv, Failed, StartRun
    <2>3. ~Failed(s)'
      BY <2>1 DEF Failed
    <2>4. \A x \in Senders \ {s} : Failed(x)' <=> Failed(x)
      BY <2>1 DEF Failed
    <2>5. \A x \in Senders \ {s} : CanSend(x) =>
            client'[x].run <= faults' + (IF Failed(x)' THEN 0 ELSE 1)
      BY <2>1, <2>4 DEF RunsInv
    <2> QED BY <2>1, <2>2, <2>3, <2>5, RunsNext
  <1>2. ASSUME NEW s \in Senders, Login(s) \/ Rcpt(s) \/ Data(s)
        PROVE  RunsInv'
    <2>1. /\ faults' = faults
          /\ \A x \in Senders \ {s} : /\ client'[x] = client[x]
                                     /\ session'[x] = session[x]
          /\ client'[s].run = client[s].run
      BY <1>2, SenderType
      DEF Login, Rcpt, HandleRcpt, Data, TypeOK, Clients
    <2>2. CanSend(s) => ~Failed(s)'
      <3>1. CASE Login(s)
        BY <3>1, SenderType
        DEF Login, CanSend, Authenticates, Failed, TypeOK, Clients
      <3>2. CASE Rcpt(s)
        BY <3>2, SenderType DEF Rcpt, Failed, TypeOK, Clients
      <3>3. CASE Data(s)
        BY <3>3, SenderType
        DEF Data, Failed, TypeOK, Clients, EnvelopeInv
      <3> QED BY <1>2, <3>1, <3>2, <3>3
    <2>3. \A x \in Senders \ {s} : Failed(x)' => Failed(x)
      BY <2>1 DEF Failed
    <2> QED BY <1>0, <2>1, <2>2, <2>3, RunsKept
  <1>3. ASSUME NEW s \in Senders, AllRefused(s) \/ Rejected(s) \/ Accepted(s)
        PROVE  RunsInv'
    <2>1. /\ faults' = faults
          /\ \A x \in Senders \ {s} : /\ client'[x] = client[x]
                                     /\ session'[x] = session[x]
          /\ client'[s].run = client[s].run
      BY <1>3, SenderType
      DEF AllRefused, Rejected, Accepted, TypeOK, Clients
    <2>2. CanSend(s) => (Failed(s)' => Failed(s))
      <3>1. CASE AllRefused(s)
        BY <3>1, NeverAllRefused
      <3>2. CASE Rejected(s)
        BY <3>2 DEF Rejected, Failed
      <3>3. CASE Accepted(s)
        BY <3>3, SenderType DEF Accepted, Failed, TypeOK, Clients
      <3> QED BY <1>3, <3>1, <3>2, <3>3
    <2>3. \A x \in Senders \ {s} : Failed(x)' => Failed(x)
      BY <2>1 DEF Failed
    <2> QED BY <1>0, <2>1, <2>2, <2>3, RunsKept
  <1>4. CASE ReplyAccepted \/ (ReplyError /\ ~IsStorable)
    <2>0. Saving /\ Sender \in Senders /\ client' = client /\ faults' = faults
      BY <1>4, SavingType DEF ReplyAccepted, ReplyError, Reply
    <2>1. \A x \in Senders \ {Sender} : session'[x] = session[x]
      BY <1>4 DEF ReplyAccepted, ReplyError, Reply, TypeOK
    <2>2. CASE ~saving.connected
      <3>1. session' = session
        BY <1>4, <2>2 DEF ReplyAccepted, ReplyError, Reply
      <3> QED BY <1>0, <2>0, <3>1, RunsKept DEF Failed
    <2>3. CASE saving.connected /\ ReplyAccepted
      <3>1. session'[Sender].answer = "250"
        BY <2>0, <2>3, SenderType
        DEF ReplyAccepted, Reply, TypeOK, Sessions
      <3> QED BY <1>0, <2>0, <2>1, <3>1, RunsKept DEF Failed
    <2>4. CASE saving.connected /\ ReplyError /\ ~IsStorable
      <3>1. client[Sender].pc = "answer" /\ saving.of = Current(Sender)
        BY <2>0, <2>4 DEF SavingInv
      <3>2. /\ client[Sender].n \in DOMAIN Emails[Sender]
            /\ <<Sender, client[Sender].n>> \in Unstorable
        <4>1. saving.of[3] = client[Sender].n
          BY <3>1 DEF Current
        <4>2. client[Sender].n \in DOMAIN Emails[Sender]
          BY <2>0, <3>1, CurrentType DEF Running
        <4> QED BY <2>4, <4>1, <4>2 DEF IsStorable
      <3>3. ~CanSend(Sender)
        BY <3>2 DEF CanSend
      <3> QED BY <1>0, <2>0, <2>1, <3>3, RunsKept DEF Failed
    <2> QED BY <1>4, <2>2, <2>3, <2>4
  <1>5. ASSUME NEW s \in Senders, Disconnect(s)
        PROVE  RunsInv'
    <2>1. /\ faults' = faults + 1
          /\ \A x \in Senders : client'[x].run = client[x].run
      BY <1>5, SenderType DEF Disconnect, Fault, TypeOK, Clients
    <2> QED BY <1>0, <2>1, RunsKept
  <1>6. CASE Kill
    <2>1. /\ faults' = faults + 1
          /\ \A x \in Senders : client'[x].run = client[x].run
      BY <1>6, SenderType DEF Kill, Fault, TypeOK, Clients
    <2> QED BY <1>0, <2>1, RunsKept
  <1>7. CASE ReplyError /\ IsStorable
    BY <1>0, <1>7, RunsKept DEF ReplyError, Reply
  <1>8. CASE SaveCopy \/ Restart \/ UNCHANGED vars
    BY <1>0, <1>8, RunsKept DEF SaveCopy, Restart, vars, Failed
  <1> QED BY <1>1, <1>2, <1>3, <1>4, <1>5, <1>6, <1>7, <1>8
          DEF Next, ServerStep, ClientStep

\* What is drawn, reported and failed, in the order of each script's runs.
THEOREM SpecOrderInv == Spec => []OrderInv
  <1>1. Init => OrderInv
    <2> SUFFICES ASSUME Init PROVE OrderInv
      OBVIOUS
    <2>1. DrawnInv
      BY DEF Init, DrawnInv, Saving
    <2>2. SentInv
      <3>1. \A s \in Senders :
              /\ client[s].n = 1 /\ client[s].pc = "idle"
              /\ 1 \in DOMAIN Emails[s]
        BY FirstEmail DEF Init
      <3>2. 1..(1 - 1) = {}
        OBVIOUS
      <3> QED BY <3>1, <3>2 DEF Init, SentInv
    <2>3. RunsInv
      BY DEF Init, RunsInv, Failed
    <2> QED BY <2>1, <2>2, <2>3 DEF OrderInv
  <1>2. DeliveryInv /\ OrderInv /\ [Next]_vars => OrderInv'
    BY DrawnStep, SentStep, RunsStep DEF OrderInv
  <1> QED BY <1>1, <1>2, SpecDeliveryInv, PTL DEF Spec

\* Nothing but faults makes the runs of those who can send fail, and each
\* fault one run: with one run more than faults, one gets through.
THEOREM RunsFailForAReason == Spec => []RunsFailByFaults
  <1>1. DeliveryInv /\ OrderInv => RunsFailByFaults
    <2> SUFFICES ASSUME DeliveryInv, OrderInv, NEW s \in Senders, CanSend(s),
                        client[s].pc = "idle"
                 PROVE  client[s].run <= faults
      BY DEF RunsFailByFaults
    <2>1. faults \in Nat
      BY SenderType DEF DeliveryInv
    <2>2. client[s].run <= faults + 0
      BY DEF OrderInv, RunsInv, Failed
    <2> QED BY <2>1, <2>2
  <1> QED BY <1>1, SpecDeliveryInv, SpecOrderInv, PTL

-----------------------------------------------------------------------------
(* Mailing is implemented                                                  *)

\* It is the turn of the email that a script, or the server for it, is at.
LEMMA CurrentTurn ==
  ASSUME DeliveryInv, OrderInv, NEW s \in Senders, client[s].pc # "done"
  PROVE  Promise!Turn(Current(s))
  <1>1. /\ Current(s)[1] = s /\ Current(s)[2] = client[s].run
        /\ Current(s)[3] = client[s].n
    BY DEF Current
  <1>2. client[s].run \in Nat /\ client[s].n \in Nat
    BY SenderType DEF DeliveryInv
  <1>3. Current(s) \notin sent
    BY <1>1, <1>2 DEF OrderInv, SentInv
  <1>4. \A i \in 1..(client[s].n - 1) : <<s, client[s].run, i>> \in sent
    BY DEF OrderInv, SentInv
  <1>5. \A c \in stored : c.of[1] = s => c.of[2] <= client[s].run
    BY DEF DeliveryInv, StoredInv, Begun
  <1> QED BY <1>1, <1>3, <1>4, <1>5 DEF Promise!Turn

LEMMA SaveCopyStores ==
  ASSUME DeliveryInv, OrderInv, SaveCopy
  PROVE  [Promise!Next]_(Promise!vars)
  <1> DEFINE m == MailboxOf[saving.rcpt_tos[saving.k]]
             new == [mailbox |-> m, id |-> saving.id, of |-> saving.of]
  <1>1. /\ stored' = stored \cup {new} /\ sent' = sent
        /\ saving \in Savings /\ Sender \in Senders
    BY SavingType DEF DeliveryInv, SaveCopy
  <1>2. CASE new \in stored
    BY <1>1, <1>2 DEF Promise!vars
  <1>3. CASE new \notin stored
    <2>1. /\ Trusted(Sender) /\ saving.of = Current(Sender)
          /\ Reached(saving.rcpt_tos) = Targets(Sender, saving.of[3])
          /\ client[Sender].pc \in {"answer", "idle"}
          /\ \A c \in stored : c.of = saving.of => c.id = saving.id
      BY DEF DeliveryInv, SavingInv, SaveCopy
    <2>2. saving.of[1] = Sender /\ saving.of[3] \in DOMAIN Emails[Sender]
      BY <1>1, <2>1 DEF Sender, Current, OrderInv, SentInv
    <2>3. m \in Targets(Sender, saving.of[3])
      <3>1. saving.k \in DOMAIN saving.rcpt_tos
        BY <1>1 DEF SaveCopy, Savings
      <3> QED BY <2>1, <3>1 DEF Reached
    <2>4. Promise!Turn(saving.of)
      BY <1>1, <2>1, CurrentTurn
    <2>5. \A d \in stored : d.id = saving.id <=> d.of = saving.of
      BY <2>1 DEF OrderInv, DrawnInv, SaveCopy
    <2>6. \A d \in stored : d.of = saving.of => d.mailbox # m
      <3> SUFFICES ASSUME NEW d \in stored, d.of = saving.of, d.mailbox = m
                   PROVE  FALSE
        OBVIOUS
      <3>1. d = [mailbox |-> d.mailbox, id |-> d.id, of |-> d.of]
        BY DEF DeliveryInv, TypeOK, StoredCopies
      <3> QED BY <1>3, <2>1, <3>1
    <2>7. new.mailbox = m /\ new.id = saving.id /\ new.of = saving.of
      OBVIOUS
    <2> HIDE DEF new, m
    <2>8. Promise!Store(new)
      BY <1>1, <2>1, <2>2, <2>3, <2>4, <2>5, <2>6, <2>7
      DEF Promise!Store, Trusted
    <2> QED BY <1>1, <2>8 DEF Promise!Next
  <1> QED BY <1>2, <1>3

LEMMA AcceptedReports ==
  ASSUME DeliveryInv, OrderInv, NEW s \in Senders, Accepted(s)
  PROVE  Promise!Next
  <1>1. stored' = stored /\ sent' = sent \cup {Current(s)}
    BY DEF Accepted
  <1>2. Promise!Turn(Current(s))
    BY CurrentTurn DEF Accepted
  <1>3. /\ Current(s)[1] = s /\ Current(s)[3] = client[s].n
        /\ client[s].n \in DOMAIN Emails[s]
        /\ Targets(s, client[s].n) # {}
        /\ \A m \in Targets(s, client[s].n) : Holds(m, Current(s))
    BY DEF Current, Accepted, OrderInv, SentInv, DeliveryInv, EnvelopeInv
  <1>4. Promise!Report(Current(s))
    BY <1>1, <1>2, <1>3 DEF Promise!Report, Holds
  <1> QED BY <1>1, <1>4 DEF Promise!Next

\* Delivery implements Mailing: SaveCopy stores (a recipient named again
\* changes nothing), the answer 250 reports when its script reads it, and
\* every other step, the faults among them, changes neither.
THEOREM MailingIsImplemented == Spec => ImplementsMailing
  <1>1. Init => Promise!Init
    BY DEF Init, Promise!Init
  <1>2. DeliveryInv /\ OrderInv /\ [Next]_vars
          => [Promise!Next]_(Promise!vars)
    <2> SUFFICES ASSUME DeliveryInv, OrderInv, [Next]_vars
                 PROVE  [Promise!Next]_(Promise!vars)
      OBVIOUS
    <2>1. CASE SaveCopy
      BY <2>1, SaveCopyStores
    <2>2. ASSUME NEW s \in Senders, Accepted(s)
          PROVE  [Promise!Next]_(Promise!vars)
      BY <2>2, AcceptedReports
    <2>3. CASE ~SaveCopy /\ \A s \in Senders : ~Accepted(s)
      <3>1. UNCHANGED <<stored, sent>>
        BY <2>3
        DEF Next, ServerStep, ClientStep, StartRun, Login, Rcpt, AllRefused,
            Data, Rejected, ReplyAccepted, ReplyError, Reply, Disconnect,
            Kill, Restart, vars
      <3> QED BY <3>1 DEF Promise!vars
    <2> QED BY <2>1, <2>2, <2>3
  <1> QED BY <1>1, <1>2, SpecDeliveryInv, SpecOrderInv, PTL
          DEF Spec, ImplementsMailing, Promise!Spec
=============================================================================
