---------------------------- MODULE StartupProofs ----------------------------
(***************************************************************************)
(* Proofs about Startup, for any number of stops and of resets.  The       *)
(* certificate and the passwords have an inductive invariant each: what    *)
(* the files hold as a function of how far the two programs have come.     *)
(***************************************************************************)
EXTENDS Startup, TLAPS

\* A key pair is made only while there is no certificate, cert.pem is touched
\* only when key.pem is whole, and load_cert_chain finds a certificate.
TlsInv ==
  /\ CertHasItsKey
  /\ smtp.pc \in {"keyopen", "keyfill", "certopen"} => cert = Absent
  /\ smtp.pc \in {"certopen", "certfill"} => key = smtp.rsa
  /\ At("load") => cert # Absent

Shown(p) ==
  \/ p \in told \cup cut
  \/ ResetAt("print") /\ p = reset.pw

\* The process is past resolve_credentials, and not yet past the log line.
Resolved ==
  smtp.pc \in {"tls", "keyopen", "keyfill", "certopen", "certfill", "load",
               "listen", "log"}

\* A password that works has been shown, or its program still runs.
KnownInv ==
  /\ EnvPassword \in told
  /\ \/ creds \in {Torn, Absent}
     \/ Shown(creds)
     \/ creds = smtp.new
  /\ smtp.pc \in {"down", "exists", "read", "generate"} => smtp.new = Absent
  /\ smtp.pc = "read" => creds # Absent
  /\ smtp.pc \in {"open", "fill"}
       => smtp.record = smtp.new /\ smtp.new # Absent
  /\ Resolved
       => \/ smtp.record = smtp.new /\ smtp.new # Absent
          \/ Shown(smtp.record)
  /\ At("up") => Shown(smtp.record) /\ smtp.new \in told \cup {Absent}

-----------------------------------------------------------------------------
\* The values of the variables stay in their ranges, whatever the two
\* programs do and wherever they are stopped.
THEOREM TypeCorrect == Spec => []TypeOK
  <1> USE DEF TypeOK, Runs, Scripts, Absent, Torn, EnvPassword
  <1>1. Init => TypeOK
    BY DEF Init, Down, Rest
  <1>2. TypeOK /\ [Next]_vars => TypeOK'
    <2> SUFFICES ASSUME TypeOK, [Next]_vars
                 PROVE  TypeOK'
      OBVIOUS
    <2>a. /\ drawn + 1 \in Nat /\ keys + 1 \in Nat
          /\ stops + 1 \in Nat /\ resets + 1 \in Nat
      OBVIOUS
    <2> USE DEF At, GoTo, others, files
    <2>1. CASE Start
      <3>1. smtp' \in Runs
        <4>1. CASE GoTo("exists")
          BY <4>1
        <4>2. CASE smtp' = [smtp EXCEPT !.pc = "tls", !.record = EnvPassword]
          <5>1. 0 \in Nat
            OBVIOUS
          <5> QED BY <4>2, <5>1
        <4> QED BY <2>1, <4>1, <4>2 DEF Start
      <3> QED BY <2>1, <3>1 DEF Start
    <2>1a. CASE CredsExists \/ CredsRead
      <3>1. smtp' \in Runs
        BY <2>1a DEF CredsExists, CredsRead
      <3> QED BY <2>1a, <3>1 DEF CredsExists, CredsRead
    <2>2. CASE CredsGenerate
      BY <2>2, <2>a DEF CredsGenerate
    <2>3. CASE CredsOpen \/ CredsFill
      BY <2>3 DEF CredsOpen, CredsFill
    <2>4. CASE TlsExists \/ LoadTls \/ Listen
      BY <2>4 DEF TlsExists, LoadTls, Listen
    <2>5. CASE KeyOpen \/ KeyFill
      BY <2>5, <2>a DEF KeyOpen, KeyFill
    <2>6. CASE CertOpen \/ CertFill
      BY <2>6 DEF CertOpen, CertFill
    <2>7. CASE LogPassword
      BY <2>7 DEF LogPassword
    <2>8. CASE Stop
      <3>1. smtp' \in Runs /\ cut' \subseteq Nat
        BY <2>8 DEF Stop, Down
      <3>2. stops' \in Nat
        BY <2>8, <2>a DEF Stop
      <3> QED BY <2>8, <3>1, <3>2 DEF Stop
    <2>9. CASE ResetStart
      BY <2>9, <2>a DEF ResetStart
    <2>10. CASE ResetStep
      BY <2>10 DEF ResetStep, ResetOpen, ResetFill, ResetPrint, ResetAt,
                   ResetGoTo, Rest
    <2>11. CASE ResetStop
      <3>1. reset' \in Scripts /\ cut' \subseteq Nat /\ stops' \in Nat
        BY <2>11, <2>a DEF ResetStop, ResetAt, Rest
      <3> QED BY <2>11, <3>1 DEF ResetStop
    <2>12. CASE UNCHANGED vars
      BY <2>12 DEF vars
    <2> QED
      BY <2>1, <2>1a, <2>2, <2>3, <2>4, <2>5, <2>6, <2>7, <2>8, <2>9, <2>10,
         <2>11, <2>12 DEF Next, SmtpStartStep
  <1> QED BY <1>1, <1>2, PTL DEF Spec

-----------------------------------------------------------------------------
(* The certificate                                                         *)

LEMMA TlsStep ==
  ASSUME TypeOK, TlsInv, [Next]_vars
  PROVE  TlsInv' /\ (cert > Torn => UNCHANGED <<key, cert>>)
  <1> USE DEF TypeOK, Runs, TlsInv, CertHasItsKey, Absent, Torn, At, GoTo,
              others, files
  <1>1. CASE Start \/ CredsExists \/ CredsRead \/ LoadTls \/ Listen
    BY <1>1 DEF Start, CredsExists, CredsRead, LoadTls, Listen
  <1>2. CASE CredsGenerate \/ CredsOpen \/ CredsFill
    BY <1>2 DEF CredsGenerate, CredsOpen, CredsFill
  <1>3. CASE TlsExists
    BY <1>3 DEF TlsExists
  <1>4. CASE KeyOpen
    BY <1>4 DEF KeyOpen
  <1>5. CASE KeyFill
    BY <1>5 DEF KeyFill
  <1>6. CASE CertOpen
    BY <1>6 DEF CertOpen
  <1>7. CASE CertFill
    BY <1>7 DEF CertFill
  <1>8. CASE LogPassword
    BY <1>8 DEF LogPassword
  <1>9. CASE Stop
    BY <1>9 DEF Stop, Down
  <1>10. CASE ResetStart \/ ResetStep \/ ResetStop
    BY <1>10 DEF ResetStart, ResetStep, ResetStop, ResetOpen, ResetFill,
                 ResetPrint
  <1>11. CASE UNCHANGED vars
    BY <1>11 DEF vars
  <1> QED
    BY <1>1, <1>2, <1>3, <1>4, <1>5, <1>6, <1>7, <1>8, <1>9, <1>10, <1>11
    DEF Next, SmtpStartStep

LEMMA SpecTlsInv == Spec => []TlsInv
  <1>1. Init => TlsInv
    BY DEF Init, TlsInv, CertHasItsKey, At, Down
  <1>2. TypeOK /\ TlsInv /\ [Next]_vars => TlsInv'
    BY TlsStep
  <1> QED BY <1>1, <1>2, TypeCorrect, PTL DEF Spec

\* Wherever runs are stopped, a certificate on disk has its key beside it:
\* ensure_self_signed_cert writes the key first, and generates a pair only
\* where one of the two is missing, which is then the certificate.
THEOREM CertificateHasItsKey == Spec => []CertHasItsKey
  <1>1. TlsInv => CertHasItsKey
    BY DEF TlsInv
  <1> QED BY <1>1, SpecTlsInv, PTL

\* A certificate that is whole, and its key, are never written again.
THEOREM CertificateIsKept == Spec => CertIsKept
  <1>1. TypeOK /\ TlsInv /\ [Next]_vars
          => [cert > Torn => UNCHANGED <<key, cert>>]_vars
    BY TlsStep
  <1> QED BY <1>1, TypeCorrect, SpecTlsInv, PTL DEF Spec, CertIsKept

\* A start of the process ends in an exception only over a credentials file
\* or a certificate that an earlier stop left torn (or, of the credentials,
\* that the script is just writing): a key without its certificate, or of
\* another one, never refuses a start.  The part of ComesUp that is not
\* liveness.
THEOREM OnlyTornFilesRaise == Spec => [](Raises => Broken)
  <1>1. TypeOK /\ TlsInv => (Raises => Broken)
    BY DEF TypeOK, TlsInv, CertHasItsKey, Raises, Broken, Torn, Absent
  <1> QED BY <1>1, TypeCorrect, SpecTlsInv, PTL

-----------------------------------------------------------------------------
(* The passwords                                                           *)

\* A password that was shown stays so: the one of the script is told or cut
\* short when the script ends.
LEMMA ShownStays ==
  ASSUME [Next]_vars, NEW p, Shown(p)
  PROVE  p \in told' \cup cut' \/ (reset'.pc = "print" /\ p = reset'.pw)
  <1> USE DEF Shown, ResetAt, ResetGoTo, others
  <1>1. CASE Start \/ CredsExists \/ CredsRead \/ CredsGenerate
    BY <1>1 DEF Start, CredsExists, CredsRead, CredsGenerate
  <1>2. CASE CredsOpen \/ CredsFill \/ TlsExists \/ KeyOpen \/ KeyFill
    BY <1>2 DEF CredsOpen, CredsFill, TlsExists, KeyOpen, KeyFill
  <1>3. CASE CertOpen \/ CertFill \/ LoadTls \/ Listen
    BY <1>3 DEF CertOpen, CertFill, LoadTls, Listen
  <1>4. CASE LogPassword \/ Stop
    BY <1>4 DEF LogPassword, Stop
  <1>5. CASE ResetStart \/ ResetOpen \/ ResetFill
    BY <1>5 DEF ResetStart, ResetOpen, ResetFill
  <1>6. CASE ResetPrint \/ ResetStop
    BY <1>6 DEF ResetPrint, ResetStop
  <1>7. CASE UNCHANGED vars
    BY <1>7 DEF vars
  <1> QED
    BY <1>1, <1>2, <1>3, <1>4, <1>5, <1>6, <1>7
    DEF Next, SmtpStartStep, ResetStep

LEMMA ToldGrows ==
  ASSUME [Next]_vars
  PROVE  told \subseteq told'
  <1>1. CASE LogPassword \/ ResetPrint
    BY <1>1 DEF LogPassword, ResetPrint
  <1>2. CASE Stop \/ ResetStart \/ ResetOpen \/ ResetFill \/ ResetStop
    BY <1>2 DEF Stop, ResetStart, ResetOpen, ResetFill, ResetStop
  <1>3. CASE UNCHANGED vars
    BY <1>3 DEF vars
  <1> QED
    BY <1>1, <1>2, <1>3
    DEF Next, SmtpStartStep, ResetStep, others, Start, CredsExists, CredsRead,
        CredsGenerate, CredsOpen, CredsFill, TlsExists, KeyOpen, KeyFill,
        CertOpen, CertFill, LoadTls, Listen

LEMMA KnownStep ==
  ASSUME TypeOK, KnownInv, [Next]_vars
  PROVE  KnownInv'
  <1> DEFINE ShownNext(p) ==
               p \in told' \cup cut' \/ (reset'.pc = "print" /\ p = reset'.pw)
  <1>a. \A p : Shown(p) => ShownNext(p)
    BY ShownStays
  <1>b. /\ Shown(creds) => ShownNext(creds)
        /\ Shown(smtp.record) => ShownNext(smtp.record)
    BY <1>a
  <1>c. Shown(creds)' <=> ShownNext(creds')
    BY DEF Shown, ResetAt
  <1>d. Shown(smtp.record)' <=> ShownNext(smtp'.record)
    BY DEF Shown, ResetAt
  <1>e. ShownNext(EnvPassword) /\ EnvPassword \in told'
    <2>1. told \subseteq told'
      BY ToldGrows
    <2> QED BY <2>1 DEF KnownInv
  <1> HIDE DEF ShownNext
  <1> USE <1>b, <1>c, <1>d, <1>e
      DEF TypeOK, Runs, Scripts, KnownInv, Resolved, At, GoTo, others, files
  <1>1. CASE Start
    BY <1>1 DEF Start
  <1>2. CASE CredsExists
    BY <1>2 DEF CredsExists
  <1>3. CASE CredsRead
    BY <1>3 DEF CredsRead
  <1>4. CASE CredsGenerate
    <2>1. drawn + 1 # Absent
      BY DEF Absent
    <2> QED BY <1>4, <2>1 DEF CredsGenerate
  <1>5. CASE CredsOpen \/ CredsFill
    BY <1>5 DEF CredsOpen, CredsFill
  <1>6. CASE TlsExists \/ KeyOpen \/ KeyFill
    BY <1>6 DEF TlsExists, KeyOpen, KeyFill
  <1>7. CASE CertOpen \/ CertFill \/ LoadTls \/ Listen
    BY <1>7 DEF CertOpen, CertFill, LoadTls, Listen
  <1>8. CASE LogPassword
    <2>1. smtp.new # Absent => smtp.new \in told'
      BY <1>8 DEF LogPassword
    <2>2. smtp.new # Absent => ShownNext(smtp.new)
      BY <2>1 DEF ShownNext
    <2> QED BY <1>8, <2>1, <2>2 DEF LogPassword
  <1>9. CASE Stop
    <2>1. smtp.new # Absent => smtp.new \in told' \cup cut'
      BY <1>9 DEF Stop
    <2>2. smtp.new # Absent => ShownNext(smtp.new)
      BY <2>1 DEF ShownNext
    <2> QED BY <1>9, <2>2 DEF Stop, Down
  <1>10. CASE ResetStart
    <2>1. UNCHANGED <<creds, smtp, told>>
      BY <1>10 DEF ResetStart
    <2> QED BY <2>1
  <1>10a. CASE ResetOpen
    <2>1. creds' = Torn /\ UNCHANGED <<smtp, told>>
      BY <1>10a DEF ResetOpen
    <2> QED BY <2>1 DEF Torn, Absent
  <1>11. CASE ResetFill
    <2>1. ShownNext(creds')
      BY <1>11 DEF ResetFill, ResetGoTo, ShownNext
    <2> QED BY <1>11, <2>1 DEF ResetFill, Torn, Absent
  <1>12. CASE ResetPrint \/ ResetStop
    <2>1. told \subseteq told'
      BY ToldGrows
    <2> QED BY <1>12, <2>1 DEF ResetPrint, ResetStop
  <1>13. CASE UNCHANGED vars
    BY <1>13 DEF vars
  <1> QED
    BY <1>1, <1>2, <1>3, <1>4, <1>5, <1>6, <1>7, <1>8, <1>9, <1>10, <1>10a,
       <1>11, <1>12, <1>13 DEF Next, SmtpStartStep, ResetStep

LEMMA SpecKnownInv == Spec => []KnownInv
  <1>1. Init => KnownInv
    BY DEF Init, KnownInv, Resolved, At, Down
  <1>2. TypeOK /\ KnownInv /\ [Next]_vars => KnownInv'
    BY KnownStep
  <1> QED BY <1>1, <1>2, TypeCorrect, PTL DEF Spec

\* A server never asks for a password that nobody has seen, unless a program
\* was stopped between storing that password's hash and showing it.
THEOREM UntoldPasswordsWereCut == Spec => []UntoldOnlyIfCut
  <1>1. KnownInv => UntoldOnlyIfCut
    BY DEF KnownInv, UntoldOnlyIfCut, Shown
  <1> QED BY <1>1, SpecKnownInv, PTL
=============================================================================
