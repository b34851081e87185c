------------------------------- MODULE Startup -------------------------------
(***************************************************************************)
(* How the smtp process comes up (smtp/main.py): resolve_credentials       *)
(* (smtp/auth.py), ensure_self_signed_cert (common/tls.py), then the       *)
(* listener, and at last the log line that shows a generated password.     *)
(* Beside it, the operator's scripts/reset_smtp_password.py.  The web      *)
(* process keeps its certificate the same way, in a directory of its own.  *)
(*                                                                         *)
(* Either may stop between any two steps.  What counts is what the files   *)
(* of smtp_state_dir hold then, and which passwords somebody has seen.     *)
(* The file modes are left out.                                            *)
(***************************************************************************)
EXTENDS Integers

CONSTANTS
  MaxStops,    \* bound: failures and kills of the process and the script
  MaxResets    \* bound: runs of the script

ASSUME StartupAssumption == MaxStops \in Nat /\ MaxResets \in Nat

(***************************************************************************)
(* A file does not exist, is created or truncated and not yet written, or  *)
(* is whole.  Then smtp_credentials.json is the hash of the password that  *)
(* was drawn n-th, for which n stands, and the PEM files belong to the     *)
(* n-th key.  The password of the environment variables is number 0.       *)
(***************************************************************************)
Absent      == -2
Torn        == -1
EnvPassword == 0

VARIABLES
  creds,    \* smtp_credentials.json
  key,      \* tls/key.pem
  cert,     \* tls/cert.pem
  smtp,     \* the progress of run(), and its local variables
  reset,    \* the progress of the script, and its password
  drawn,    \* how many passwords have been drawn, by both
  keys,     \* how many keys have been generated
  told,     \* history: the passwords that have been logged or printed
  cut,      \* history: the passwords whose run stopped before it told them
  stops,    \* stops so far, for MaxStops
  resets    \* runs of the script so far, for MaxResets

files == <<creds, key, cert>>
vars  == <<files, smtp, reset, drawn, keys, told, cut, stops, resets>>

Down == [pc |-> "down", record |-> Absent, new |-> Absent, rsa |-> 0]
Rest == [pc |-> "rest", pw |-> 0]

\* new is new_password, Absent for None; rsa is the key just generated.
Runs ==
  [pc     : {"down", "exists", "read", "generate", "open", "fill", "tls",
             "keyopen", "keyfill", "certopen", "certfill", "load", "listen",
             "log", "up"},
   record : Nat \cup {Absent},
   new    : Nat \cup {Absent},
   rsa    : Nat]

Scripts == [pc : {"rest", "open", "fill", "print"}, pw : Nat]

Init ==
  /\ creds = Absent /\ key = Absent /\ cert = Absent
  /\ smtp = Down /\ reset = Rest
  /\ drawn = 0 /\ keys = 0
  /\ told = {EnvPassword} /\ cut = {}
  /\ stops = 0 /\ resets = 0

At(pc)   == smtp.pc = pc
GoTo(pc) == smtp' = [smtp EXCEPT !.pc = pc]

\* What is not the process's own: most of its steps leave it alone.
others == <<reset, drawn, keys, told, cut, stops, resets>>

-----------------------------------------------------------------------------
(* run(): resolve_credentials                                              *)

\* With both variables set the file is not looked at.  With one of them the
\* process gives up at once, which changes nothing.
Start ==
  /\ At("down")
  /\ \/ GoTo("exists")
     \/ smtp' = [smtp EXCEPT !.pc = "tls", !.record = EnvPassword]
  /\ UNCHANGED <<files, others>>

CredsExists ==
  /\ At("exists")
  /\ GoTo(IF creds = Absent THEN "generate" ELSE "read")
  /\ UNCHANGED <<files, others>>

\* Mutant: a file that does not parse is taken for a record all the same.
CredsReadTorn ==
  /\ At("read")
  /\ smtp' = [smtp EXCEPT !.pc = "tls", !.record = creds]
  /\ UNCHANGED <<files, others>>

\* A file that does not parse is an exception that nobody catches.
CredsRead ==
  /\ At("read")
  /\ creds # Torn
  /\ smtp' = [smtp EXCEPT !.pc = "tls", !.record = creds]
  /\ UNCHANGED <<files, others>>

CredsGenerate ==
  /\ At("generate")
  /\ drawn' = drawn + 1
  /\ smtp' = [smtp EXCEPT !.pc = "open", !.record = drawn + 1,
                          !.new = drawn + 1]
  /\ UNCHANGED <<files, reset, keys, told, cut, stops, resets>>

CredsOpen ==
  /\ At("open")
  /\ creds' = Torn
  /\ GoTo("fill")
  /\ UNCHANGED <<key, cert, others>>

CredsFill ==
  /\ At("fill")
  /\ creds' = smtp.record
  /\ GoTo("tls")
  /\ UNCHANGED <<key, cert, others>>

-----------------------------------------------------------------------------
(* run(): ensure_self_signed_cert, build_tls_context, controller.start     *)

\* Mutants: one of the files is enough; a new certificate at each start.
TlsExistsEither ==
  /\ At("tls")
  /\ GoTo(IF cert # Absent \/ key # Absent THEN "load" ELSE "keyopen")
  /\ UNCHANGED <<files, others>>

TlsExistsNot ==
  /\ At("tls")
  /\ GoTo("keyopen")
  /\ UNCHANGED <<files, others>>

\* Nobody else writes to the directory, so the two calls of exists() are one
\* step.
TlsExists ==
  /\ At("tls")
  /\ GoTo(IF cert # Absent /\ key # Absent THEN "load" ELSE "keyopen")
  /\ UNCHANGED <<files, others>>

\* Mutant: a key.pem that exists is not overwritten.
KeyOpenIfAbsent ==
  /\ At("keyopen")
  /\ keys' = keys + 1
  /\ IF key = Absent
       THEN key' = Torn /\ smtp' = [smtp EXCEPT !.pc = "keyfill",
                                               !.rsa = keys + 1]
       ELSE smtp' = [smtp EXCEPT !.pc = "certopen", !.rsa = keys + 1]
            /\ UNCHANGED key
  /\ UNCHANGED <<creds, cert, reset, drawn, told, cut, stops, resets>>

\* The key and the certificate are made in memory before key.pem is opened.
KeyOpen ==
  /\ At("keyopen")
  /\ keys' = keys + 1
  /\ key' = Torn
  /\ smtp' = [smtp EXCEPT !.pc = "keyfill", !.rsa = keys + 1]
  /\ UNCHANGED <<creds, cert, reset, drawn, told, cut, stops, resets>>

KeyFill ==
  /\ At("keyfill")
  /\ key' = smtp.rsa
  /\ GoTo("certopen")
  /\ UNCHANGED <<creds, cert, others>>

CertOpen ==
  /\ At("certopen")
  /\ cert' = Torn
  /\ GoTo("certfill")
  /\ UNCHANGED <<creds, key, others>>

CertFill ==
  /\ At("certfill")
  /\ cert' = smtp.rsa
  /\ GoTo("load")
  /\ UNCHANGED <<creds, key, others>>

\* load_cert_chain raises where a file does not parse or the two do not
\* belong together.
LoadTls ==
  /\ At("load")
  /\ key = cert /\ cert > Torn
  /\ GoTo("listen")
  /\ UNCHANGED <<files, others>>

Listen ==
  /\ At("listen")
  /\ GoTo("log")
  /\ UNCHANGED <<files, others>>

\* Mutant: the password is not logged.
LogPasswordNever ==
  /\ At("log")
  /\ GoTo("up")
  /\ UNCHANGED <<files, others>>

LogPassword ==
  /\ At("log")
  /\ told' = told \cup ({smtp.new} \ {Absent})
  /\ GoTo("up")
  /\ UNCHANGED <<files, reset, drawn, keys, cut, stops, resets>>

(***************************************************************************)
(* The process ends: it is killed or restarted, the port is taken, the     *)
(* disk is full, or one of the exceptions above is raised.  What it would  *)
(* not survive anyway costs none of the MaxStops.                          *)
(***************************************************************************)
Raises ==
  \/ At("read") /\ creds = Torn
  \/ At("load") /\ ~(key = cert /\ cert > Torn)

Stop ==
  /\ ~At("down")
  /\ IF Raises THEN UNCHANGED stops
     ELSE stops < MaxStops /\ stops' = stops + 1
  /\ cut' = IF At("up") THEN cut ELSE cut \cup ({smtp.new} \ {Absent})
  /\ smtp' = Down
  /\ UNCHANGED <<files, reset, drawn, keys, told, resets>>

-----------------------------------------------------------------------------
(* reset_smtp_password.py                                                  *)

ResetAt(pc) == reset.pc = pc
ResetGoTo(pc) == reset' = [reset EXCEPT !.pc = pc]

\* Given --username, or a file whose username it can read: it changes nothing
\* otherwise.
ResetStart ==
  /\ ResetAt("rest")
  /\ resets < MaxResets
  /\ resets' = resets + 1
  /\ drawn' = drawn + 1
  /\ reset' = [pc |-> "open", pw |-> drawn + 1]
  /\ UNCHANGED <<files, smtp, keys, told, cut, stops>>

ResetOpen ==
  /\ ResetAt("open")
  /\ creds' = Torn
  /\ ResetGoTo("fill")
  /\ UNCHANGED <<key, cert, smtp, drawn, keys, told, cut, stops, resets>>

\* Records of one username have one length, so a record that overwrites
\* another leaves nothing of it.
ResetFill ==
  /\ ResetAt("fill")
  /\ creds' = reset.pw
  /\ ResetGoTo("print")
  /\ UNCHANGED <<key, cert, smtp, drawn, keys, told, cut, stops, resets>>

ResetPrint ==
  /\ ResetAt("print")
  /\ told' = told \cup {reset.pw}
  /\ reset' = Rest
  /\ UNCHANGED <<files, smtp, drawn, keys, cut, stops, resets>>

ResetStop ==
  /\ ~ResetAt("rest")
  /\ stops < MaxStops
  /\ stops' = stops + 1
  /\ cut' = cut \cup {reset.pw}
  /\ reset' = Rest
  /\ UNCHANGED <<files, smtp, drawn, keys, told, resets>>

-----------------------------------------------------------------------------
SmtpStartStep ==
  \/ Start \/ CredsExists \/ CredsRead \/ CredsGenerate \/ CredsOpen
  \/ CredsFill \/ TlsExists \/ KeyOpen \/ KeyFill \/ CertOpen \/ CertFill
  \/ LoadTls \/ Listen \/ LogPassword

ResetStep == ResetOpen \/ ResetFill \/ ResetPrint

Next ==
  \/ SmtpStartStep
  \/ Stop
  \/ ResetStart
  \/ ResetStep
  \/ ResetStop

Spec == Init /\ [][Next]_vars

\* Both programs run on, an exception does end the process, and Docker starts
\* it again (docker-compose.yml:11).
Fairness ==
  /\ WF_vars(SmtpStartStep)
  /\ WF_vars(Raises /\ Stop)
  /\ WF_vars(ResetStep)

FairSpec == Spec /\ Fairness

-----------------------------------------------------------------------------
\* The files, the two programs and the history are as the code can leave them.
TypeOK ==
  /\ creds \in Nat \cup {Absent, Torn}
  /\ key   \in Nat \cup {Absent, Torn}
  /\ cert  \in Nat \cup {Absent, Torn}
  /\ smtp \in Runs /\ reset \in Scripts
  /\ drawn \in Nat /\ keys \in Nat
  /\ told \subseteq Nat /\ cut \subseteq Nat
  /\ stops \in Nat /\ resets \in Nat

\* Wherever earlier runs were stopped, a certificate on disk has its key
\* beside it: the key is written first (tls.py:47-55), and neither is
\* written again while both are there.
CertHasItsKey == cert # Absent => key > Torn /\ cert \in {Torn, key}

\* The certificate that clients may have pinned is reused on every restart
\* (tls.py:20-25).
CertIsKept == [][cert > Torn => UNCHANGED <<key, cert>>]_vars

\* A server that is up asks for a password that somebody has been shown, or
\* is about to be, unless a program was stopped between writing the file and
\* showing it (auth.py:66-72, main.py:37-56).
UntoldOnlyIfCut ==
  At("up") =>
    \/ smtp.record \in told \cup cut
    \/ ResetAt("print") /\ smtp.record = reset.pw

\* A file that a stop has left torn and that nobody is about to rewrite.
Broken == creds = Torn \/ cert = Torn

\* The service comes up again after any stop, except where the stop fell
\* between the opening and the writing of the credentials or of the
\* certificate: nothing in main.py repairs those.
ComesUp == <>[]Broken \/ []<>At("up")
=============================================================================
