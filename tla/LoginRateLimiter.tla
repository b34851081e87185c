--------------------------- MODULE LoginRateLimiter ---------------------------
(***************************************************************************)
(* LoginRateLimiter (web/login_rate_limit.py): failed logins per mailbox   *)
(* in a fixed window.  One lock serializes its methods, so each is one     *)
(* step.  Time is kept as the age of the window, which stops at Window:    *)
(* the code compares nothing else, and time.time() is taken not to go      *)
(* back.                                                                   *)
(***************************************************************************)
EXTENDS Integers, Accounts

CONSTANTS
  MaxAttempts,   \* login_max_attempts
  Window         \* login_window_seconds, in ticks

ASSUME LimiterAssumption ==
  /\ MaxAttempts \in Nat \ {0}
  /\ Window \in Nat \ {0}

VARIABLE failures   \* _failures: the count is 0 where the dict has no entry

NoFailures == [count |-> 0, age |-> 0]

LimiterTypeOK == failures \in [Mailboxes -> [count : Nat, age : 0..Window]]

LimiterInit == failures = [m \in Mailboxes |-> NoFailures]

RolledOver(m) == failures[m].age >= Window

\* Mutant: one failure more than max_attempts is needed.
IsLimitedLate(m) == ~RolledOver(m) /\ failures[m].count > MaxAttempts

IsLimited(m) == ~RolledOver(m) /\ failures[m].count >= MaxAttempts

\* is_limited drops an entry whose window has rolled over.
DropRolledOver(m) ==
  failures' = IF RolledOver(m) THEN [failures EXCEPT ![m] = NoFailures]
              ELSE failures

\* Mutant: the window slides, each failure starts it again.
RecordFailureSlides(m) ==
  failures' = [failures EXCEPT ![m] =
    [count |-> IF RolledOver(m) THEN 1 ELSE failures[m].count + 1, age |-> 0]]

\* A failure counts in the window that is open, or opens one.
RecordFailure(m) ==
  failures' = [failures EXCEPT ![m] =
    IF failures[m].count = 0 \/ RolledOver(m)
      THEN [count |-> 1, age |-> 0]
      ELSE [count |-> failures[m].count + 1, age |-> failures[m].age]]

Reset(m) == failures' = [failures EXCEPT ![m] = NoFailures]

Aged(f) ==
  IF f.count = 0 \/ f.age = Window THEN f
  ELSE [count |-> f.count, age |-> f.age + 1]

AgeFailures == failures' = [m \in Mailboxes |-> Aged(failures[m])]
=============================================================================
